---------------------------- MODULE PacingProofs ----------------------------
(* Proofs about Pacing for every set of receivers, every rate, burst and    *)
(* ceiling, and every capacity.                                             *)
EXTENDS Pacing, SequenceTheorems, TLAPS

USE RateAssumption, PacingAssumption

-----------------------------------------------------------------------------
(* The inductive invariant.                                                 *)

\* The types of the rate controller's, the group's and the batching's part.
RateType ==
    /\ rate \in LowRate .. TopRate
    /\ ewma \in [Receivers -> Measure] /\ fresh \in [Receivers -> 0 .. StaleTicks]
    /\ goodTicks \in 0 .. GoodTicksNeeded
    /\ slowStartLimit \in 0 .. TopRate \cup {None} /\ demandWhenReduced \in Measure
    /\ members \subseteq Receivers /\ opened \subseteq members
    /\ loss \in [Receivers -> Measure]
    /\ cleanWindows \in 0 .. CleanNeeded /\ gaveUp \in BOOLEAN
    /\ limit \in {1, MaxSegments}

\* The types of the loop's and the pacer's part.
LoopType ==
    /\ at \in {"top", "select", "taken", "batch"} \cup Ended
    /\ outbound \in Seq({"shard", "eof"}) /\ Len(outbound) <= Capacity
    /\ queued \in Seq({"shard", "eof"}) /\ Len(queued) <= MaxSegments
    /\ segments \in 0 .. limit - 1
    /\ ended \in BOOLEAN /\ draining \in BOOLEAN
    /\ credit \in 0 .. BurstCap(TopRate) /\ idle \in 0 .. MaxIdle
    /\ waited \in BOOLEAN /\ spent \in BOOLEAN
    /\ bucket \in Int /\ since \in 0 .. Unit

\* There is credit for every shard that a turn has still to send.
TurnIsPaidFor == at \in {"taken", "batch"} => Len(queued) * Unit <= credit

\* The allowance covers the credit, and what a refill could add to it.
AllowanceCovers ==
    credit + AtMost(BurstCap(TopRate), TopRate * idle) <= bucket

PacingInv ==
    RateType /\ LoopType /\ NothingWaits /\ TurnIsPaidFor /\ AllowanceCovers

\* The pacer says that it waited only when credit was spent, and a turn that took
\* as much as there was credit for has spent it.
WaitedWhenSpent ==
    /\ waited => spent
    /\ at = "taken" /\ Len(queued) = Budget => spent

\* Of what the lowest rate earns nothing is lost, up to a shard.
CreditKept == credit + idle * LowRate >= AtMost(Unit, LowRate * since)

-----------------------------------------------------------------------------
(* Arithmetic.                                                              *)

\* Products grow with their factors.
LEMMA ProductMonotone ==
    ASSUME NEW a \in Nat, NEW b \in Nat, NEW c \in Nat, a <= b
    PROVE  a * c \in Nat /\ b * c \in Nat /\ a * c <= b * c /\ c * a = a * c
           /\ c * b = b * c
<1> DEFINE d == b - a
<1>1. d \in Nat /\ b = a + d
    OBVIOUS
<1>2. b * c = a * c + d * c /\ d * c \in Nat /\ a * c \in Nat
    BY <1>1
<1> QED BY <1>2

\* A product of natural numbers is one.
LEMMA ProductIsNat ==
    ASSUME NEW a \in Nat, NEW b \in Nat
    PROVE  a * b \in Nat /\ a * b = b * a
    OBVIOUS

\* A quotient of natural numbers is one, and no larger.
LEMMA QuotientBounds ==
    ASSUME NEW a \in Nat, NEW b \in Nat \ {0}
    PROVE  a \div b \in 0 .. a
    OBVIOUS

\* A fraction of a number is no more than the number.
LEMMA FractionBounds ==
    ASSUME NEW a \in Nat, NEW w \in Nat \ {0}, NEW p \in 0 .. w
    PROVE  (a * p) \div w \in 0 .. a
<1>1. a * p \in Nat /\ a * p <= a * w /\ a * w \in Nat
    BY ProductMonotone
<1>2. (a * w) \div w = a
    OBVIOUS
<1>3. (a * p) \div w \in Nat /\ ((a * p) \div w) * w <= a * p
    BY <1>1
<1>4. ASSUME (a * p) \div w > a PROVE FALSE
    <2>1. (a + 1) * w <= ((a * p) \div w) * w
        BY <1>3, <1>4, ProductMonotone
    <2>2. (a + 1) * w = a * w + w
        OBVIOUS
    <2> QED BY <2>1, <2>2, <1>1, <1>3
<1> QED BY <1>3, <1>4

\* A whole number of shards fits into the credit that budget counts.
LEMMA BudgetIsPaidFor ==
    ASSUME NEW c \in Nat, NEW n \in Nat, n <= c \div Unit
    PROVE  n * Unit <= c
<1>1. c \div Unit \in Nat /\ (c \div Unit) * Unit <= c
    OBVIOUS
<1>2. n * Unit <= (c \div Unit) * Unit
    BY <1>1, ProductMonotone
<1> QED BY <1>1, <1>2

\* The highest rate is at least every rate the controller starts from or stops
\* at.
LEMMA TopRateIsHighest ==
    /\ TopRate \in Nat /\ InitialRate <= TopRate /\ Ceiling <= TopRate
    /\ MinRate <= TopRate
    /\ LowRate \in Nat /\ LowRate <= MinRate /\ LowRate <= Ceiling
    /\ LowRate <= TopRate
    BY DEF TopRate, LowRate, AtLeast, AtMost

\* A burst is at least a shard, and grows with the rate.
LEMMA CapBounds ==
    ASSUME NEW r \in Nat
    PROVE  BurstCap(r) \in Nat /\ Unit <= BurstCap(r)
<1>1. r * Quantum \in Nat
    BY ProductMonotone
<1> QED BY <1>1 DEF BurstCap, Clamp, AtMost, AtLeast

LEMMA CapMonotone ==
    ASSUME NEW r \in Nat, NEW q \in Nat, r <= q
    PROVE  BurstCap(r) <= BurstCap(q)
<1>1. r * Quantum \in Nat /\ q * Quantum \in Nat /\ r * Quantum <= q * Quantum
    BY ProductMonotone
<1> QED BY <1>1 DEF BurstCap, Clamp, AtMost, AtLeast

-----------------------------------------------------------------------------
(* The rate.                                                                *)

\* What a cut and a step of growth lead to.
LEMMA ReducedBounds ==
    ASSUME rate \in Nat, NEW w \in Nat
    PROVE  Reduced(w) \in 0 .. rate
<1>1. AtLeast(Whole - 4 * w, Whole \div 2) \in 0 .. Whole
    BY DEF AtLeast
<1> QED BY <1>1, FractionBounds DEF Reduced

LEMMA GrownBounds ==
    ASSUME RateType
    PROVE  Grown \in LowRate .. Ceiling /\ (rate < Ceiling => Grown > rate)
<1>1. rate \in Nat /\ LowRate <= rate
    BY TopRateIsHighest DEF RateType
<1>2. AdditiveStep \in Nat \ {0}
    <2>1. (IF slowStartLimit = None THEN rate ELSE slowStartLimit) \in Nat
        BY <1>1, TopRateIsHighest DEF RateType
    <2> QED BY <2>1, QuotientBounds DEF AdditiveStep, AtLeast
<1>3. rate * SlowStartFactor \in Nat /\ rate <= rate * SlowStartFactor
      /\ (rate > 0 => rate < rate * SlowStartFactor)
    <2>1. 2 * rate <= SlowStartFactor * rate /\ SlowStartFactor * rate \in Nat
          /\ rate * SlowStartFactor = SlowStartFactor * rate
        BY <1>1, ProductMonotone
    <2> QED BY <2>1, <1>1
<1> DEFINE more == IF InSlowStart THEN rate * SlowStartFactor
                   ELSE rate + AdditiveStep
<1>4. more \in Nat /\ rate <= more /\ (rate > 0 => rate < more)
    BY <1>1, <1>2, <1>3
\* MinRate is no zero: a rate below the ceiling is none either.
<1>5. LowRate <= Ceiling /\ (rate < Ceiling => rate > 0)
    BY <1>1, TopRateIsHighest DEF LowRate, AtMost
<1>6. Grown = AtMost(more, Ceiling)
    BY DEF Grown
<1> HIDE DEF more
<1> QED BY <1>1, <1>4, <1>5, <1>6, TopRateIsHighest DEF AtMost

\* What repair is asked for is a measurement.
LEMMA WorstIsMeasured ==
    ASSUME RateType, NEW w \in Worst({ewma[r] : r \in Recent})
    PROVE  w \in Measure
    BY DEF RateType, Worst, Recent

LEMMA MeasureBounds ==
    ASSUME NEW w \in Measure
    PROVE  w \in Int /\ -1 <= w /\ w <= Whole
    BY DEF Measure, None

\* The tick keeps the rate, and what it is grown from, within bounds.
LEMMA TickRateType ==
    ASSUME RateType, NEW limited \in BOOLEAN, TickRate(limited)
    PROVE  /\ rate' \in LowRate .. TopRate /\ goodTicks' \in 0 .. GoodTicksNeeded
           /\ slowStartLimit' \in 0 .. TopRate \cup {None}
           /\ demandWhenReduced' \in Measure
<1>1. rate \in Nat /\ rate \in LowRate .. TopRate
    BY TopRateIsHighest DEF RateType
<1>2. CASE UNCHANGED growthVars
    BY <1>2 DEF growthVars, RateType
<1>3. ASSUME NEW w \in Worst({ewma[r] : r \in Recent}), w > Threshold, BadTick(w)
      PROVE  /\ rate' \in LowRate .. TopRate /\ goodTicks' \in 0 .. GoodTicksNeeded
             /\ slowStartLimit' \in 0 .. TopRate \cup {None}
             /\ demandWhenReduced' \in Measure
    <2>1. w \in Measure /\ w \in Nat
        BY <1>3, WorstIsMeasured, MeasureBounds
    <2>2. Reduced(w) \in 0 .. rate
        BY <1>1, <2>1, ReducedBounds
    <2>3. CASE BackingOffHelps(w)
        BY <1>1, <1>3, <2>1, <2>2, <2>3, TopRateIsHighest DEF BadTick, AtLeast
    <2>4. CASE ~BackingOffHelps(w)
        BY <1>3, <2>1, <2>4 DEF BadTick, RateType
    <2> QED BY <2>3, <2>4
<1>4. CASE GoodTick(limited)
    <2>1. Grown \in LowRate .. TopRate
        BY GrownBounds, TopRateIsHighest
    <2>2. goodTicks' \in 0 .. GoodTicksNeeded
        BY <1>4 DEF GoodTick, RateType, AtMost
    <2> QED BY <1>4, <2>1, <2>2 DEF GoodTick, RateType, Measure
<1> QED BY <1>2, <1>3, <1>4 DEF TickRate

\* Those who go take their statistics with them.
LEMMA WithoutType ==
    ASSUME RateType, NEW gone, Without(gone)
    PROVE  /\ members' \subseteq Receivers /\ opened' \subseteq members'
           /\ members' \subseteq members
           /\ loss' \in [Receivers -> Measure]
    BY DEF RateType, Without, Measure

LEMMA ObserveType ==
    ASSUME RateType, Observe
    PROVE  cleanWindows' \in 0 .. CleanNeeded /\ gaveUp' \in BOOLEAN
<1>1. CASE UNCHANGED <<cleanWindows, gaveUp>>
    BY <1>1 DEF RateType
<1>2. ASSUME NEW w \in Worst(Losses), gaveUp' = (gaveUp \/ w > Threshold),
             cleanWindows' = IF w > Threshold THEN 0
                             ELSE AtMost(cleanWindows + 1, CleanNeeded)
      PROVE  cleanWindows' \in 0 .. CleanNeeded /\ gaveUp' \in BOOLEAN
    <2>1. gaveUp' \in BOOLEAN
        BY <1>2
    <2>2. cleanWindows' \in 0 .. CleanNeeded
        BY <1>2 DEF RateType, AtMost
    <2> QED BY <2>1, <2>2
<1> QED BY <1>1, <1>2 DEF Observe

\* Every action of the controller's side keeps its types.
LEMMA TickType ==
    ASSUME RateType, NEW limited \in BOOLEAN, Tick(limited)
    PROVE  RateType'
<1>1. rate' \in LowRate .. TopRate /\ goodTicks' \in 0 .. GoodTicksNeeded
      /\ slowStartLimit' \in 0 .. TopRate \cup {None} /\ demandWhenReduced' \in Measure
    BY TickRateType DEF Tick
<1>2. members' \subseteq Receivers /\ opened' \subseteq members'
      /\ loss' \in [Receivers -> Measure]
    BY WithoutType DEF Tick
<1>3. cleanWindows' \in 0 .. CleanNeeded /\ gaveUp' \in BOOLEAN
    BY ObserveType DEF Tick
<1>4. fresh' \in [Receivers -> 0 .. StaleTicks] /\ ewma' = ewma
    BY DEF Tick, RateType, AtLeast
<1>5. limit' \in {1, MaxSegments}
    BY DEF Tick, Segments
<1> QED BY <1>1, <1>2, <1>3, <1>4, <1>5 DEF RateType, TopRate, LowRate

LEMMA ReportType ==
    ASSUME RateType, ReportNext
    PROVE  RateType' /\ UNCHANGED growthVars /\ UNCHANGED widthVars
<1>1. PICK r \in Receivers : ShortReport(r) \/ WindowReport(r) \/ Leave(r)
    BY DEF ReportNext
<1>2. UNCHANGED growthVars /\ UNCHANGED widthVars
    BY <1>1 DEF ShortReport, WindowReport, Leave
<1>3. UNCHANGED <<rate, goodTicks, slowStartLimit, demandWhenReduced, cleanWindows,
                  gaveUp, limit>>
    BY <1>2 DEF growthVars, widthVars
<1>4. CASE ShortReport(r)
    BY <1>3, <1>4 DEF ShortReport, RateType, clientVars, TopRate
<1>5. CASE WindowReport(r)
    <2>1. PICK d \in Levels : OnReport(r, d)
        BY <1>5 DEF WindowReport
    <2>2. PICK e \in Averages(ewma[r], d) : ewma' = [ewma EXCEPT ![r] = e]
        BY <2>1 DEF OnReport
    <2>3. e \in Measure
        BY <2>2 DEF Averages, Measure
    <2>4. ewma' \in [Receivers -> Measure]
        BY <2>2, <2>3 DEF RateType
    <2>5. fresh' \in [Receivers -> 0 .. StaleTicks]
        BY <2>1 DEF OnReport, RateType
    <2>6. loss' \in [Receivers -> Measure] /\ UNCHANGED <<members, opened>>
        BY <1>5 DEF WindowReport, RateType, Measure
    <2>7. members' \subseteq Receivers /\ opened' \subseteq members'
        BY <2>6 DEF RateType
    <2> QED BY <1>2, <1>3, <2>4, <2>5, <2>6, <2>7 DEF RateType
<1>6. CASE Leave(r)
    <2>1. members' \subseteq Receivers /\ opened' \subseteq members'
          /\ loss' \in [Receivers -> Measure]
        BY <1>6, WithoutType DEF Leave
    <2> QED BY <1>3, <1>6, <2>1 DEF Leave, RateType, clientVars, TopRate
<1> QED BY <1>1, <1>2, <1>4, <1>5, <1>6

-----------------------------------------------------------------------------
(* The loop.                                                                *)

\* Facts about a state that the steps need of the types.
LEMMA StateFacts ==
    ASSUME RateType, LoopType
    PROVE  /\ rate \in Nat /\ rate <= TopRate /\ TopRate \in Nat
           /\ LowRate \in Nat /\ LowRate <= rate
           /\ credit \in Nat /\ idle \in Nat
           /\ BurstCap(rate) \in Nat /\ BurstCap(TopRate) \in Nat
           /\ Unit <= BurstCap(rate) /\ BurstCap(rate) <= BurstCap(TopRate)
           /\ idle * rate \in Nat /\ TopRate * idle \in Nat
           /\ idle * rate <= TopRate * idle
<1>1. rate \in Nat /\ rate <= TopRate /\ TopRate \in Nat
      /\ LowRate \in Nat /\ LowRate <= rate
    BY TopRateIsHighest DEF RateType
<1>2. BurstCap(rate) \in Nat /\ BurstCap(TopRate) \in Nat
      /\ Unit <= BurstCap(rate) /\ BurstCap(rate) <= BurstCap(TopRate)
    BY <1>1, CapBounds, CapMonotone
<1>3. credit \in Nat /\ idle \in Nat
    BY <1>2 DEF LoopType
<1>4. idle * rate \in Nat /\ TopRate * idle \in Nat /\ idle * rate <= TopRate * idle
    BY <1>1, <1>3, ProductMonotone
<1> QED BY <1>1, <1>2, <1>3, <1>4

LEMMA PacingInvInit == Init => PacingInv
<1> SUFFICES ASSUME Init PROVE PacingInv
    OBVIOUS
<1>1. BurstCap(TopRate) \in Nat /\ TopRate \in Nat
    BY TopRateIsHighest, CapBounds
<1>2. RateType
    <2>1. None \in Measure
        BY DEF Measure
    <2>2. ewma \in [Receivers -> Measure] /\ loss \in [Receivers -> Measure]
        BY <2>1 DEF Init, PacerInit, BatchInit, RateInit, NoStatistics
    <2>3. fresh \in [Receivers -> 0 .. StaleTicks]
        BY DEF Init, PacerInit, BatchInit, RateInit, NoStatistics
    <2>4. rate \in LowRate .. TopRate /\ goodTicks \in 0 .. GoodTicksNeeded
          /\ cleanWindows \in 0 .. CleanNeeded
        BY TopRateIsHighest DEF Init, PacerInit, BatchInit, RateInit, NoStatistics
    <2> QED BY <2>1, <2>2, <2>3, <2>4 DEF Init, PacerInit, BatchInit, RateInit, NoStatistics, RateType
<1>3. LoopType
    <2>1. outbound \in Seq({"shard", "eof"}) /\ Len(outbound) = 0
          /\ queued \in Seq({"shard", "eof"}) /\ Len(queued) = 0
        BY EmptySeq DEF Init, PacerInit, BatchInit, RateInit, NoStatistics
    <2>2. segments \in 0 .. limit - 1 /\ credit \in 0 .. BurstCap(TopRate)
          /\ idle \in 0 .. MaxIdle /\ bucket \in Int /\ since \in 0 .. Unit
        BY <1>1 DEF Init, PacerInit, BatchInit, RateInit, NoStatistics
    <2>3. at = "top" /\ ended = FALSE /\ draining = FALSE /\ waited = FALSE
          /\ spent = FALSE
        BY DEF Init, PacerInit, BatchInit, RateInit, NoStatistics
    <2>4. Len(outbound) <= Capacity /\ Len(queued) <= MaxSegments
        BY <2>1
    <2> QED BY <2>1, <2>2, <2>3, <2>4 DEF LoopType
<1>5. NothingWaits /\ TurnIsPaidFor
    BY DEF Init, PacerInit, BatchInit, NothingWaits, TurnIsPaidFor
<1>4. AllowanceCovers
    BY <1>1 DEF Init, PacerInit, BatchInit, AllowanceCovers, AtMost
<1> QED BY <1>2, <1>3, <1>4, <1>5 DEF PacingInv

\* Time only adds to the allowance.
LEMMA PassStep ==
    ASSUME PacingInv, Pass
    PROVE  PacingInv'
<1>1. RateType /\ LoopType /\ NothingWaits /\ TurnIsPaidFor /\ AllowanceCovers
    BY DEF PacingInv
<1>2. UNCHANGED rateVars /\ UNCHANGED loopVars /\ UNCHANGED slicerVars
      /\ UNCHANGED <<credit, waited, spent>>
    BY DEF Pass
<1>3. RateType'
    BY <1>1, <1>2 DEF RateType, rateVars, clientVars, growthVars, groupVars,
                      widthVars, TopRate, LowRate
<1>4. idle' \in 0 .. MaxIdle /\ idle' <= idle + 1 /\ bucket' \in Int
      /\ since' \in 0 .. Unit
    <2>1. idle \in 0 .. MaxIdle /\ bucket \in Int /\ 2 * BurstCap(TopRate) \in Int
          /\ TopRate \in Nat /\ since \in 0 .. Unit
        BY SMTT(30), <1>1, StateFacts DEF LoopType
    <2>2. idle' = AtMost(idle + 1, MaxIdle) /\ since' = AtMost(since + 1, Unit)
          /\ bucket' = AtMost(bucket + TopRate, 2 * BurstCap(TopRate))
        BY DEF Pass
    <2> QED BY <2>1, <2>2 DEF AtMost
<1>5. LoopType' /\ NothingWaits' /\ TurnIsPaidFor'
    BY <1>1, <1>2, <1>4 DEF LoopType, NothingWaits, TurnIsPaidFor, rateVars,
                      widthVars, loopVars, slicerVars, Ended, BurstCap, TopRate
<1>6. AllowanceCovers'
    <2> DEFINE B == BurstCap(TopRate)
    <2>1. B \in Nat /\ TopRate \in Nat /\ credit \in 0 .. B
        BY <1>1, StateFacts DEF LoopType
    <2>2. TopRate * idle \in Nat /\ TopRate * idle' \in Nat
          /\ TopRate * idle' <= TopRate * idle + TopRate
        <3>1. TopRate * idle' <= TopRate * (idle + 1) /\ TopRate * idle' \in Nat
            <4>1. idle' \in Nat /\ idle + 1 \in Nat /\ idle' <= idle + 1
                BY <1>1, <1>4, StateFacts
            <4>2. ASSUME NEW i \in Nat, NEW j \in Nat, i <= j
                  PROVE  TopRate * i <= TopRate * j /\ TopRate * i \in Nat
                BY <2>1, <4>2, ProductMonotone
            <4> QED BY <4>1, <4>2
        <3>2. TopRate * (idle + 1) = TopRate * idle + TopRate
            BY <1>1, <2>1, StateFacts
        <3> QED BY <1>1, <3>1, <3>2, StateFacts
    <2>3. credit + AtMost(B, TopRate * idle) <= bucket /\ bucket \in Int
        BY <1>1 DEF AllowanceCovers, LoopType
    <2>4. bucket' = AtMost(bucket + TopRate, 2 * B)
        BY DEF Pass
    <2>5. credit + AtMost(B, TopRate * idle') <= bucket'
        <3> HIDE DEF B
        <3> QED BY <2>1, <2>2, <2>3, <2>4 DEF AtMost
    <2>6. credit' = credit /\ BurstCap(TopRate)' = B /\ TopRate' = TopRate
        BY <1>2 DEF BurstCap, TopRate
    <2> QED BY <2>5, <2>6 DEF AllowanceCovers, AtMost
<1> QED BY <1>3, <1>5, <1>6 DEF PacingInv

LEMMA QueueStep ==
    ASSUME PacingInv, Queue
    PROVE  PacingInv'
<1>1. outbound' \in Seq({"shard", "eof"}) /\ Len(outbound') <= Capacity
    <2>1. outbound \in Seq({"shard", "eof"}) /\ Len(outbound) \in Nat
          /\ Len(outbound) < Capacity
        BY LenProperties DEF Queue, PacingInv, LoopType
    <2>2. PICK x \in {"shard", "eof"} : outbound' = Append(outbound, x)
        BY DEF Queue
    <2> QED BY <2>1, <2>2, AppendProperties
<1>2. ended' \in BOOLEAN
    BY DEF Queue, PacingInv, LoopType
<1> QED BY SMTT(30), <1>1, <1>2
        DEF Queue, PacingInv, RateType, LoopType, NothingWaits, TurnIsPaidFor,
            AllowanceCovers, rateVars, clientVars, growthVars, groupVars,
            widthVars, loopVars, pacerVars, historyVars, TopRate, BurstCap

\* What the steps that touch neither credit nor time leave as it is.
LEMMA AllowanceKept ==
    ASSUME AllowanceCovers, UNCHANGED <<credit, idle, bucket>>
    PROVE  AllowanceCovers'
    BY DEF AllowanceCovers, AtMost, BurstCap, Clamp, AtLeast, TopRate

LEMMA RateTypeKept ==
    ASSUME RateType, UNCHANGED rateVars
    PROVE  RateType'
    BY DEF RateType, rateVars, clientVars, growthVars, groupVars, widthVars, TopRate,
           LowRate

\* A refill adds no more than the allowance has put by.
LEMMA TopStep ==
    ASSUME PacingInv, Top
    PROVE  PacingInv'
<1> DEFINE B == BurstCap(TopRate)
<1>1. RateType /\ LoopType /\ NothingWaits /\ AllowanceCovers
    BY DEF PacingInv
<1>2. UNCHANGED rateVars /\ UNCHANGED slicerVars
      /\ UNCHANGED <<queued, segments, draining, waited, spent, bucket, since>>
      /\ at = "top" /\ at' \in {"select", "panicked"} /\ idle' = 0
    BY DEF Top, historyVars
<1>3. /\ credit \in Nat /\ bucket \in Int /\ B \in Nat /\ BurstCap(rate) \in Nat
      /\ BurstCap(rate) <= B /\ idle * rate \in Nat /\ TopRate * idle \in Nat
      /\ idle * rate <= TopRate * idle
    BY <1>1, StateFacts DEF LoopType
<1>4. credit' = AtMost(credit + idle * rate, BurstCap(rate))
    BY DEF Top, Refilled
<1>5. credit + AtMost(B, TopRate * idle) <= bucket
    BY <1>1 DEF AllowanceCovers
<1>6. credit' \in 0 .. B /\ credit' <= bucket
    <2> HIDE DEF B
    <2> QED BY <1>3, <1>4, <1>5 DEF AtMost
<1>7. RateType'
    BY <1>1, <1>2, RateTypeKept
<1>8. LoopType'
    BY <1>1, <1>2, <1>6 DEF LoopType, Ended, rateVars, widthVars, slicerVars,
                           BurstCap, TopRate
<1>9. NothingWaits' /\ TurnIsPaidFor'
    BY <1>1, <1>2 DEF NothingWaits, TurnIsPaidFor
<1>10. AllowanceCovers'
    <2>1. TopRate * 0 = 0 /\ AtMost(B, 0) = 0
        BY <1>3, TopRateIsHighest DEF AtMost
    <2>2. BurstCap(TopRate)' = B /\ TopRate' = TopRate
        BY DEF BurstCap, TopRate
    <2>3. credit' + AtMost(B, TopRate * 0) <= bucket
        BY <1>3, <1>6, <2>1
    <2> QED BY <1>2, <2>2, <2>3 DEF AllowanceCovers, AtMost
<1> QED BY <1>7, <1>8, <1>9, <1>10 DEF PacingInv

\* What a turn takes and what it leaves.
LEMMA TurnTaken ==
    ASSUME RateType, LoopType, Take
    PROVE  /\ Budget \in Nat
           /\ Len(queued') = AtMost(Len(outbound), AtMost(Budget, MaxSegments))
           /\ Len(queued') \in Nat /\ Len(queued') <= Budget
           /\ Len(queued') <= MaxSegments
           /\ queued' \in Seq({"shard", "eof"})
           /\ outbound' \in Seq({"shard", "eof"}) /\ Len(outbound') <= Capacity
<1> DEFINE S == {"shard", "eof"}
           n == AtMost(Len(outbound), AtMost(Budget, MaxSegments))
<1>1. /\ queued' = SubSeq(outbound, 1, n)
      /\ outbound' = SubSeq(outbound, n + 1, Len(outbound))
    BY DEF Take
<1>2. outbound \in Seq(S) /\ Len(outbound) \in Nat /\ Len(outbound) <= Capacity
      /\ \A i \in 1 .. Len(outbound) : outbound[i] \in S
    BY LenProperties DEF LoopType
<1>3. Budget \in Nat
    BY StateFacts DEF Budget
<1>4. n \in Nat /\ n <= Len(outbound) /\ n <= Budget /\ n <= MaxSegments
    BY <1>2, <1>3 DEF AtMost
<1>5. queued' \in Seq(S) /\ Len(queued') = n
    <2> HIDE DEF n, S
    <2>1. \A i \in 1 .. n : outbound[i] \in S
        BY <1>2, <1>4
    <2>2. SubSeq(outbound, 1, n) \in Seq(S)
          /\ Len(SubSeq(outbound, 1, n)) = IF 1 <= n THEN n - 1 + 1 ELSE 0
        BY <1>4, <2>1, SubSeqProperties
    <2> QED BY <1>1, <1>4, <2>2
<1>6. outbound' \in Seq(S) /\ Len(outbound') <= Capacity
    <2> HIDE DEF n, S
    <2>1. \A i \in n + 1 .. Len(outbound) : outbound[i] \in S
        BY <1>2, <1>4
    <2>2. SubSeq(outbound, n + 1, Len(outbound)) \in Seq(S)
          /\ Len(SubSeq(outbound, n + 1, Len(outbound)))
                = IF n + 1 <= Len(outbound) THEN Len(outbound) - (n + 1) + 1 ELSE 0
        BY <1>2, <1>4, <2>1, SubSeqProperties
    <2> QED BY <1>1, <1>2, <1>4, <2>2
<1>7. Len(queued') \in Nat /\ Len(queued') <= Budget /\ Len(queued') <= MaxSegments
    <2> HIDE DEF n
    <2> QED BY <1>4, <1>5
<1> QED BY <1>3, <1>5, <1>6, <1>7

\* A turn takes no more than there is credit for.
LEMMA TakeStep ==
    ASSUME PacingInv, Take
    PROVE  PacingInv'
<1>1. RateType /\ LoopType /\ AllowanceCovers
    BY DEF PacingInv
<1>2. at' = "taken" /\ spent' \in BOOLEAN
      /\ UNCHANGED <<rateVars, segments, draining, ended, pacerVars, bucket, since>>
    BY <1>1 DEF Take, LoopType
<1>3. Len(queued') * Unit <= credit
    BY <1>1, TurnTaken, StateFacts, BudgetIsPaidFor DEF Budget
<1>4. RateType' /\ AllowanceCovers'
    BY <1>1, <1>2, RateTypeKept, AllowanceKept DEF pacerVars
<1>5. LoopType'
    BY <1>1, <1>2, TurnTaken
       DEF LoopType, rateVars, widthVars, pacerVars, BurstCap, TopRate
<1>6. NothingWaits' /\ TurnIsPaidFor'
    BY <1>2, <1>3 DEF NothingWaits, Ended, TurnIsPaidFor, pacerVars
<1> QED BY <1>4, <1>5, <1>6 DEF PacingInv

LEMMA LookBackStep ==
    ASSUME PacingInv, LookBack
    PROVE  PacingInv'
<1>1. RateType' /\ AllowanceCovers'
    BY RateTypeKept, AllowanceKept DEF PacingInv, LookBack, historyVars
<1>2. waited' \in BOOLEAN
    BY DEF PacingInv, LoopType, LookBack
<1>3. LoopType'
    BY <1>2 DEF PacingInv, LoopType, LookBack, rateVars, widthVars, slicerVars,
                historyVars, BurstCap, TopRate
<1>4. NothingWaits' /\ TurnIsPaidFor'
    BY DEF PacingInv, LookBack, NothingWaits, Ended, TurnIsPaidFor
<1> QED BY <1>1, <1>3, <1>4 DEF PacingInv

\* What taking one from the turn leaves of it.
LEMMA TurnShrinks ==
    ASSUME LoopType, TurnIsPaidFor, at = "batch", queued # <<>>
    PROVE  /\ Tail(queued) \in Seq({"shard", "eof"})
           /\ Len(Tail(queued)) <= MaxSegments
           /\ Len(Tail(queued)) * Unit <= credit - Unit
           /\ credit \in 0 .. BurstCap(TopRate) /\ Unit <= credit
<1>1. Tail(queued) \in Seq({"shard", "eof"}) /\ Len(Tail(queued)) = Len(queued) - 1
      /\ Len(queued) \in Nat /\ Len(Tail(queued)) \in Nat
    BY HeadTailProperties, LenProperties DEF LoopType
<1>2. Len(queued) <= MaxSegments /\ Len(queued) * Unit <= credit
      /\ credit \in 0 .. BurstCap(TopRate) /\ BurstCap(TopRate) \in Nat
    BY CapBounds, TopRateIsHighest DEF LoopType, TurnIsPaidFor
<1>3. Len(queued) * Unit = Len(Tail(queued)) * Unit + Unit
      /\ Len(Tail(queued)) * Unit \in Nat
    <2>1. Len(queued) = Len(Tail(queued)) + 1
        BY <1>1
    <2>2. ASSUME NEW k \in Nat PROVE (k + 1) * Unit = k * Unit + Unit /\ k * Unit \in Nat
        BY ProductMonotone
    <2> QED BY <1>1, <2>1, <2>2
<1> QED BY <1>1, <1>2, <1>3

LEMMA PushShardStep ==
    ASSUME PacingInv, PushShard
    PROVE  PacingInv'
<1>1. RateType /\ LoopType /\ TurnIsPaidFor /\ AllowanceCovers
    BY DEF PacingInv
<1>2. /\ at = "batch" /\ at' = at /\ queued # <<>> /\ queued' = Tail(queued)
      /\ credit' = credit - Unit /\ bucket' = bucket - Unit
      /\ segments' = IF IsFull(segments + 1) THEN 0 ELSE segments + 1
      /\ UNCHANGED rateVars /\ UNCHANGED slicerVars
      /\ UNCHANGED <<draining, idle, waited, spent>> /\ since' = 0
    BY DEF PushShard
<1>3. RateType' /\ limit' = limit
    BY <1>1, <1>2, RateTypeKept DEF rateVars, widthVars
<1>4. segments' \in 0 .. limit - 1
    BY <1>1, <1>2 DEF IsFull, LoopType, RateType
<1>5. credit' \in 0 .. BurstCap(TopRate) /\ bucket' \in Int
    <2>1. BurstCap(TopRate) \in Nat
        BY CapBounds, TopRateIsHighest
    <2> QED BY SMTT(30), <1>1, <1>2, <2>1, TurnShrinks DEF LoopType
<1>6. LoopType'
    BY <1>1, <1>2, <1>3, <1>4, <1>5, TurnShrinks
       DEF LoopType, slicerVars, BurstCap, TopRate
<1>7. NothingWaits' /\ TurnIsPaidFor'
    BY <1>1, <1>2, TurnShrinks DEF NothingWaits, Ended, TurnIsPaidFor
<1>8. AllowanceCovers'
    <2> DEFINE more == AtMost(BurstCap(TopRate), TopRate * idle)
    <2>1. more \in Nat /\ more' = more
        <3>1. BurstCap(TopRate) \in Nat /\ TopRate * idle \in Nat
            BY <1>1, StateFacts
        <3>2. more \in Nat
            BY <3>1 DEF AtMost
        <3>3. more' = more
            BY <1>2 DEF AtMost, BurstCap, Clamp, AtLeast, TopRate
        <3> QED BY <3>2, <3>3
    <2>2. credit + more <= bucket /\ credit \in Int /\ bucket \in Int
        BY <1>1, StateFacts DEF AllowanceCovers, LoopType
    <2>3. credit' + more <= bucket'
        <3> HIDE DEF more
        <3> QED BY <1>2, <2>1, <2>2
    <2>4. credit' + more' <= bucket'
        BY <2>1, <2>3
    <2> QED BY <2>4 DEF AllowanceCovers
<1> QED BY <1>3, <1>6, <1>7, <1>8 DEF PacingInv

\* The end costs no credit.
LEMMA TakeEofStep ==
    ASSUME PacingInv, TakeEof
    PROVE  PacingInv'
<1>1. RateType /\ LoopType /\ TurnIsPaidFor /\ AllowanceCovers
    BY DEF PacingInv
<1>2. /\ at = "batch" /\ at' = at /\ queued # <<>> /\ queued' = Tail(queued)
      /\ segments' = 0 /\ draining' = TRUE
      /\ UNCHANGED rateVars /\ UNCHANGED slicerVars /\ UNCHANGED pacerVars
      /\ UNCHANGED historyVars
    BY DEF TakeEof
<1>3. RateType' /\ AllowanceCovers' /\ limit' = limit
    BY <1>1, <1>2, RateTypeKept, AllowanceKept
       DEF rateVars, widthVars, pacerVars, historyVars
<1>4. segments' \in 0 .. limit - 1
    BY <1>1, <1>2 DEF RateType
<1>5. LoopType'
    BY <1>1, <1>2, <1>3, <1>4, TurnShrinks
       DEF LoopType, slicerVars, pacerVars, historyVars, BurstCap, TopRate
<1>6. Len(Tail(queued)) * Unit <= credit
    <2>1. Len(Tail(queued)) \in Nat
        BY <1>1, <1>2, TurnShrinks, LenProperties
    <2>2. Len(Tail(queued)) * Unit \in Nat
        BY <2>1, ProductMonotone
    <2>3. credit \in Nat /\ Len(Tail(queued)) * Unit <= credit - Unit
        BY <1>1, <1>2, StateFacts, TurnShrinks
    <2> QED BY <2>2, <2>3
<1>7. NothingWaits' /\ TurnIsPaidFor'
    BY <1>2, <1>6 DEF NothingWaits, Ended, TurnIsPaidFor, pacerVars
<1> QED BY <1>3, <1>5, <1>7 DEF PacingInv

\* The steps that leave the controller, credit and time as they are.
LEMMA LoopOnlyStep ==
    ASSUME PacingInv, Return \/ EndTurn \/ Sleep
    PROVE  PacingInv'
<1>1. RateType /\ LoopType /\ NothingWaits /\ AllowanceCovers
    BY DEF PacingInv
<1>2. /\ at' \in {"top", "returned"} /\ segments' = 0 /\ queued = <<>>
      /\ UNCHANGED rateVars /\ UNCHANGED slicerVars
      /\ UNCHANGED <<queued, draining, credit, idle, bucket, since>>
    BY <1>1 DEF Return, EndTurn, Sleep, NothingWaits, pacerVars, historyVars
<1>3. waited' \in BOOLEAN /\ spent' \in BOOLEAN
    BY <1>1 DEF Return, EndTurn, Sleep, LoopType, pacerVars, historyVars
<1>4. RateType' /\ AllowanceCovers' /\ limit' = limit
    BY <1>1, <1>2, RateTypeKept, AllowanceKept DEF rateVars, widthVars
<1>5. segments' \in 0 .. limit - 1
    BY <1>1, <1>2 DEF RateType
<1>6. LoopType'
    BY <1>1, <1>2, <1>3, <1>4, <1>5 DEF LoopType, Ended, slicerVars, BurstCap,
                                       TopRate
<1>7. NothingWaits' /\ TurnIsPaidFor'
    BY <1>2 DEF NothingWaits, TurnIsPaidFor
<1> QED BY <1>4, <1>6, <1>7 DEF PacingInv

\* The arms that change what the controller and the batching know; the batch is
\* empty then, so that its limit may change.
LEMMA ArmStep ==
    ASSUME PacingInv, TickArm \/ ControlArm
    PROVE  PacingInv'
<1>1. RateType /\ LoopType /\ NothingWaits /\ AllowanceCovers
    BY DEF PacingInv
<1>2. /\ at = "select" /\ at' = "top"
      /\ UNCHANGED slicerVars
      /\ UNCHANGED <<queued, segments, draining, credit, idle, bucket, since>>
    BY DEF TickArm, ControlArm, pacerVars, historyVars
<1>3. waited' \in BOOLEAN /\ spent' \in BOOLEAN
    BY <1>1 DEF TickArm, ControlArm, LoopType, pacerVars, historyVars
<1>4. RateType'
    <2>1. CASE TickArm
        BY <1>1, <2>1, TickType DEF TickArm, LoopType
    <2>2. CASE ControlArm
        BY <1>1, <2>2, ReportType, RateTypeKept DEF ControlArm
    <2> QED BY <2>1, <2>2
<1>5. segments' = 0 /\ queued' = <<>>
    BY <1>1, <1>2 DEF NothingWaits
<1>6. segments' \in 0 .. limit' - 1
    <2>1. limit' \in Nat /\ 1 <= limit'
        BY <1>4 DEF RateType
    <2>2. ASSUME NEW l \in Nat, 1 <= l PROVE 0 \in 0 .. l - 1
        BY <2>2
    <2> QED BY <1>5, <2>1, <2>2
<1>7. LoopType'
    BY <1>1, <1>2, <1>3, <1>6 DEF LoopType, slicerVars, BurstCap, TopRate
<1>8. AllowanceCovers' /\ NothingWaits' /\ TurnIsPaidFor'
    BY <1>1, <1>2, <1>5, AllowanceKept DEF NothingWaits, TurnIsPaidFor
<1> QED BY <1>4, <1>7, <1>8 DEF PacingInv

LEMMA PacingInvNext == PacingInv /\ [Next]_vars => PacingInv'
<1> SUFFICES ASSUME PacingInv, [Next]_vars PROVE PacingInv'
    OBVIOUS
<1>1. CASE UNCHANGED vars
    BY <1>1 DEF PacingInv, RateType, LoopType, NothingWaits, TurnIsPaidFor,
                AllowanceCovers, vars, rateVars, clientVars, growthVars,
                groupVars, widthVars, loopVars, slicerVars, pacerVars,
                historyVars, BurstCap, Clamp, AtMost, AtLeast, TopRate, LowRate
<1>2. CASE Next
    BY <1>2, PassStep, QueueStep, TopStep, TakeStep, LookBackStep, PushShardStep,
       TakeEofStep, LoopOnlyStep, ArmStep DEF Next, LoopNext
<1> QED BY <1>1, <1>2

-----------------------------------------------------------------------------
(* The theorems.                                                            *)

\* The invariant holds in every behaviour.
THEOREM PacingInductive == Spec => []PacingInv
    BY PacingInvInit, PacingInvNext, PTL DEF Spec

\* Every variable keeps its type, credit stays above zero and every batch below
\* its limit (pacer.rs:55, frame.rs:104).
THEOREM PacingTypeCorrect == Spec => []TypeOK
<1>1. PacingInv => TypeOK
    BY DEF PacingInv, RateType, LoopType, TypeOK
<1> QED BY <1>1, PacingInductive, PTL

\* No more is sent in any stretch of time than the highest rate earns, and two
\* bursts (pacer.rs:40).
THEOREM RateIsLimited == Spec => []RateIsKept
<1>1. PacingInv => RateIsKept
    <2> SUFFICES ASSUME PacingInv PROVE RateIsKept
        OBVIOUS
    <2> DEFINE more == AtMost(BurstCap(TopRate), TopRate * idle)
    <2>1. BurstCap(TopRate) \in Nat /\ TopRate * idle \in Nat /\ credit \in Nat
        BY StateFacts DEF PacingInv
    <2>2. more \in Nat
        BY <2>1 DEF AtMost
    <2>3. credit + more <= bucket /\ bucket \in Int
        BY DEF PacingInv, AllowanceCovers, LoopType
    <2>4. 0 <= bucket
        <3> HIDE DEF more
        <3> QED BY <2>1, <2>2, <2>3
    <2> QED BY <2>3, <2>4 DEF RateIsKept
<1> QED BY <1>1, PacingInductive, PTL

\* Nothing that was taken waits unsent while the loop waits (sender.rs:216).
THEOREM BatchIsFlushed == Spec => []NothingWaits
    BY PacingInductive, PTL DEF PacingInv

\* The lowest rate's earnings are kept over refills, sleeps and changes of rate.
LEMMA CreditKeptInit == Init => CreditKept
<1> SUFFICES ASSUME Init PROVE CreditKept
    OBVIOUS
<1>1. LowRate * 0 = 0 /\ 0 * LowRate = 0
    BY TopRateIsHighest
<1> QED BY <1>1 DEF Init, PacerInit, CreditKept, AtMost

LEMMA CreditKeptPass ==
    ASSUME PacingInv, CreditKept, Pass
    PROVE  CreditKept'
<1> DEFINE L == LowRate
<1>1. /\ L \in Nat /\ credit \in Nat /\ idle \in 0 .. MaxIdle /\ since \in 0 .. Unit
      /\ idle \in Nat /\ since \in Nat
    BY StateFacts DEF PacingInv, LoopType
<1>2. /\ credit' = credit /\ L' = L
      /\ idle' = AtMost(idle + 1, MaxIdle) /\ since' = AtMost(since + 1, Unit)
    BY DEF Pass, LowRate
<1>3. credit + idle * L >= AtMost(Unit, L * since)
    BY DEF CreditKept
<1>4. PICK i \in Nat, t \in Nat : i = idle' /\ t = since'
    BY <1>1, <1>2 DEF AtMost
<1>5. idle * L \in Nat /\ L * since \in Nat /\ i * L \in Nat /\ L * t \in Nat
    <2> HIDE DEF L
    <2> QED BY <1>1, ProductIsNat
<1>6. L * t <= L * since + L
    <2>1. t <= since + 1
        BY <1>1, <1>2, <1>4 DEF AtMost
    <2> HIDE DEF L
    <2>2. since + 1 \in Nat
        BY <1>1
    <2>3. t * L <= (since + 1) * L /\ L * t = t * L
        BY <1>1, <2>1, <2>2, ProductMonotone
    <2>4. (since + 1) * L = L * since + L
        BY <1>1
    <2> QED BY <1>1, <1>5, <2>3, <2>4
<1>7. credit + i * L >= AtMost(Unit, L * t)
    <2>1. CASE idle < MaxIdle
        <3>1. i = idle + 1
            BY <1>1, <1>2, <1>4, <2>1 DEF AtMost
        <3>2. i * L = idle * L + L
            BY <1>1, <3>1
        <3> HIDE DEF L
        <3> QED BY <1>1, <1>3, <1>5, <1>6, <3>2 DEF AtMost
    <2>2. CASE idle = MaxIdle /\ L > 0
        <3>1. i = MaxIdle
            BY <1>1, <1>2, <1>4, <2>2 DEF AtMost
        <3>2. AtLeast(L, 1) = L
            BY <1>1, <2>2 DEF AtLeast
        <3>3. i * L >= Unit
            BY <1>5, <3>1, <3>2 DEF LowRate
        <3> HIDE DEF L
        <3> QED BY <1>1, <1>5, <3>3 DEF AtMost
    <2>3. CASE L = 0
        <3> HIDE DEF L
        <3>1. L * t = 0 /\ i * L = 0
            BY <2>3
        <3> QED BY <1>1, <3>1 DEF AtMost
    <2> QED BY <1>1, <2>1, <2>2, <2>3
<1> QED BY <1>2, <1>4, <1>7 DEF CreditKept

LEMMA CreditKeptTop ==
    ASSUME PacingInv, CreditKept, Top
    PROVE  CreditKept'
<1> DEFINE L == LowRate
           X == L * since
<1>1. /\ L \in Nat /\ L <= rate /\ rate \in Nat /\ credit \in Nat /\ idle \in Nat
      /\ since \in Nat /\ idle * rate \in Nat
      /\ BurstCap(rate) \in Nat /\ Unit <= BurstCap(rate)
    BY StateFacts DEF PacingInv, LoopType
<1>2. credit' = AtMost(credit + idle * rate, BurstCap(rate)) /\ idle' = 0
      /\ since' = since /\ L' = L
    BY DEF Top, Refilled, historyVars, LowRate
<1>3. credit + idle * L >= AtMost(Unit, X)
    BY DEF CreditKept
<1>4. idle * L <= idle * rate /\ idle * L \in Nat /\ X \in Nat /\ 0 * L = 0
    <2>1. L * idle <= rate * idle /\ idle * L = L * idle /\ idle * rate = rate * idle
          /\ L * idle \in Nat
        BY <1>1, ProductMonotone
    <2> QED BY <1>1, <2>1, ProductMonotone
<1>5. AtMost(credit + idle * rate, BurstCap(rate)) + 0 * L >= AtMost(Unit, X)
    <2> HIDE DEF L, X
    <2> QED BY <1>1, <1>3, <1>4 DEF AtMost
<1> QED BY <1>2, <1>5 DEF CreditKept

LEMMA CreditKeptNext ==
    ASSUME PacingInv, CreditKept, [Next]_vars
    PROVE  CreditKept'
<1>1. CASE Pass
    BY <1>1, CreditKeptPass
<1>2. CASE Top
    BY <1>2, CreditKeptTop
<1>3. CASE PushShard
    <2>1. LowRate \in Nat /\ credit' \in Nat /\ idle' \in Nat /\ since' = 0
          /\ LowRate' = LowRate
        <3>1. PacingInv'
            BY PacingInvNext
        <3>2. RateType' /\ LoopType' /\ BurstCap(TopRate)' \in Nat
            BY <3>1, TopRateIsHighest, CapBounds DEF PacingInv, BurstCap, TopRate
        <3> QED BY <1>3, <3>2, TopRateIsHighest DEF LoopType, PushShard, LowRate
    <2>2. PICK c \in Nat, i \in Nat : c = credit' /\ i = idle'
        BY <2>1
    <2>3. LowRate * 0 = 0 /\ i * LowRate \in Nat
        BY <2>1, ProductMonotone
    <2>4. c + i * LowRate >= AtMost(Unit, LowRate * 0)
        BY <2>3 DEF AtMost
    <2> QED BY <2>1, <2>2, <2>4 DEF CreditKept
<1>4. CASE ~(Pass \/ Top \/ PushShard)
    <2>1. UNCHANGED <<credit, idle, since>>
        BY <1>4, Zenon DEF Next, LoopNext, Queue, Return, Take, LookBack, TakeEof,
              EndTurn, Sleep, TickArm, ControlArm, vars, pacerVars, historyVars
    <2> QED BY <2>1 DEF CreditKept, LowRate, AtMost
<1> QED BY <1>1, <1>2, <1>3, <1>4

\* Every refill keeps it, however often ticks and reports break into the sleep
\* (pacer.rs:40, sender.rs:162).
THEOREM CreditKeptAlways == Spec => []CreditKept
    BY CreditKeptInit, CreditKeptNext, PacingInductive, PTL DEF Spec

\* Credit for a shard comes together whatever breaks into the sleep for it, for
\* every fraction of a shard that a step of time earns (pacer.rs:40, 59).
THEOREM NobodyStarves == Spec => []CreditComes
<1>1. PacingInv /\ CreditKept => CreditComes
    <2> SUFFICES ASSUME PacingInv, CreditKept, LowRate * since >= Unit
                 PROVE  Refilled >= Unit
        BY DEF CreditComes
    <2>1. /\ credit \in Nat /\ idle \in Nat /\ rate \in Nat /\ LowRate \in Nat
          /\ LowRate <= rate /\ idle * rate \in Nat
          /\ BurstCap(rate) \in Nat /\ Unit <= BurstCap(rate)
        BY StateFacts DEF PacingInv
    <2>2. LowRate * idle <= rate * idle /\ idle * LowRate = LowRate * idle
          /\ idle * rate = rate * idle /\ LowRate * idle \in Nat
        BY <2>1, ProductMonotone
    <2>3. since \in Nat
        BY DEF PacingInv, LoopType
    <2>4. LowRate * since \in Nat
        BY <2>1, <2>3, ProductMonotone
    <2>5. AtMost(Unit, LowRate * since) = Unit
        BY <2>4 DEF AtMost
    <2>6. credit + idle * LowRate >= Unit
        BY <2>5 DEF CreditKept
    <2> QED BY <2>1, <2>2, <2>6 DEF Refilled, AtMost
<1> QED BY <1>1, PacingInductive, CreditKeptAlways, PTL

\* The steps that leave the rate and the width of batches alone.
LEMMA OnlyTheTick ==
    ASSUME PacingInv, [Next]_vars, ~TickArm
    PROVE  rate' = rate /\ limit' = limit
<1>1. CASE ControlArm
    BY <1>1, ReportType DEF PacingInv, ControlArm, growthVars, widthVars, rateVars
<1>2. CASE ~ControlArm
    BY <1>2 DEF Next, LoopNext, Pass, Queue, Top, Return, Take, LookBack, PushShard,
                TakeEof, EndTurn, Sleep, vars, rateVars, growthVars, widthVars
<1> QED BY <1>1, <1>2

\* Batches widen only while nobody that is left loses anything (pacer.rs:85).
THEOREM WidthIsEarned == Spec => WideOnlyIfClean
<1> DEFINE Clean == limit' > limit
                      => ~gaveUp' /\ \A r \in members' : loss'[r] <= Threshold
<1>1. ASSUME PacingInv, [Next]_vars PROVE Clean
    <2> SUFFICES ASSUME limit' > limit
                 PROVE  ~gaveUp' /\ \A r \in members' : loss'[r] <= Threshold
        OBVIOUS
    <2>1. RateType /\ PacingInv'
        BY <1>1, PacingInvNext DEF PacingInv
    <2>2. limit \in Nat /\ 1 <= limit
        BY <2>1 DEF RateType
    <2>3. TickArm
        BY <1>1, <2>2, OnlyTheTick
    <2>4. Observe /\ limit' = Segments
        BY <2>3 DEF TickArm, Tick
    <2>5. ~gaveUp' /\ cleanWindows' >= CleanNeeded
        BY <2>1, <2>2, <2>4 DEF Segments, PacingInv, RateType
    <2>6. ASSUME NEW r \in members' PROVE loss'[r] <= Threshold
        <3>1. CASE loss'[r] = None
            BY <3>1 DEF None
        <3>2. CASE loss'[r] # None
            <4>1. loss'[r] \in Losses
                BY <2>6, <3>2 DEF Losses
            <4>2. PICK w \in Worst(Losses) : gaveUp' = (gaveUp \/ w > Threshold)
                BY <2>4, <4>1 DEF Observe
            <4>3. loss'[r] <= w /\ ~(w > Threshold)
                BY <2>5, <4>1, <4>2 DEF Worst
            <4>4. loss'[r] \in Int /\ w \in Int
                <5>1. loss' \in [Receivers -> Measure] /\ members' \subseteq Receivers
                    BY <2>1 DEF PacingInv, RateType
                <5>2. w \in Losses
                    BY <4>2 DEF Worst
                <5> QED BY <2>6, <5>1, <5>2, MeasureBounds DEF Losses
            <4> QED BY <4>3, <4>4
        <3> QED BY <3>1, <3>2
    <2> QED BY <2>5, <2>6
<1>2. PacingInv /\ [Next]_vars => [Clean]_vars
    BY <1>1
<1> QED BY <1>2, PacingInductive, PTL DEF Spec, WideOnlyIfClean

\* Whenever the pacer says it waited, credit was spent since the last tick.
LEMMA WaitedWhenSpentNext ==
    ASSUME PacingInv, [Next]_vars, WaitedWhenSpent
    PROVE  WaitedWhenSpent'
<1>1. LoopType /\ RateType
    BY DEF PacingInv
<1>2. CASE Take
    <2> DEFINE n == AtMost(Len(outbound), AtMost(Budget, MaxSegments))
    <2>1. Len(queued') = n
        BY <1>1, <1>2, TurnTaken
    <2>2. spent' = (spent \/ n = Budget) /\ waited' = waited /\ Budget' = Budget
        BY <1>2 DEF Take, pacerVars, Budget
    <2> HIDE DEF n
    <2> QED BY <2>1, <2>2, Zenon DEF WaitedWhenSpent
<1>3. CASE LookBack
    <2>1. waited' = (waited \/ HeldBack) /\ spent' = spent /\ at = "taken"
          /\ at' # "taken"
        BY <1>3 DEF LookBack, historyVars
    <2>2. HeldBack => Len(queued) = Budget
        BY DEF HeldBack
    <2> QED BY <2>1, <2>2, Zenon DEF WaitedWhenSpent
<1>4. CASE Sleep \/ TickArm
    <2>1. (waited' => spent') /\ at' = "top"
        BY <1>4 DEF Sleep, TickArm, WaitedWhenSpent
    <2> QED BY <2>1 DEF WaitedWhenSpent
<1>5. CASE Top \/ Return \/ PushShard \/ TakeEof \/ EndTurn \/ ControlArm
    <2>1. UNCHANGED <<waited, spent>> /\ at' # "taken"
        BY <1>5 DEF Top, Return, PushShard, TakeEof, EndTurn, ControlArm, pacerVars,
                    historyVars
    <2> QED BY <2>1 DEF WaitedWhenSpent
<1>6. CASE Pass \/ Queue \/ UNCHANGED vars
    <2>1. UNCHANGED <<at, queued, credit, waited, spent>>
        BY <1>6 DEF Pass, Queue, vars, loopVars, pacerVars, historyVars
    <2> QED BY <2>1 DEF WaitedWhenSpent, Budget
<1> QED BY <1>2, <1>3, <1>4, <1>5, <1>6, Zenon DEF Next, LoopNext

\* take_starvation tells the rate controller of spent credit only (sender.rs:171,
\* 221; pacer.rs:67).
THEOREM WaitedIsSpent == Spec => []WaitedWhenSpent
<1>1. Init => WaitedWhenSpent
    BY DEF Init, PacerInit, WaitedWhenSpent
<1>2. PacingInv /\ [Next]_vars /\ WaitedWhenSpent => WaitedWhenSpent'
    BY WaitedWhenSpentNext
<1> QED BY <1>1, <1>2, PacingInductive, PTL DEF Spec

\* A cut is no growth, beyond MIN_RATE.
LEMMA CutIsNoGrowth ==
    ASSUME RateType, NEW w \in Worst({ewma[r] : r \in Recent}), w > Threshold,
           BadTick(w)
    PROVE  rate' <= AtLeast(rate, MinRate)
<1>1. w \in Nat
    BY WorstIsMeasured, MeasureBounds
<1>2. rate \in Nat
    BY TopRateIsHighest DEF RateType
<1>3. Reduced(w) \in 0 .. rate
    BY <1>1, <1>2, ReducedBounds
<1> QED BY <1>2, <1>3 DEF BadTick, AtLeast

\* Nobody that reported of late wants more than the worst of them.
LEMMA WorstIsWorst ==
    ASSUME RateType, NEW w \in Worst({ewma[r] : r \in Recent})
    PROVE  /\ \E r \in Receivers : fresh[r] > 0 /\ ewma[r] = w
           /\ \A r \in Receivers : fresh[r] > 0 => ewma[r] <= w
           /\ \A r \in Receivers : ewma[r] \in Int
           /\ w \in Int
<1>1. \A r \in Receivers : ewma[r] \in Int
    BY MeasureBounds DEF RateType
<1>2. w \in Int
    BY WorstIsMeasured, MeasureBounds
<1> QED BY <1>1, <1>2 DEF Worst, Recent

\* The rate grows only on recent content and spent credit (pacer.rs:161).
THEOREM GrowthHasCause == Spec => GrowthIsEarned
<1> DEFINE Content == /\ spent
                      /\ \E r \in Receivers : fresh[r] > 0
                      /\ \A r \in Receivers : fresh[r] > 0 => ewma[r] <= Threshold
<1>1. ASSUME PacingInv, WaitedWhenSpent, [Next]_vars,
             rate' > AtLeast(rate, MinRate)
      PROVE  Content
    <2>1. RateType /\ rate \in Nat
        BY <1>1, StateFacts DEF PacingInv
    <2>2. TickArm
        BY <1>1, <2>1, OnlyTheTick DEF AtLeast
    <2>3. PICK w \in Worst({ewma[r] : r \in Recent}) :
              IF w > Threshold THEN BadTick(w) ELSE GoodTick(waited)
        <3>1. TickRate(waited)
            BY <2>2 DEF TickArm, Tick
        <3>2. ~(UNCHANGED growthVars)
            BY <1>1, <2>1 DEF growthVars, AtLeast
        <3> QED BY <3>1, <3>2 DEF TickRate
    <2>4. ~(w > Threshold)
        <3>1. ASSUME w > Threshold PROVE FALSE
            <4>1. BadTick(w)
                BY <2>3, <3>1
            <4>2. rate' <= AtLeast(rate, MinRate)
                BY <2>1, <2>3, <3>1, <4>1, CutIsNoGrowth
            <4>3. rate' \in Nat
                BY <1>1, PacingInvNext, TopRateIsHighest DEF PacingInv, RateType
            <4> QED BY <1>1, <2>1, <4>2, <4>3 DEF AtLeast
        <3> QED BY <3>1
    <2>5. spent
        BY <1>1, <2>1, <2>3, <2>4 DEF GoodTick, WaitedWhenSpent, AtLeast
    <2>6. /\ \E r \in Receivers : fresh[r] > 0 /\ ewma[r] = w
          /\ \A r \in Receivers : fresh[r] > 0 => ewma[r] <= w
          /\ \A r \in Receivers : ewma[r] \in Int
          /\ w \in Int
        BY <2>1, <2>3, WorstIsWorst
    <2>7. w <= Threshold
        BY <2>4, <2>6
    <2>8. \A r \in Receivers : fresh[r] > 0 => ewma[r] <= Threshold
        BY <2>6, <2>7
    <2> QED BY <2>5, <2>6, <2>8
<1>2. PacingInv /\ WaitedWhenSpent /\ [Next]_vars
         => [rate' > AtLeast(rate, MinRate) => Content]_vars
    BY <1>1
<1> QED BY <1>2, PacingInductive, WaitedIsSpent, PTL DEF Spec, GrowthIsEarned

\* Old demand holds nobody back (pacer.rs:198).
THEOREM OldDemandLapses == Spec => OldDemandIsForgotten
<1> DEFINE Forgotten ==
        TickArm /\ waited
        /\ (\E r \in Receivers : fresh[r] > 0)
        /\ (\A r \in Receivers : fresh[r] > 0 => ewma[r] <= Threshold)
        => /\ goodTicks' > goodTicks \/ goodTicks = GoodTicksNeeded
           /\ goodTicks' = GoodTicksNeeded /\ rate < Ceiling => rate' > rate
<1>1. ASSUME PacingInv PROVE Forgotten
    <2> SUFFICES ASSUME TickArm, waited,
                        \E r \in Receivers : fresh[r] > 0,
                        \A r \in Receivers : fresh[r] > 0 => ewma[r] <= Threshold
                 PROVE  /\ goodTicks' > goodTicks \/ goodTicks = GoodTicksNeeded
                        /\ goodTicks' = GoodTicksNeeded /\ rate < Ceiling
                              => rate' > rate
        OBVIOUS
    <2>1. RateType
        BY <1>1 DEF PacingInv
    <2>2. PICK w \in Worst({ewma[r] : r \in Recent}) :
              IF w > Threshold THEN BadTick(w) ELSE GoodTick(waited)
        BY DEF TickArm, Tick, TickRate, Recent
    <2>3. GoodTick(waited)
        <3>1. (\E r \in Receivers : fresh[r] > 0 /\ ewma[r] = w) /\ w \in Int
            BY <2>1, <2>2, WorstIsWorst
        <3>2. ~(w > Threshold)
            BY <3>1
        <3> QED BY <2>2, <3>2
    <2>4. goodTicks' = AtMost(goodTicks + 1, GoodTicksNeeded)
          /\ (goodTicks' >= GoodTicksNeeded => rate' = Grown)
        BY <2>3 DEF GoodTick
    <2>5. goodTicks \in 0 .. GoodTicksNeeded
        BY <2>1 DEF RateType
    <2> QED BY <2>1, <2>4, <2>5, GrownBounds DEF AtMost
<1>2. PacingInv /\ [Next]_vars => [Forgotten]_vars
    BY <1>1
<1> QED BY <1>2, PacingInductive, PTL DEF Spec, OldDemandIsForgotten
=============================================================================
