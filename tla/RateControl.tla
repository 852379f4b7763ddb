----------------------------- MODULE RateControl -----------------------------
(***************************************************************************)
(* How fast the sender sends, and in how wide batches: the rate controller  *)
(* and the batching of pacer.rs, the loss statistics of Group that they are *)
(* fed from, and the tick of the send loop that runs them.                  *)
(*                                                                         *)
(* A report is what repair_demand makes of one Stats: nothing while the     *)
(* window it measures is too short or Stats overtook one another, else a    *)
(* loss and a demand for repair.  Rates are whole numbers and fractions are *)
(* out of Whole; products are rounded down.  Time is counted in ticks.      *)
(***************************************************************************)
EXTENDS Integers, FiniteSets

CONSTANTS
    Receivers,
    \* The rate, in shards per some unit of time.
    MinRate,           \* MIN_RATE
    InitialRate,       \* INITIAL_RATE
    Ceiling,           \* max_rate
    SlowStartFactor,   \* SLOW_START_FACTOR
    RecoveryTicks,     \* RECOVERY_TARGET in ticks
    GoodTicksNeeded,   \* GOOD_TICKS_NEEDED
    StaleTicks,        \* STALENESS_LIMIT in ticks
    \* Fractions.
    Whole,             \* stands for 1.0
    Levels,            \* losses and demands that are measured
    Threshold,         \* REPAIR_THRESHOLD
    \* Batches.
    CleanNeeded,       \* CLEAN_WINDOWS_NEEDED
    MaxSegments        \* FrameBatch::capacity

ASSUME RateAssumption ==
    /\ MinRate \in Nat \ {0} /\ InitialRate \in Nat /\ MinRate <= InitialRate
    /\ Ceiling \in Nat             \* max_rate is held against nothing
    /\ SlowStartFactor \in Nat \ {0, 1} /\ RecoveryTicks \in Nat \ {0}
    /\ GoodTicksNeeded \in Nat /\ StaleTicks \in Nat \ {0}
    /\ Whole \in Nat \ {0} /\ Levels \subseteq 0 .. Whole
    /\ Threshold \in 0 .. Whole /\ CleanNeeded \in Nat
    /\ MaxSegments \in Nat \ {0}

None == -1
Measure == Levels \cup {None}

VARIABLES
    \* RateController.
    rate,
    ewma,                \* the demand of each client; None before its first
    fresh,               \* ticks for which its latest report still counts
    goodTicks,           \* counted up to GoodTicksNeeded
    slowStartLimit,
    demandWhenReduced,
    \* Group.
    members,
    opened,              \* members with a last_report
    loss,                \* windowed_loss; None before the first window
    \* Batching, and the batch's limit.
    cleanWindows,        \* counted up to CleanNeeded
    gaveUp,
    limit

clientVars == <<ewma, fresh>>
growthVars == <<rate, goodTicks, slowStartLimit, demandWhenReduced>>
groupVars == <<members, opened, loss>>
widthVars == <<cleanWindows, gaveUp, limit>>
rateVars == <<clientVars, growthVars, groupVars, widthVars>>

\* Of a participant nothing is known at first.
NoStatistics == opened = {} /\ loss = [r \in Receivers |-> None]

RateInit ==
    /\ rate = InitialRate /\ goodTicks = 0
    /\ slowStartLimit = None /\ demandWhenReduced = None
    /\ ewma = [r \in Receivers |-> None] /\ fresh = [r \in Receivers |-> 0]
    /\ members = Receivers /\ NoStatistics
    /\ cleanWindows = 0 /\ gaveUp = FALSE /\ limit = 1

AtMost(a, b) == IF a < b THEN a ELSE b
AtLeast(a, b) == IF a > b THEN a ELSE b
Clamp(x, low, high) == AtMost(AtLeast(x, low), high)

-----------------------------------------------------------------------------
(* Reports.                                                                 *)

\* The moving average ends between where it was and what is new, nearer to
\* the latter the longer ago the last report was.
Averages(old, new) ==
    IF old = None THEN {new}
    ELSE {e \in Levels : Clamp(e, AtMost(old, new), AtLeast(old, new)) = e}

\* RateController::on_report.
OnReport(r, demand) ==
    /\ \E e \in Averages(ewma[r], demand) : ewma' = [ewma EXCEPT ![r] = e]
    /\ fresh' = [fresh EXCEPT ![r] = StaleTicks]

\* The Stats of r close no window: it is the first, or few shards were sent
\* since, or it was overtaken.
ShortReport(r) ==
    /\ r \in members
    /\ opened' = opened \cup {r}
    /\ UNCHANGED <<members, loss, clientVars, growthVars, widthVars>>

\* The Stats of r close a window, in which it lost and asked for so much.
WindowReport(r) ==
    /\ r \in members /\ r \in opened
    /\ \E l \in Levels : loss' = [loss EXCEPT ![r] = l]
    /\ \E d \in Levels : OnReport(r, d)
    /\ UNCHANGED <<members, opened, growthVars, widthVars>>

\* The statistics of those who go, go with the participant; the controller
\* keeps its client.
Without(gone) ==
    /\ members' = members \ gone /\ opened' = opened \ gone
    /\ loss' = [r \in Receivers |-> IF r \in gone THEN None ELSE loss[r]]

Leave(r) ==
    /\ r \in members
    /\ Without({r})
    /\ UNCHANGED <<clientVars, growthVars, widthVars>>

-----------------------------------------------------------------------------
(* The tick.                                                                *)

\* Variant with a fault: a report counts however old it is.
EverReported == {r \in Receivers : ewma[r] # None}

\* The clients that reported within STALENESS_LIMIT.
Recent == {r \in Receivers : fresh[r] > 0}

\* The largest of a set of measurements, if there is one.
Worst(S) == {d \in S : \A e \in S : e <= d}

\* 1 - 4 d, but at least a half.
Reduced(worst) ==
    (rate * AtLeast(Whole - 4 * worst, Whole \div 2)) \div Whole

\* Demand has fallen by a fifth since the last bad tick, if there was one.
BackingOffHelps(worst) ==
    demandWhenReduced = None \/ 5 * worst < 4 * demandWhenReduced

InSlowStart == slowStartLimit = None \/ rate < slowStartLimit

AdditiveStep ==
    AtLeast((IF slowStartLimit = None THEN rate ELSE slowStartLimit)
                \div RecoveryTicks, 1)

Grown ==
    AtMost(IF InSlowStart THEN rate * SlowStartFactor ELSE rate + AdditiveStep,
           Ceiling)

BadTick(worst) ==
    /\ IF BackingOffHelps(worst)
       THEN /\ goodTicks' = 0 /\ slowStartLimit' = Reduced(worst)
            /\ rate' = AtLeast(Reduced(worst), MinRate)
       ELSE UNCHANGED <<goodTicks, slowStartLimit, rate>>
    /\ demandWhenReduced' = worst

GoodTick(rateLimited) ==
    /\ demandWhenReduced' = None /\ UNCHANGED slowStartLimit
    /\ IF rateLimited
       THEN /\ goodTicks' = AtMost(goodTicks + 1, GoodTicksNeeded)
            /\ rate' = IF InSlowStart \/ goodTicks' >= GoodTicksNeeded
                       THEN Grown ELSE rate
       ELSE UNCHANGED <<goodTicks, rate>>

\* RateController::tick.
TickRate(rateLimited) ==
    \/ Recent = {} /\ UNCHANGED growthVars
    \/ \E worst \in Worst({ewma[r] : r \in Recent}) :
           IF worst > Threshold THEN BadTick(worst) ELSE GoodTick(rateLimited)

\* What those that are left lost: Group::worst_loss is the worst of it.
Losses == {loss'[r] : r \in {q \in members' : loss'[q] # None}}

\* Batching::observe.
Observe ==
    \/ Losses = {} /\ UNCHANGED <<cleanWindows, gaveUp>>
    \/ \E worst \in Worst(Losses) :
         /\ gaveUp' = (gaveUp \/ worst > Threshold)
         /\ cleanWindows' = IF worst > Threshold THEN 0
                            ELSE AtMost(cleanWindows + 1, CleanNeeded)

\* Variant with a fault: the batch is narrowed before the loss is looked at.
SegmentsBefore == IF gaveUp \/ cleanWindows < CleanNeeded THEN 1 ELSE MaxSegments

\* Batching::segments, after observe.
Segments == IF gaveUp' \/ cleanWindows' < CleanNeeded THEN 1 ELSE MaxSegments

\* The arm of the send loop: the rate changes, silent participants are reaped,
\* and the batch follows the worst loss of those that are left.  Who reported
\* within STALENESS_LIMIT has not been silent for SILENCE_TIMEOUT.
Tick(rateLimited) ==
    /\ TickRate(rateLimited)
    /\ fresh' = [r \in Receivers |-> AtLeast(fresh[r] - 1, 0)]
    /\ \E silent \in SUBSET (members \ Recent) : Without(silent)
    /\ Observe
    /\ limit' = Segments
    /\ UNCHANGED ewma

\* What control messages change.
ReportNext ==
    \E r \in Receivers : ShortReport(r) \/ WindowReport(r) \/ Leave(r)
=============================================================================
