------------------------------- MODULE Pacing -------------------------------
(***************************************************************************)
(* The way of a shard from the slicer's channel to the wire: the loop of    *)
(* send_stream with its Pacer and its FrameBatch, and the rate controller   *)
(* that the loop's tick runs.                                               *)
(*                                                                         *)
(* Credit is counted in parts of a shard, Unit to a shard, and time in      *)
(* steps at which the current rate earns rate parts.  The slicer's side is  *)
(* a source that may queue another shard or, once, the end; after the end   *)
(* only resends come.                                                       *)
(***************************************************************************)
EXTENDS RateControl, Sequences

CONSTANTS
    Unit,            \* parts of a shard
    Quantum,         \* BURST_QUANTUM in steps of time
    MinBurst,        \* MIN_BURST in parts
    MaxBurst,        \* MAX_BURST in parts
    Capacity,        \* OUTBOUND_CAPACITY
    MaxIdle          \* bound: steps of time that are told apart

ASSUME PacingAssumption ==
    /\ Unit \in Nat \ {0} /\ Quantum \in Nat \ {0}
    /\ MinBurst \in Nat /\ MaxBurst \in Nat
    /\ Unit <= MinBurst /\ MinBurst <= MaxBurst
    /\ Capacity \in Nat \ {0}
    \* In a longer time nothing more is earned, however low the rate.
    /\ MaxIdle \in Nat /\ MaxIdle >= Quantum
    /\ MaxIdle * AtLeast(AtMost(MinRate, Ceiling), 1) >= MinBurst

VARIABLES
    at,           \* "top", "select", "taken", "batch", "returned" or
                  \*   "panicked"
    outbound,     \* the channel from the slicer: shards and at most one Eof
    ended,        \* the source has queued its Eof
    queued,       \* what this turn of the loop has taken, in order
    segments,     \* frames in the batch
    draining,
    \* Pacer.
    credit,
    idle,         \* time since last_refill
    waited,
    \* History.
    spent,        \* since the last tick a turn took all the credit there was,
                  \*   or shards waited while there was none
    bucket,       \* what two bursts and the highest rate would still allow
    since         \* time since a shard was last paid for, up to Unit

loopVars == <<at, queued, segments, draining>>
slicerVars == <<outbound, ended>>
pacerVars == <<credit, idle, waited>>
historyVars == <<spent, bucket, since>>
vars == <<rateVars, loopVars, slicerVars, pacerVars, historyVars>>

\* Where the loop is when it is over.
Ended == {"returned", "panicked"}

\* The highest and the lowest rate there can be.
TopRate == AtLeast(InitialRate, Ceiling)
LowRate == AtMost(MinRate, Ceiling)

\* burst_cap.
BurstCap(r) == Clamp(r * Quantum, MinBurst, MaxBurst)

PacerInit == credit = 0 /\ idle = 0 /\ waited = FALSE

\* FrameBatch::new; what it may hold is limit and, at most, MaxSegments.
BatchInit == segments = 0

Init ==
    /\ RateInit /\ PacerInit /\ BatchInit
    /\ at = "top" /\ outbound = <<>> /\ ended = FALSE
    /\ queued = <<>> /\ draining = FALSE
    /\ spent = FALSE /\ bucket = 2 * BurstCap(TopRate) /\ since = 0

-----------------------------------------------------------------------------
(* The surroundings: time passes, the slicer queues, receivers report.      *)

Pass ==
    /\ at \notin Ended
    /\ idle' = AtMost(idle + 1, MaxIdle)
    /\ bucket' = AtMost(bucket + TopRate, 2 * BurstCap(TopRate))
    /\ since' = AtMost(since + 1, Unit)
    /\ UNCHANGED <<rateVars, loopVars, slicerVars, credit, waited, spent>>

Queue ==
    /\ at \notin Ended /\ Len(outbound) < Capacity
    /\ \/ outbound' = Append(outbound, "shard") /\ UNCHANGED ended
       \/ ~ended /\ outbound' = Append(outbound, "eof") /\ ended' = TRUE
    /\ UNCHANGED <<rateVars, loopVars, pacerVars, historyVars>>

-----------------------------------------------------------------------------
(* The loop.                                                                *)

\* Variant with a fault: time before a burst's worth of it counts as well.
EarnedUncapped == credit + idle * rate

\* Variant with a fault: what was earned before the last refill is forgotten.
EarnedSince == AtMost(idle * rate, BurstCap(rate))

\* Pacer::refill.
Refilled == AtMost(credit + idle * rate, BurstCap(rate))

\* time_until_credit divides by the rate, which a max_rate of 0 makes 0, and
\* infinite seconds are no Duration.
NoDuration == Refilled < Unit /\ rate = 0

\* The top of the loop.
Top ==
    /\ at = "top" /\ members # {}
    /\ credit' = Refilled /\ idle' = 0
    /\ at' = IF NoDuration THEN "panicked" ELSE "select"
    /\ UNCHANGED <<rateVars, queued, segments, draining, slicerVars, waited,
                   historyVars>>

\* No participants are left, or all are complete, or the drain deadline comes.
Return ==
    /\ \/ at = "top" /\ (members = {} \/ draining)
       \/ at = "select" /\ draining
    /\ at' = "returned"
    /\ UNCHANGED <<rateVars, queued, segments, draining, slicerVars,
                   pacerVars, historyVars>>

Budget == credit \div Unit

\* recv_many resolves: all there is, up to what credit and batch allow.
Take ==
    /\ at = "select" /\ Budget > 0 /\ outbound # <<>>
    /\ LET n == AtMost(Len(outbound), AtMost(Budget, MaxSegments)) IN
        /\ queued' = SubSeq(outbound, 1, n)
        /\ outbound' = SubSeq(outbound, n + 1, Len(outbound))
        /\ spent' = (spent \/ n = Budget)
    /\ at' = "taken"
    /\ UNCHANGED <<rateVars, segments, draining, ended, pacerVars, bucket, since>>

\* Variant with a fault: whatever is in the channel by then counts.
LeftOver == Budget <= MaxSegments /\ outbound # <<>>

\* The turn took all there was credit for, though the batch would have held
\* more, and something is left.
HeldBack == Budget <= MaxSegments /\ Len(queued) = Budget /\ outbound # <<>>

\* Only after the turn was taken is the channel looked at, which the slicer may
\* have filled again.
LookBack ==
    /\ at = "taken"
    /\ waited' = (waited \/ HeldBack)
    /\ at' = "batch"
    /\ UNCHANGED <<rateVars, queued, segments, draining, slicerVars, credit,
                   idle, historyVars>>

\* Variant with a fault: the frame that fills the batch stays in it.
FullLate(n) == n > limit

\* FrameBatch::is_full.
IsFull(n) == n >= limit

\* FrameBatch::push, and the batch is sent when it is full.
PushShard ==
    /\ at = "batch" /\ queued # <<>> /\ Head(queued) = "shard"
    /\ queued' = Tail(queued)
    /\ credit' = credit - Unit /\ bucket' = bucket - Unit /\ since' = 0
    /\ segments' = IF IsFull(segments + 1) THEN 0 ELSE segments + 1
    /\ UNCHANGED <<rateVars, at, draining, slicerVars, idle, waited, spent>>

\* The end: the batch is sent, then Done.
TakeEof ==
    /\ at = "batch" /\ queued # <<>> /\ Head(queued) = "eof"
    /\ queued' = Tail(queued)
    /\ segments' = 0 /\ draining' = TRUE
    /\ UNCHANGED <<rateVars, at, slicerVars, pacerVars, historyVars>>

\* Variant with a fault: the rest stays in the batch until it is full.
EndTurnUnsent ==
    /\ at = "batch" /\ queued = <<>>
    /\ at' = "top"
    /\ UNCHANGED <<rateVars, queued, segments, draining, slicerVars, pacerVars,
                   historyVars>>

\* The rest of the batch is sent.
EndTurn ==
    /\ at = "batch" /\ queued = <<>>
    /\ segments' = 0 /\ at' = "top"
    /\ UNCHANGED <<rateVars, queued, draining, slicerVars, pacerVars,
                   historyVars>>

\* time_until_credit has passed.  It is rounded, and so is what is earned in it,
\* so a part of a shard may still be wanting.
SleptEnough == idle * rate + 1 >= Unit - credit

\* The sleep until there is credit.
Sleep ==
    /\ at = "select" /\ Budget = 0 /\ SleptEnough
    /\ waited' = (waited \/ outbound # <<>>)
    /\ spent' = (spent \/ outbound # <<>>)
    /\ at' = "top"
    /\ UNCHANGED <<rateVars, queued, segments, draining, slicerVars, credit,
                   idle, bucket, since>>

TickArm ==
    /\ at = "select"
    /\ Tick(waited)
    /\ waited' = FALSE /\ spent' = FALSE /\ at' = "top"
    /\ UNCHANGED <<queued, segments, draining, slicerVars, credit, idle,
                   bucket, since>>

ControlArm ==
    /\ at = "select"
    /\ ReportNext \/ UNCHANGED rateVars
    /\ at' = "top"
    /\ UNCHANGED <<queued, segments, draining, slicerVars, pacerVars, historyVars>>

LoopNext ==
    \/ Top \/ Return \/ Take \/ LookBack \/ PushShard \/ TakeEof \/ EndTurn \/ Sleep
    \/ TickArm \/ ControlArm

Next == Pass \/ Queue \/ LoopNext

Spec == Init /\ [][Next]_vars

-----------------------------------------------------------------------------
(* Properties.                                                              *)

\* Every variable keeps its type; in particular a shard never costs credit
\* that is not there, and no batch outgrows its limit.
TypeOK ==
    /\ rate \in LowRate .. TopRate
    /\ ewma \in [Receivers -> Measure] /\ fresh \in [Receivers -> 0 .. StaleTicks]
    /\ goodTicks \in 0 .. GoodTicksNeeded
    /\ slowStartLimit \in 0 .. TopRate \cup {None} /\ demandWhenReduced \in Measure
    /\ members \subseteq Receivers /\ opened \subseteq members
    /\ loss \in [Receivers -> Measure]
    /\ cleanWindows \in 0 .. CleanNeeded /\ gaveUp \in BOOLEAN
    /\ limit \in {1, MaxSegments}
    /\ at \in {"top", "select", "taken", "batch"} \cup Ended
    /\ outbound \in Seq({"shard", "eof"}) /\ Len(outbound) <= Capacity
    /\ queued \in Seq({"shard", "eof"}) /\ Len(queued) <= MaxSegments
    /\ segments \in 0 .. limit - 1
    /\ ended \in BOOLEAN /\ draining \in BOOLEAN
    /\ credit \in 0 .. BurstCap(TopRate) /\ idle \in 0 .. MaxIdle
    /\ waited \in BOOLEAN /\ spent \in BOOLEAN
    /\ bucket \in Int /\ since \in 0 .. Unit

\* In whatever stretch of time, however the rate moves and however long the
\* source or the socket kept the loop waiting, no more is sent than the highest
\* rate would have earned, and two bursts: what is saved up while nothing could
\* be sent is forgotten beyond one burst (refill, consume, burst_cap).
RateIsKept == bucket >= 0

\* While the loop waits for its next event nothing it took is left unsent: the
\* batch is empty, so nothing in it can go stale, be overtaken by Done, or stay
\* behind when the batch is narrowed (the sends of the recv_many arm).
NothingWaits ==
    at \in {"top", "select"} \cup Ended => segments = 0 /\ queued = <<>>

\* The rate grows only on word: somebody reported within STALENESS_LIMIT,
\* nobody who did wants repair, and since the last tick credit was really spent
\* to the last shard, or shards waited for it.  That the slicer filled the
\* channel again before the loop looks at it does not pass for a shortage of
\* credit.  Up to MIN_RATE a bad tick lifts a rate that max_rate held below it
\* (tick, waited, take_starvation).
GrowthIsEarned ==
    [][rate' > AtLeast(rate, MinRate) =>
        /\ spent
        /\ \E r \in Receivers : fresh[r] > 0
        /\ \A r \in Receivers : fresh[r] > 0 => ewma[r] <= Threshold]_vars

\* What somebody wanted long ago holds nobody back, be it gone, reaped or only
\* silent: a tick at which all who reported within STALENESS_LIMIT are content,
\* and credit was the limit, counts as a good one, and when these are enough
\* the rate grows, if the ceiling leaves room (worst_recent_loss, tick).
OldDemandIsForgotten ==
    [][TickArm /\ waited
       /\ (\E r \in Receivers : fresh[r] > 0)
       /\ (\A r \in Receivers : fresh[r] > 0 => ewma[r] <= Threshold)
       => /\ goodTicks' > goodTicks \/ goodTicks = GoodTicksNeeded
          /\ goodTicks' = GoodTicksNeeded /\ rate < Ceiling => rate' > rate]_vars

\* Batches widen only when no participant that is left has a window with loss,
\* and none had at any earlier tick (Batching::observe, segments).
WideOnlyIfClean ==
    [][limit' > limit => ~gaveUp' /\ \A r \in members' : loss'[r] <= Threshold]_vars

\* Nobody starves: when the time has passed that a shard takes at the lowest rate
\* there is, the next refill leaves credit for one.  However often reports and
\* ticks broke into the sleep, each with a refill of its own, and however the
\* rate moved in between, what was earned before is kept, and a burst is never
\* less than a shard (refill, burst_cap, time_until_credit).
CreditComes == LowRate * since >= Unit => Refilled >= Unit
=============================================================================
