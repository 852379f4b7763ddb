------------------------------ MODULE Transfer ------------------------------
(***************************************************************************)
(* One reliable multicast transfer, from the moment the sender has         *)
(* gathered its participants to the moment every process has returned:     *)
(* the slicer's window, the send loop and its Group, the datagram network, *)
(* and one Session (with its Assembler and Naks) per receiver.             *)
(*                                                                         *)
(* A transfer is a sequence of slices 0 .. SliceCount-1.  A slice has      *)
(* BlocksPerSlice data slots, the last one only LastBlocks of them, and    *)
(* Parity recovery slots; any BlocksIn(s) shards of slice s recover it.    *)
(* Payloads are abstracted to (slice, slot).                               *)
(*                                                                         *)
(* The bounded channel between slicer and send loop is folded into the     *)
(* network's delay (Slicer.tla models it, and the parity width that varies *)
(* from slice to slice: a narrower slice is here one whose other recovery  *)
(* shards are lost).  Timers are abstracted to actions that may happen at  *)
(* any time; a timer that fires although its process is alive and heard    *)
(* spends one of MaxTimeouts.  A datagram is handled with the hand-over    *)
(* that ends its turn; Session.tla has turns of several datagrams, and the *)
(* channel and the bytes behind a receiver's output.                       *)
(***************************************************************************)
EXTENDS Integers, Sequences, FiniteSets

CONSTANTS
    Receivers,       \* the receiver processes
    BlocksPerSlice,  \* data slots of a slice
    Parity,          \* recovery slots of a slice
    MaxLiveSlices,   \* sealed slices the sender keeps for repair
    SliceCount,      \* slices of the stream
    LastBlocks,      \* blocks of the last slice
    SlowSinks,       \* receivers whose output may stop accepting blocks
    MaxInFlight,     \* bound: a sender waits while a receiver has that many
                     \*   shards on their way
    MaxReports,      \* bound: a receiver waits while that many reports are
    MaxFeedback,     \* bound: messages waiting for the slicer
    MaxLosses,       \* bound: datagrams the network loses
    MaxCopies,       \* bound: datagrams the network delivers twice
    MaxTimeouts,     \* bound: timers that fire on a live peer
    MaxCrashes       \* bound: receivers that die without a word

ASSUME TransferAssumption ==
    /\ Receivers # {} /\ IsFiniteSet(Receivers)
    /\ BlocksPerSlice \in Nat \ {0}
    /\ Parity \in Nat
    /\ MaxLiveSlices \in Nat \ {0}
    /\ SliceCount \in Nat
    /\ LastBlocks \in 1..BlocksPerSlice
    /\ SlowSinks \subseteq Receivers
    /\ MaxInFlight \in Nat /\ MaxReports \in Nat /\ MaxFeedback \in Nat
    /\ MaxLosses \in Nat
    /\ MaxCopies \in Nat /\ MaxTimeouts \in Nat /\ MaxCrashes \in Nat

Slices == 0 .. (SliceCount - 1)
DataSlots == 0 .. (BlocksPerSlice - 1)
ParitySlots == BlocksPerSlice .. (BlocksPerSlice + Parity - 1)
Slots == DataSlots \cup ParitySlots

\* The blocks the source really has for slice s.
BlocksIn(s) == IF s = SliceCount - 1 THEN LastBlocks ELSE BlocksPerSlice

Frame == [slice : Slices, slot : Slots, floor : 0 .. SliceCount]
Stats == [from : Receivers, next : 0 .. SliceCount]
Nak == [from : Receivers, slice : Slices, missing : SUBSET DataSlots]
Feedback == [kind : {"needed", "resend"}, slice : 0 .. SliceCount,
             slots : SUBSET DataSlots]

VARIABLES
    \* The slicer and its window.
    sealed,        \* slices sealed, which is the number of the current one
    filled,        \* blocks of the current slice
    firstLive,     \* oldest slice still in the window
    emitFloor,     \* every slice below it was emitted, parity and all
    eof,           \* "none", "queued" for the send loop, "taken" by it
    feedback,      \* channel from the send loop to the slicer
    \* The send loop and its Group.
    members,       \* participants
    reported,      \* next_needed of each participant
    reached,       \* participants whose last report reached the end
    neededFrom,    \* oldest slice some participant still needs
    suppressed,    \* shards resent less than HOLDOFF ago
    outcome,       \* "sending" or the result that the loop ended with
    call,          \* send_stream: "open", "returned" or "blocked" for ever
    completed,     \* receivers counted complete in TransferIncomplete
    \* The network.
    frames,        \* shards on their way to each receiver
    dones,         \* receivers a Done is on its way to
    evictions,     \* receivers an Evicted is on its way to
    stats, naks, leaves,
    \* The receivers.
    phase,         \* "running", "finished" or "failed"
    nextNeeded,    \* next slice to write
    held,          \* shards held of each slice
    output,        \* blocks written of each slice
    recvFloor,     \* highest emit_floor seen
    heardDone,
    nakked,        \* slices asked for less than RENAK_INTERVAL ago
    pending,       \* the sink refused a block, blocks wait in pending
    \* History and bounds.
    joined,        \* participants when the transfer started
    left, evicted, \* those that took leave of, or were dropped from, the group
    crashed,       \* receivers that died
    losses, copies, timeouts

windowVars == <<sealed, filled, firstLive, emitFloor>>
groupVars == <<members, reported, reached, neededFrom, suppressed>>
resultVars == <<outcome, completed, call>>
downVars == <<frames, dones, evictions>>
upVars == <<stats, naks, leaves>>
sessionVars == <<phase, nextNeeded, held, output, recvFloor, heardDone,
                 nakked, pending>>
historyVars == <<joined, left, evicted, crashed>>
boundVars == <<losses, copies, timeouts>>
senderVars == <<windowVars, eof, feedback, groupVars, resultVars>>
vars == <<senderVars, downVars, upVars, sessionVars, historyVars, boundVars>>

Running == {r \in Receivers : phase[r] = "running"}

Init ==
    /\ sealed = 0 /\ filled = 0 /\ firstLive = 0 /\ emitFloor = 0
    /\ eof = "none" /\ feedback = <<>>
    /\ joined \in SUBSET Receivers \ {{}}
    /\ members = joined /\ reported = [r \in Receivers |-> 0]
    /\ reached = {} /\ neededFrom = 0 /\ suppressed = {}
    /\ outcome = "sending" /\ completed = 0 /\ call = "open"
    /\ frames = [r \in Receivers |-> {}] /\ dones = {} /\ evictions = {}
    /\ stats = {} /\ naks = {} /\ leaves = {}
    /\ phase = [r \in Receivers |-> "running"]
    /\ nextNeeded = [r \in Receivers |-> 0]
    /\ held = [r \in Receivers |-> [s \in Slices |-> {}]]
    /\ output = [r \in Receivers |-> [s \in Slices |-> 0]]
    /\ recvFloor = [r \in Receivers |-> 0]
    /\ heardDone = [r \in Receivers |-> FALSE]
    /\ nakked = [r \in Receivers |-> {}]
    /\ pending = [r \in Receivers |-> FALSE]
    /\ left = {} /\ evicted = {} /\ crashed = {}
    /\ losses = 0 /\ copies = 0 /\ timeouts = 0

-----------------------------------------------------------------------------
(* The network.  Shards, Done and Evicted go to every process that listens; *)
(* reports, Naks and Leaves go to the sender.  All of it is UDP.            *)

Shards(s, slots, floor) == [slice : {s}, slot : slots, floor : {floor}]

Multicast(shards) ==
    frames' = [r \in Receivers |->
                 IF r \in Running THEN frames[r] \cup shards ELSE {}]

RoomInFlight == \A r \in Running : Cardinality(frames[r]) < MaxInFlight

\* A datagram leaves the network when it is received, unless a copy follows.
Receive(msgs, m, again) == IF again THEN msgs ELSE msgs \ {m}
CountCopy(again) ==
    IF again THEN copies < MaxCopies /\ copies' = copies + 1
             ELSE copies' = copies
CountTimeout == timeouts < MaxTimeouts /\ timeouts' = timeouts + 1

Lose ==
    /\ losses < MaxLosses
    /\ losses' = losses + 1
    /\ \/ /\ \E r \in Receivers : \E f \in frames[r] :
               frames' = [frames EXCEPT ![r] = @ \ {f}]
          /\ UNCHANGED <<dones, evictions, upVars>>
       \/ /\ \E r \in dones : dones' = dones \ {r}
          /\ UNCHANGED <<frames, evictions, upVars>>
       \/ /\ \E r \in evictions : evictions' = evictions \ {r}
          /\ UNCHANGED <<frames, dones, upVars>>
       \/ /\ \E m \in stats : stats' = stats \ {m}
          /\ UNCHANGED <<downVars, naks, leaves>>
       \/ /\ \E m \in naks : naks' = naks \ {m}
          /\ UNCHANGED <<downVars, stats, leaves>>
       \/ /\ \E r \in leaves : leaves' = leaves \ {r}
          /\ UNCHANGED <<downVars, stats, naks>>
    /\ UNCHANGED <<senderVars, sessionVars, historyVars, copies, timeouts>>

-----------------------------------------------------------------------------
(* The slicer: it reads blocks while its window has room, and answers the   *)
(* send loop's feedback.                                                    *)

\* Variant with a fault: the window admits one slice too many.
WindowFullLate == sealed - firstLive > MaxLiveSlices

WindowFull == sealed - firstLive >= MaxLiveSlices

SourceEmpty ==
    \/ sealed = SliceCount
    \/ sealed = SliceCount - 1 /\ filled = LastBlocks

\* The data slots of slice s the window can still supply.
WindowSlots(s) ==
    CASE s = sealed -> 0 .. (filled - 1)
      [] s \in firstLive .. (sealed - 1) -> 0 .. (BlocksIn(s) - 1)
      [] OTHER -> {}

Reading == outcome = "sending" /\ eof = "none" /\ ~WindowFull /\ RoomInFlight
\* A block is read; the block that fills a slice seals it, and its recovery
\* shards follow, all under the floor that stood before the slice.
Push ==
    /\ Reading /\ ~SourceEmpty
    /\ IF filled + 1 = BlocksPerSlice
       THEN /\ sealed' = sealed + 1 /\ filled' = 0 /\ emitFloor' = sealed + 1
            /\ Multicast(Shards(sealed, {filled} \cup ParitySlots, emitFloor))
       ELSE /\ filled' = filled + 1 /\ UNCHANGED <<sealed, emitFloor>>
            /\ Multicast(Shards(sealed, {filled}, emitFloor))
    /\ UNCHANGED <<firstLive, eof, feedback, groupVars, resultVars, dones,
                   evictions, upVars, sessionVars, historyVars, boundVars>>

\* The source ends: a short last slice is sealed, and Eof is queued.
Drain ==
    /\ Reading /\ SourceEmpty
    /\ eof' = "queued"
    /\ IF filled > 0
       THEN /\ sealed' = sealed + 1 /\ filled' = 0 /\ emitFloor' = sealed + 1
            /\ Multicast(Shards(sealed, ParitySlots, emitFloor))
       ELSE UNCHANGED <<sealed, filled, emitFloor, frames>>
    /\ UNCHANGED <<firstLive, feedback, groupVars, resultVars, dones,
                   evictions, upVars, sessionVars, historyVars, boundVars>>

\* Variant with a fault: the first needed slice is dropped too.
RetainAfter(n) == IF n < firstLive THEN firstLive
                  ELSE IF n < sealed THEN n + 1 ELSE sealed

\* Window::retain_from drops sealed slices only, never the current one.
RetainFrom(n) ==
    IF n <= firstLive THEN firstLive ELSE IF n <= sealed THEN n ELSE sealed

OnFeedback ==
    /\ outcome = "sending" /\ feedback # <<>>
    /\ LET m == Head(feedback) IN
       \/ /\ m.kind = "needed"
          /\ firstLive' = RetainFrom(m.slice)
          /\ UNCHANGED frames
       \/ /\ m.kind = "resend" /\ RoomInFlight
          /\ Multicast(Shards(m.slice, m.slots \cap WindowSlots(m.slice),
                              emitFloor))
          /\ UNCHANGED firstLive
    /\ feedback' = Tail(feedback)
    /\ UNCHANGED <<sealed, filled, emitFloor, eof, groupVars, resultVars,
                   dones, evictions, upVars, sessionVars, historyVars,
                   boundVars>>

-----------------------------------------------------------------------------
(* The send loop.                                                           *)

Draining == eof = "taken"

\* Variant with a fault: one complete participant is enough.
AnyComplete == members \cap reached # {}

AllComplete == members # {} /\ members \subseteq reached

\* The loop goes round: neither of the tests at its top ends it.
Looping ==
    outcome = "sending" /\ members # {} /\ ~(Draining /\ AllComplete)

\* The loop ends with its result.
EndLoop ==
    /\ outcome = "sending" /\ ~Looping
    /\ outcome' = IF members = {} THEN "noParticipants" ELSE "ok"
    /\ UNCHANGED <<windowVars, eof, feedback, groupVars, completed, call,
                   downVars, upVars, sessionVars, historyVars, boundVars>>

\* The slicer is told, and awaited, before the result is returned.  One that is
\* blocked on a full outbound never hears of it; how full that channel is is
\* folded away here, so it may be so at any end (Slicer.tla, ShutdownCompletes).
AwaitSlicer ==
    /\ outcome # "sending" /\ call = "open"
    /\ call' \in {"returned", "blocked"}
    /\ UNCHANGED <<windowVars, eof, feedback, groupVars, outcome, completed,
                   downVars, upVars, sessionVars, historyVars, boundVars>>

TakeEof ==
    /\ Looping /\ eof = "queued"
    /\ eof' = "taken" /\ reached' = {} /\ dones' = Running
    /\ UNCHANGED <<windowVars, feedback, members, reported, neededFrom,
                   suppressed, resultVars, frames, evictions, upVars,
                   sessionVars, historyVars, boundVars>>

\* Variant with a fault: Done is said once only.
DoneOnce == Looping /\ Draining /\ UNCHANGED vars

\* The tick repeats Done.  Before the end of the stream it says Hello, which
\* carries no emit_floor and changes nothing for a receiver that has shards.
DoneTick ==
    /\ Looping /\ Draining
    /\ dones' = Running
    /\ UNCHANGED <<senderVars, frames, evictions, upVars, sessionVars,
                   historyVars, boundVars>>

\* Variant with a fault: a report of less moves the group back.
AdvanceOrRetreat(heard) ==
    \E slowest \in {heard[r] : r \in members} :
        /\ \A r \in members : slowest <= heard[r]
        /\ neededFrom' = slowest
        /\ suppressed' = {x \in suppressed : x[1] >= slowest}
        /\ feedback' = Append(feedback, [kind |-> "needed", slice |-> slowest,
                                        slots |-> {}])

\* Group::advance: the oldest slice needed moves forward only, and the slicer
\* is told.
Advance(heard) ==
    \E slowest \in {heard[r] : r \in members} :
        /\ \A r \in members : slowest <= heard[r]
        /\ IF slowest > neededFrom
           THEN /\ neededFrom' = slowest
                /\ suppressed' = {x \in suppressed : x[1] >= slowest}
                /\ feedback' = Append(feedback, [kind |-> "needed",
                                     slice |-> slowest, slots |-> {}])
           ELSE UNCHANGED <<neededFrom, suppressed, feedback>>

\* Group::on_stats.  A receiver the group does not know is ignored.
OnStats(m, again) ==
    LET atEnd == Draining /\ m.next >= SliceCount
        heard == [reported EXCEPT ![m.from] = m.next] IN
    /\ Looping /\ Len(feedback) < MaxFeedback
    /\ stats' = Receive(stats, m, again) /\ CountCopy(again)
    /\ \/ /\ m.from \notin members
          /\ UNCHANGED <<groupVars, feedback>>
       \/ /\ m.from \in members
          /\ reported' = heard
          /\ reached' = IF atEnd THEN reached \cup {m.from}
                                 ELSE reached \ {m.from}
          /\ Advance(heard)
          /\ UNCHANGED members
    /\ UNCHANGED <<windowVars, eof, resultVars, downVars, naks, leaves,
                   sessionVars, historyVars, losses, timeouts>>

\* Group::on_nak: a slice nobody needs is not repaired, a shard resent less
\* than HOLDOFF ago is not repeated.
OnNak(m, again) ==
    LET wanted == {slot \in m.missing : <<m.slice, slot>> \notin suppressed} IN
    /\ Looping /\ Len(feedback) < MaxFeedback
    /\ naks' = Receive(naks, m, again) /\ CountCopy(again)
    /\ IF m.from \in members /\ m.slice >= neededFrom /\ wanted # {}
       THEN /\ suppressed' = suppressed \cup ({m.slice} \X wanted)
            /\ feedback' = Append(feedback,
                 [kind |-> "resend", slice |-> m.slice, slots |-> wanted])
       ELSE UNCHANGED <<suppressed, feedback>>
    /\ UNCHANGED <<windowVars, eof, members, reported, reached, neededFrom,
                   resultVars, downVars, stats, leaves, sessionVars,
                   historyVars, losses, timeouts>>

Remove(r) == members' = members \ {r} /\ reached' = reached \ {r}

OnLeave(r) ==
    /\ Looping
    /\ leaves' = leaves \ {r} /\ Remove(r)
    /\ left' = left \cup ({r} \cap members)
    /\ UNCHANGED <<windowVars, eof, feedback, reported, neededFrom,
                   suppressed, resultVars, downVars, stats, naks,
                   sessionVars, joined, evicted, crashed, boundVars>>

\* Variant with a fault: a receiver that is gone is never reaped.
SilentThoughThere(r) == r \in Running /\ CountTimeout

\* Not heard for SILENCE_TIMEOUT: gone, or all it sent went missing.
Silent(r) == IF r \in Running THEN CountTimeout ELSE UNCHANGED timeouts

\* The tick reaps a participant not heard for SILENCE_TIMEOUT and says so,
\* once.  What the others need is not looked at again until a report comes.
Evict(r) ==
    /\ Looping /\ r \in members
    /\ Silent(r)
    /\ Remove(r)
    /\ evicted' = evicted \cup {r}
    /\ evictions' = evictions \cup ({r} \cap Running)
    /\ UNCHANGED <<windowVars, eof, feedback, reported, neededFrom,
                   suppressed, resultVars, frames, dones, upVars,
                   sessionVars, joined, left, crashed, losses, copies>>

HoldoffExpires ==
    /\ Looping
    /\ \E x \in suppressed : suppressed' = suppressed \ {x}
    /\ UNCHANGED <<windowVars, eof, feedback, members, reported, reached,
                   neededFrom, resultVars, downVars, upVars, sessionVars,
                   historyVars, boundVars>>

\* Variant with a fault: whoever is still there is counted complete.
EveryoneCounted == Cardinality(members)

CompleteCount == Cardinality(members \cap reached)

\* max_wait after the end of the stream.
DrainDeadline ==
    /\ Looping /\ Draining /\ CountTimeout
    /\ outcome' = "incomplete"
    /\ completed' = CompleteCount
    /\ UNCHANGED <<windowVars, eof, feedback, groupVars, call, downVars, upVars,
                   sessionVars, historyVars, losses, copies>>

-----------------------------------------------------------------------------
(* The receivers.  h stands for the shards a receiver holds of each slice,  *)
(* d for whether it heard Done.                                             *)

\* Variant with a fault: hearing Done is taken for having it all.
CompleteOnDone(r) == heardDone[r]

Complete(r) == nextNeeded[r] >= SliceCount /\ heardDone[r]

\* The session's loop condition: not finished, or blocks still pending.
Active(r) == r \in Running /\ (~Complete(r) \/ pending[r])

Target(d, s) == IF d THEN BlocksIn(s) ELSE BlocksPerSlice

IsComplete(h, d, s) == h[s] # {} /\ Cardinality(h[s]) >= Target(d, s)

\* Variant with a fault: enough shards are taken for a full slice.
WriteAnyway(h, d, s) == h[s] # {}

\* Before Done a slice of enough shards may still be a short last slice, so
\* it is written only when a later one was seen or no data slot is absent.
CanWrite(h, d, s) ==
    \/ d
    \/ \E t \in Slices : t > s /\ h[t] # {}
    \/ DataSlots \subseteq h[s]

Ready(h, d, s) == CanWrite(h, d, s) /\ IsComplete(h, d, s)

\* Variant with a fault: the range of slots includes the one past the end.
MissingPastEnd(h, d, s) ==
    LET absent == (0 .. Target(d, s)) \ h[s]
        shortfall == Target(d, s) + 1 - Cardinality(h[s])
    IN {x \in absent : Cardinality({y \in absent : y < x}) < shortfall}

\* Slice::wanted: the first absent data slots, as many as shards are short.
Missing(h, d, s) ==
    LET absent == (0 .. (Target(d, s) - 1)) \ h[s]
        shortfall == Target(d, s) - Cardinality(h[s])
    IN {x \in absent : Cardinality({y \in absent : y < x}) < shortfall}

\* Variants with a fault: the floor itself is asked for; the slice just
\* below it is forgotten.
FloorIncluded(d, floor) == IF d THEN SliceCount ELSE floor + 1
FloorShort(d, floor) == IF d THEN SliceCount - 1 ELSE floor

\* Slices below it were emitted to their end.
GapFloor(d, floor) == IF d THEN SliceCount ELSE floor

\* Assembler::gaps, less the slices whose last Nak is recent (Naks::due).
Gaps(r, h, d, floor) ==
    {s \in Slices :
        /\ nextNeeded[r] <= s /\ s < GapFloor(d, floor)
        /\ ~IsComplete(h, d, s) /\ Missing(h, d, s) # {}
        /\ s \notin nakked[r]}

NaksFor(r, h, d, slices) ==
    {[from |-> r, slice |-> s, missing |-> Missing(h, d, s)] : s \in slices}

\* Session::hand_over, which ends every turn of the session's loop: unless
\* blocks are pending, every slice that is ready is written, in order.
HandOver(r, h, d, asked) ==
    IF pending[r]
    THEN /\ held' = [held EXCEPT ![r] = h]
         /\ nakked' = [nakked EXCEPT ![r] = @ \cup asked]
         /\ UNCHANGED <<nextNeeded, output, pending>>
    ELSE \E next \in nextNeeded[r] .. SliceCount :
         LET taken == nextNeeded[r] .. (next - 1) IN
         /\ \A s \in taken : Ready(h, d, s)
         /\ next < SliceCount => ~Ready(h, d, next)
         /\ nextNeeded' = [nextNeeded EXCEPT ![r] = next]
         /\ held' = [held EXCEPT ![r] =
                       [s \in Slices |-> IF s < next THEN {} ELSE h[s]]]
         /\ output' = [output EXCEPT ![r] =
                         [s \in Slices |-> IF s \in taken THEN Target(d, s)
                                           ELSE output[r][s]]]
         /\ nakked' = [nakked EXCEPT ![r] = {s \in @ \cup asked : s >= next}]
         /\ \E stall \in IF r \in SlowSinks /\ taken # {} THEN BOOLEAN
                                                         ELSE {FALSE} :
               pending' = [pending EXCEPT ![r] = stall]

\* Assembler::insert refuses a slice already written, and one beyond the
\* window.
Insert(r, f) ==
    IF nextNeeded[r] <= f.slice /\ f.slice < nextNeeded[r] + MaxLiveSlices
    THEN [held[r] EXCEPT ![f.slice] = @ \cup {f.slot}]
    ELSE held[r]

\* Session::on_shard: a floor that advances asks for the gaps below it.
DeliverShard(r, f, again) ==
    LET h == Insert(r, f)
        advanced == f.floor > recvFloor[r]
        asked == IF advanced THEN Gaps(r, h, heardDone[r], f.floor) ELSE {}
    IN
    /\ Active(r) /\ f \in frames[r]
    /\ frames' = [frames EXCEPT ![r] = Receive(@, f, again)]
    /\ CountCopy(again)
    /\ recvFloor' = [recvFloor EXCEPT ![r] = IF advanced THEN f.floor ELSE @]
    /\ naks' = naks \cup NaksFor(r, h, heardDone[r], asked)
    /\ HandOver(r, h, heardDone[r], asked)
    /\ UNCHANGED <<senderVars, dones, evictions, stats, leaves, phase,
                   heardDone, historyVars, losses, timeouts>>

DeliverDone(r) ==
    LET asked == Gaps(r, held[r], TRUE, recvFloor[r]) IN
    /\ Active(r) /\ r \in dones
    /\ dones' = dones \ {r}
    /\ heardDone' = [heardDone EXCEPT ![r] = TRUE]
    /\ naks' = naks \cup NaksFor(r, held[r], TRUE, asked)
    /\ HandOver(r, held[r], TRUE, asked)
    /\ UNCHANGED <<senderVars, frames, evictions, stats, leaves, phase,
                   recvFloor, historyVars, boundVars>>

RenakTick(r) ==
    LET asked == Gaps(r, held[r], heardDone[r], recvFloor[r]) IN
    /\ Active(r)
    /\ naks' = naks \cup NaksFor(r, held[r], heardDone[r], asked)
    /\ HandOver(r, held[r], heardDone[r], asked)
    /\ UNCHANGED <<senderVars, downVars, stats, leaves, phase, recvFloor,
                   heardDone, historyVars, boundVars>>

\* Variant with a fault: a slice is asked for once and never again.
RenakNever(r) ==
    /\ Active(r) /\ nakked[r] # {}
    /\ UNCHANGED vars

RenakExpires(r) ==
    /\ Active(r)
    /\ \E s \in nakked[r] : nakked' = [nakked EXCEPT ![r] = @ \ {s}]
    /\ UNCHANGED <<senderVars, downVars, upVars, phase, nextNeeded, held,
                   output, recvFloor, heardDone, pending, historyVars,
                   boundVars>>

StatsTick(r) ==
    /\ Active(r)
    /\ Cardinality({m \in stats : m.from = r}) < MaxReports
    /\ stats' = stats \cup {[from |-> r, next |-> nextNeeded[r]]}
    /\ HandOver(r, held[r], heardDone[r], {})
    /\ UNCHANGED <<senderVars, downVars, naks, leaves, phase, recvFloor,
                   heardDone, historyVars, boundVars>>

\* The sink takes the last of the pending blocks.
SinkReady(r) ==
    /\ Active(r) /\ pending[r]
    /\ pending' = [pending EXCEPT ![r] = FALSE]
    /\ UNCHANGED <<senderVars, downVars, upVars, phase, nextNeeded, held,
                   output, recvFloor, heardDone, nakked, historyVars,
                   boundVars>>

\* The process stops listening.
Stop(r, how) ==
    /\ phase' = [phase EXCEPT ![r] = how]
    /\ frames' = [frames EXCEPT ![r] = {}]
    /\ dones' = dones \ {r} /\ evictions' = evictions \ {r}
    /\ UNCHANGED <<nextNeeded, held, output, recvFloor, heardDone, nakked,
                   pending>>

\* The loop has ended: a last report and a Leave, each sent once.
Finish(r) ==
    /\ r \in Running /\ ~Active(r)
    /\ Stop(r, "finished")
    /\ stats' = stats \cup {[from |-> r, next |-> nextNeeded[r]]}
    /\ leaves' = leaves \cup {r}
    /\ UNCHANGED <<senderVars, naks, historyVars, boundVars>>

DeliverEvicted(r) ==
    /\ Active(r) /\ r \in evictions
    /\ Stop(r, "failed")
    /\ UNCHANGED <<senderVars, upVars, historyVars, boundVars>>

\* SILENCE_TIMEOUT without a datagram: the sender's loop has ended, or the
\* network swallowed all it said.
GoSilent(r) ==
    /\ Active(r) /\ ~Complete(r)
    /\ IF outcome # "sending" /\ frames[r] = {} /\ r \notin dones
       THEN UNCHANGED timeouts ELSE CountTimeout
    /\ Stop(r, "failed")
    /\ UNCHANGED <<senderVars, upVars, historyVars, losses, copies>>

\* The process dies, or its output closes (SinkClosed): no Leave is sent.
Crash(r) ==
    /\ r \in Running /\ Cardinality(crashed) < MaxCrashes
    /\ crashed' = crashed \cup {r}
    /\ Stop(r, "failed")
    /\ UNCHANGED <<senderVars, upVars, joined, left, evicted, boundVars>>

\* send_stream has returned, or never will, and so has every receiver.
Over ==
    /\ call # "open" /\ Running = {}
    /\ UNCHANGED vars

SlicerNext == Push \/ Drain \/ OnFeedback
SendLoopNext ==
    \/ EndLoop \/ AwaitSlicer \/ TakeEof \/ DoneTick \/ HoldoffExpires \/ DrainDeadline
    \/ \E m \in stats, again \in BOOLEAN : OnStats(m, again)
    \/ \E m \in naks, again \in BOOLEAN : OnNak(m, again)
    \/ \E r \in leaves : OnLeave(r)
    \/ \E r \in members : Evict(r)
SessionNext(r) ==
    \/ \E f \in frames[r], again \in BOOLEAN : DeliverShard(r, f, again)
    \/ DeliverDone(r) \/ DeliverEvicted(r)
    \/ RenakTick(r) \/ RenakExpires(r) \/ StatsTick(r) \/ SinkReady(r)
    \/ Finish(r) \/ GoSilent(r) \/ Crash(r)

Next ==
    \/ SlicerNext \/ SendLoopNext \/ (\E r \in Receivers : SessionNext(r))
    \/ Lose \/ Over

Spec == Init /\ [][Next]_vars

-----------------------------------------------------------------------------
(* What the code's scheduling justifies: every task is polled again, both   *)
(* branches of a select are eventually taken, ticks keep coming, a resend   *)
(* interval passes, and a datagram that is not lost arrives.  Nothing is    *)
(* assumed of losses, copies, crashes and timers that fire on a live peer.  *)

Fairness ==
    /\ WF_vars(Push \/ Drain) /\ WF_vars(OnFeedback)
    /\ WF_vars(EndLoop) /\ WF_vars(AwaitSlicer)
    /\ WF_vars(TakeEof) /\ WF_vars(DoneTick)
    /\ WF_vars(HoldoffExpires)
    /\ \A r \in Receivers :
        /\ WF_vars(\E m \in stats : m.from = r /\ OnStats(m, FALSE))
        /\ WF_vars(r \in leaves /\ OnLeave(r))
        /\ WF_vars(r \notin Running /\ Evict(r))
        /\ WF_vars(\E f \in frames[r] : DeliverShard(r, f, FALSE))
        /\ WF_vars(DeliverDone(r)) /\ WF_vars(DeliverEvicted(r))
        /\ WF_vars(RenakTick(r)) /\ WF_vars(RenakExpires(r))
        /\ WF_vars(StatsTick(r)) /\ WF_vars(SinkReady(r))
        /\ WF_vars(Finish(r))
        /\ WF_vars(GoSilent(r) /\ timeouts' = timeouts)
        /\ \A s \in Slices :
            WF_vars(\E m \in naks : /\ m.from = r /\ m.slice = s
                                    /\ OnNak(m, FALSE))

FairSpec == Spec /\ Fairness

-----------------------------------------------------------------------------
(* Properties.                                                              *)

SlicerTypeOK ==
    /\ sealed \in 0 .. SliceCount /\ filled \in 0 .. (BlocksPerSlice - 1)
    /\ firstLive \in 0 .. SliceCount /\ emitFloor \in 0 .. SliceCount
    /\ eof \in {"none", "queued", "taken"} /\ feedback \in Seq(Feedback)

GroupTypeOK ==
    /\ members \subseteq Receivers /\ reached \subseteq Receivers
    /\ reported \in [Receivers -> 0 .. SliceCount]
    /\ neededFrom \in 0 .. SliceCount
    /\ suppressed \subseteq Slices \X DataSlots
    /\ outcome \in {"sending", "ok", "noParticipants", "incomplete"}
    /\ completed \in Nat /\ call \in {"open", "returned", "blocked"}

NetworkTypeOK ==
    /\ frames \in [Receivers -> SUBSET Frame]
    /\ dones \subseteq Receivers /\ evictions \subseteq Receivers
    /\ stats \subseteq Stats /\ naks \subseteq Nak /\ leaves \subseteq Receivers

SessionTypeOK ==
    /\ phase \in [Receivers -> {"running", "finished", "failed"}]
    /\ nextNeeded \in [Receivers -> 0 .. SliceCount]
    /\ held \in [Receivers -> [Slices -> SUBSET Slots]]
    /\ output \in [Receivers -> [Slices -> 0 .. BlocksPerSlice]]
    /\ recvFloor \in [Receivers -> 0 .. SliceCount]
    /\ heardDone \in [Receivers -> BOOLEAN]
    /\ nakked \in [Receivers -> SUBSET Slices]
    /\ pending \in [Receivers -> BOOLEAN]

HistoryTypeOK ==
    /\ joined \subseteq Receivers /\ left \subseteq Receivers
    /\ evicted \subseteq Receivers /\ crashed \subseteq Receivers
    /\ losses \in Nat /\ copies \in Nat /\ timeouts \in Nat

\* Every variable has its type, whatever is lost, repeated or overtaken.
TypeOK ==
    SlicerTypeOK /\ GroupTypeOK /\ NetworkTypeOK /\ SessionTypeOK
    /\ HistoryTypeOK

\* The window still holds every sealed slice a participant has not written:
\* whatever order reports, Leaves and evictions arrive in, retain_from never
\* drops a slice that a Nak may still have to repair.
WindowRetains == \A r \in members : firstLive <= nextNeeded[r]

\* A shard on its way to a participant is never so far ahead that the
\* participant's Assembler has to refuse it: window and assembler agree on
\* max_live_slices although each counts from its own end.
NeverTooFarAhead ==
    \A r \in members \cap Running : \A f \in frames[r] :
        f.slice < nextNeeded[r] + MaxLiveSlices

\* A receiver's output is the source's blocks, slice by slice and without a
\* block of padding, whether or not Done came before the last slice did.
OutputIsPrefix ==
    \A r \in Receivers, s \in Slices :
        output[r][s] = IF s < nextNeeded[r] THEN BlocksIn(s) ELSE 0

\* A Nak only ever asks for a slice that was emitted to its end: the floor a
\* receiver collects from reordered shards never runs ahead of the slicer.
NaksFollowEmission == \A m \in naks : m.slice < sealed

\* send_stream returns Ok only when every participant that it did not itself
\* evict has written the whole stream, those that have left included.
OkMeansEveryoneHasAll ==
    outcome = "ok" => \A r \in joined \ evicted : nextNeeded[r] = SliceCount

\* So do its errors: NoParticipants is returned only when everyone who was not
\* evicted has written the whole stream and left, and TransferIncomplete never
\* counts a receiver complete that is not, or that was evicted.
FailuresAreHonest ==
    /\ outcome = "noParticipants" =>
          \A r \in joined \ evicted : nextNeeded[r] = SliceCount
    /\ outcome = "incomplete" =>
          completed <= Cardinality({r \in joined \ evicted :
                                      nextNeeded[r] = SliceCount})

\* A report that was overtaken by a later one, or delivered twice, never
\* makes the group need again what everyone had written.
NeededNeverRetreats == [][neededFrom' >= neededFrom /\ firstLive' >= firstLive]_vars

\* The parts of the inductive invariant behind the safety properties.

\* The window spans at most max_live_slices sealed slices, and a slice is
\* begun only while there is room for it.
WindowInv ==
    /\ firstLive <= sealed /\ sealed <= firstLive + MaxLiveSlices
    /\ emitFloor <= sealed
    /\ filled > 0 => /\ sealed < SliceCount
                     /\ sealed < firstLive + MaxLiveSlices
                     /\ filled <= BlocksIn(sealed)

\* What the sender knows of a participant, or will hear, is never ahead of it;
\* what the slicer is told, or will be, is never ahead of the group.
ReportInv ==
    /\ \A m \in stats : m.next <= nextNeeded[m.from]
    /\ \A r \in Receivers : reported[r] <= nextNeeded[r]
    /\ \A r \in members : neededFrom <= nextNeeded[r]
    /\ firstLive <= neededFrom
    /\ \A i \in 1 .. Len(feedback) :
          feedback[i].kind = "needed" => feedback[i].slice <= neededFrom

\* A shard in flight came out of the window; its floor was emitted.
FlightInv ==
    \A r \in Receivers : \A f \in frames[r] :
        /\ f.slice < firstLive + MaxLiveSlices
        /\ f.floor <= sealed
        /\ f.slot < BlocksPerSlice => f.slot < BlocksIn(f.slice)

\* Floors and Done never reach a receiver before what they announce.
EmissionInv ==
    /\ \A r \in Receivers : recvFloor[r] <= sealed
    /\ eof # "none" => sealed = SliceCount
    /\ dones # {} => eof = "taken"
    /\ \A r \in Receivers : heardDone[r] => eof = "taken"
    /\ NaksFollowEmission

\* A receiver counted complete, or gone with a Leave, has written everything.
CompletionInv ==
    /\ \A r \in reached : nextNeeded[r] = SliceCount
    /\ \A r \in Receivers :
          phase[r] = "finished" => nextNeeded[r] = SliceCount
    /\ \A r \in leaves : phase[r] = "finished"
    /\ \A r \in left : nextNeeded[r] = SliceCount
    /\ joined \subseteq members \cup left \cup evicted
    /\ members \subseteq joined \ evicted /\ evicted \subseteq joined
    /\ OkMeansEveryoneHasAll

\* A receiver holds and writes only blocks the source has.
OutputInv ==
    /\ OutputIsPrefix
    /\ \A r \in Receivers, s \in Slices : \A slot \in held[r][s] :
          slot < BlocksPerSlice => slot < BlocksIn(s)

\* The inductive invariant of a transfer.
IndInv ==
    /\ TypeOK /\ WindowInv /\ ReportInv /\ FlightInv /\ EmissionInv
    /\ CompletionInv /\ OutputInv

\* While fewer datagrams are lost than would empty a full window, and no timer
\* fires on a live peer, the send loop ends with a result and every receiver
\* returns: no gap, lost Nak, repair, Done, last report or Leave keeps one waiting
\* for another.  send_stream then returns too, but for a slicer that is blocked:
\* that it may never is the finding about ShutdownCompletes (Slicer.tla).
EveryoneEnds == <>(outcome # "sending" /\ call # "open" /\ Running = {})

\* And every participant that does not die has every block written.
ParticipantsGetAll ==
    \A r \in Receivers :
        (r \in joined) ~> (nextNeeded[r] = SliceCount \/ r \in crashed)

\* The protocol implements the abstract promise: a receiver's written slices
\* are the next_needed of its Assembler, the dropped are the evicted.
Promise == INSTANCE ReliableMulticast
    WITH participants <- joined, dropped <- evicted, written <- nextNeeded,
         result <- outcome, complete <- completed
ImplementsPromise == Promise!AbsSpec

\* And between slicer and send loop the window is that of SliceWindow: whatever
\* the receivers report, a slice is begun only while there is room, dropped only
\* when nobody needs it, and announced only when sealed, and none of it is ever
\* taken back.
Window == INSTANCE SliceWindow
    WITH first <- firstLive, ended <- (eof # "none"), floor <- emitFloor,
         needed <- neededFrom
ImplementsWindow == Window!WindowSpec

-----------------------------------------------------------------------------
(* What the repository's own texts say and the code does not do.            *)

\* lossy.rs, finishes_when_the_first_announcements_of_the_end_are_lost: no
\* participant fails once the sender has reported success.
OkMeansNobodyFails ==
    outcome = "ok" => \A r \in joined \ evicted : phase[r] # "failed"

\* lossy.rs, repairs_a_gap_that_stalled_the_senders_window: a window that is
\* full moves on.
FullWindowMoves == WindowFull ~> (~WindowFull \/ outcome # "sending")
=============================================================================
