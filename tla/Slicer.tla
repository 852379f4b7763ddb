------------------------------- MODULE Slicer -------------------------------
(***************************************************************************)
(* The slicer task and its two channels: it reads blocks, cuts them into   *)
(* slices, computes recovery shards and queues everything for the send     *)
(* loop on a bounded channel, while the loop tells it over an unbounded    *)
(* one what to drop, to resend, and how much parity to add.                *)
(*                                                                         *)
(* Each send on the bounded channel is an await: what the slicer has yet   *)
(* to queue before it listens again is in unsent.  The send loop is here   *)
(* only as far as the slicer sees it; Transfer.tla has the rest.           *)
(***************************************************************************)
EXTENDS Integers, Sequences, FiniteSets, Functions

CONSTANTS
    BlocksPerSlice,  \* data slots of a slice
    MaxParity,       \* parity_per_slice: the widest parity
    MaxLiveSlices,   \* sealed slices the window keeps
    SourceBlocks,    \* blocks of the source
    Capacity,        \* OUTBOUND_CAPACITY
    SourceMayFail,   \* whether reading the source may fail
    MaxCovers,       \* bound: changes of the parity width
    MaxResends       \* bound: resends the send loop asks for

ASSUME SlicerAssumption ==
    /\ BlocksPerSlice \in Nat \ {0} /\ MaxParity \in Nat
    /\ MaxLiveSlices \in Nat \ {0} /\ SourceBlocks \in Nat
    /\ Capacity \in Nat \ {0} /\ SourceMayFail \in BOOLEAN
    /\ MaxCovers \in Nat /\ MaxResends \in Nat

Slices == 0 .. (SourceBlocks \div BlocksPerSlice)
Slots == 0 .. (BlocksPerSlice + MaxParity - 1)
DataSlots == 0 .. (BlocksPerSlice - 1)
Widths == 0 .. MaxParity

Shard == [slice : Slices, slot : Slots, width : Widths, floor : Nat]
Eof == [eof |-> TRUE]
Live == [no : Nat, width : Widths, blocks : 0 .. BlocksPerSlice]

VARIABLES
    current,    \* the slice being filled
    live,       \* the sealed slices of the window, oldest first
    wanted,     \* wanted_parity: the width of the next slice
    emitFloor,
    blocksRead, \* total_blocks
    drained,    \* the source has ended
    unsent,     \* what push, resend or the end of the source still queues
    floorAfter, \* emit_floor once unsent is queued
    task,       \* "running", or how Slicer::run returned
    outbound,   \* the channel to the send loop, at most Capacity long
    feedback,   \* the channel from it
    loop,       \* "running", "joining" the slicer, or "returned"
    result,     \* what send_stream returns
    covering,   \* the width the loop asked for last
    needed,     \* needed_from of the loop's Group
    taken,      \* history: shards the loop has taken
    eofTaken,
    covers, resends

windowVars == <<current, live, wanted>>
readerVars == <<emitFloor, blocksRead, drained, unsent, floorAfter>>
loopVars == <<loop, result, covering, needed, taken, eofTaken, covers, resends>>
vars == <<windowVars, readerVars, task, outbound, feedback, loopVars>>

EmptySlice(no, width) == [no |-> no, width |-> width, blocks |-> 0]

WindowInit ==
    current = EmptySlice(0, MaxParity) /\ live = <<>> /\ wanted = MaxParity

Init ==
    /\ WindowInit
    /\ emitFloor = 0 /\ blocksRead = 0 /\ drained = FALSE
    /\ unsent = <<>> /\ floorAfter = 0 /\ task = "running"
    /\ outbound = <<>> /\ feedback = <<>>
    /\ loop = "running" /\ result = "none" /\ covering = MaxParity
    /\ needed = 0 /\ taken = {} /\ eofTaken = FALSE
    /\ covers = 0 /\ resends = 0

-----------------------------------------------------------------------------
(* The window.                                                              *)

\* Variant with a fault: a full window admits one more slice.
WindowFullLate == Len(live) > MaxLiveSlices

WindowFull == Len(live) >= MaxLiveSlices

SliceOf(s) == {slice \in {current} \cup Range(live) : slice.no = s}

\* Whether the window can supply that slot: a block that was read, or a
\* recovery shard of a sealed slice.
Has(slice, slot) ==
    IF slot < BlocksPerSlice THEN slot < slice.blocks
    ELSE slice # current /\ slot - BlocksPerSlice < slice.width

\* Variant with a fault: a shard names the width that is wanted by now.
ShardOfWanted(slice, slot) == [slice |-> slice.no, slot |-> slot,
                               width |-> wanted, floor |-> emitFloor]

ShardOf(slice, slot) == [slice |-> slice.no, slot |-> slot,
                         width |-> slice.width, floor |-> emitFloor]

ParityOf(slice) ==
    [i \in 1 .. slice.width |-> ShardOf(slice, BlocksPerSlice + i - 1)]

\* Window::seal: the next slice takes the width wanted at that moment.
Seal(slice) ==
    /\ live' = Append(live, slice)
    /\ current' = EmptySlice(slice.no + 1, wanted)

\* Window::push: the block that fills its slice seals it.
WindowPush(slice) ==
    IF slice.blocks = BlocksPerSlice THEN Seal(slice)
    ELSE current' = slice /\ UNCHANGED live

-----------------------------------------------------------------------------
(* Slicer::run.                                                             *)

Selecting == task = "running" /\ unsent = <<>>

\* Variant with a fault: the floor moves before the parity is queued.
QueueEarly(messages, floor) ==
    /\ unsent' = [i \in 1 .. Len(messages) |->
                    IF messages[i] = Eof THEN Eof
                    ELSE [messages[i] EXCEPT !.floor = floor]]
    /\ floorAfter' = floor /\ emitFloor' = floor

\* What is queued from here on, and the floor that stands once it all is.
Queue(messages, floor) ==
    /\ unsent' = messages /\ floorAfter' = floor
    /\ emitFloor' = IF messages = <<>> THEN floor ELSE emitFloor

\* A block is read and queued, and after it the parity of a slice it fills.
Push ==
    LET slice == [current EXCEPT !.blocks = @ + 1]
        block == <<ShardOf(current, current.blocks)>> IN
    /\ Selecting /\ ~drained /\ ~WindowFull /\ blocksRead < SourceBlocks
    /\ blocksRead' = blocksRead + 1
    /\ WindowPush(slice)
    /\ IF slice.blocks = BlocksPerSlice
       THEN Queue(block \o ParityOf(slice), slice.no + 1)
       ELSE Queue(block, emitFloor)
    /\ UNCHANGED <<wanted, drained, task, outbound, feedback,
                   loopVars>>

\* The source has ended: a short slice is sealed, and Eof follows.
Drain ==
    /\ Selecting /\ ~drained /\ ~WindowFull /\ blocksRead = SourceBlocks
    /\ drained' = TRUE
    /\ IF current.blocks > 0
       THEN Seal(current) /\ Queue(ParityOf(current) \o <<Eof>>, current.no + 1)
       ELSE UNCHANGED <<live, current>> /\ Queue(<<Eof>>, emitFloor)
    /\ UNCHANGED <<wanted, blocksRead, task, outbound, feedback,
                   loopVars>>

\* Variant with a fault: an error of the source is taken for its end.
ReadErrorEnds ==
    /\ SourceMayFail /\ Selecting /\ ~drained /\ ~WindowFull
    /\ drained' = TRUE /\ Queue(<<Eof>>, emitFloor)
    /\ UNCHANGED <<windowVars, blocksRead, task, outbound, feedback, loopVars>>

\* Reading fails: run returns the error to the task nobody looks into.
ReadFails ==
    /\ SourceMayFail /\ Selecting /\ ~drained /\ ~WindowFull
    /\ task' = "fileError"
    /\ UNCHANGED <<windowVars, emitFloor, blocksRead, drained, unsent,
                   floorAfter, outbound, feedback, loopVars>>

\* channel::send waits for room; without a receiver it fails.
Send ==
    /\ task = "running" /\ unsent # <<>>
    /\ IF loop = "returned"
       THEN task' = "egressClosed" /\ UNCHANGED <<unsent, emitFloor, outbound>>
       ELSE /\ Len(outbound) < Capacity
            /\ outbound' = Append(outbound, Head(unsent))
            /\ unsent' = Tail(unsent)
            /\ emitFloor' = IF Tail(unsent) = <<>> THEN floorAfter ELSE emitFloor
            /\ UNCHANGED task
    /\ UNCHANGED <<windowVars, blocksRead, drained, floorAfter,
                   feedback, loopVars>>

\* Variants with a fault: nothing is ever dropped from the window; the first
\* needed slice is dropped too.
PopNone(k, n) == k = 0
PopNeeded(k, n) ==
    /\ \A i \in 1 .. k : live[i].no <= n
    /\ k < Len(live) => live[k + 1].no > n

\* Window::retain_from pops k slices.
Pop(k, n) ==
    /\ \A i \in 1 .. k : live[i].no < n
    /\ k < Len(live) => live[k + 1].no >= n

\* The shards a Nak asks for, as far as the window has them.
Available(s, slots) ==
    UNION {{ShardOf(slice, slot) : slot \in {x \in slots : Has(slice, x)}} :
               slice \in SliceOf(s)}

\* Shards in the order of their slots.
InOrder(shards) ==
    {f \in [1 .. Cardinality(shards) -> shards] :
        \A i, j \in DOMAIN f : i < j => f[i].slot < f[j].slot}

OnFeedback ==
    /\ Selecting /\ feedback # <<>>
    /\ feedback' = Tail(feedback)
    /\ LET m == Head(feedback) IN
       \/ /\ m.kind = "needed"
          /\ \E k \in 0 .. Len(live) :
                 Pop(k, m.slice) /\ live' = SubSeq(live, k + 1, Len(live))
          /\ UNCHANGED <<current, wanted, emitFloor, unsent, floorAfter, task>>
       \/ /\ m.kind = "cover"
          /\ wanted' = IF m.width < MaxParity THEN m.width ELSE MaxParity
          /\ UNCHANGED <<current, live, emitFloor, unsent, floorAfter, task>>
       \/ /\ m.kind = "resend"
          /\ \E messages \in InOrder(Available(m.slice, m.slots)) :
                 Queue(messages, emitFloor)
          /\ UNCHANGED <<windowVars, task>>
       \/ /\ m.kind = "done" /\ task' = "done"
          /\ UNCHANGED <<windowVars, emitFloor, unsent, floorAfter>>
    /\ UNCHANGED <<blocksRead, drained, outbound, loopVars>>

\* Variant with a fault: a closed feedback channel is polled again.
OnClosedIgnored ==
    /\ Selecting /\ feedback = <<>> /\ loop = "returned"
    /\ UNCHANGED vars

\* The send loop has dropped its end of the feedback channel.
OnClosed ==
    /\ Selecting /\ feedback = <<>> /\ loop = "returned"
    /\ task' = "egressClosed"
    /\ UNCHANGED <<windowVars, readerVars, outbound, feedback, loopVars>>

SlicerNext == Push \/ Drain \/ ReadFails \/ Send \/ OnFeedback \/ OnClosed

-----------------------------------------------------------------------------
(* The send loop, as the slicer sees it.                                    *)

\* recv_many: as much as there is, up to the pacer's budget.
Take ==
    /\ loop = "running" /\ outbound # <<>>
    /\ \E n \in 1 .. Len(outbound) :
       LET batch == SubSeq(outbound, 1, n) IN
       /\ outbound' = SubSeq(outbound, n + 1, Len(outbound))
       /\ taken' = taken \cup (Range(batch) \ {Eof})
       /\ eofTaken' = (eofTaken \/ Eof \in Range(batch))
    /\ UNCHANGED <<windowVars, readerVars, task, feedback, loop, result,
                   covering, needed, covers, resends>>

Tell(m) ==
    /\ loop = "running" /\ feedback' = Append(feedback, m)
    /\ UNCHANGED <<windowVars, readerVars, task, outbound, loop, result, taken,
                   eofTaken>>

TakenOf(s) == {m.slot : m \in {x \in taken : x.slice = s}}

BlocksIn(s) ==
    IF (s + 1) * BlocksPerSlice <= SourceBlocks THEN BlocksPerSlice
    ELSE SourceBlocks - s * BlocksPerSlice

\* Every participant may have written slice s once BlocksIn(s) shards of it
\* went out; the group then needs slices from a later one on.
TellNeeded ==
    /\ \E n \in (needed + 1) .. Cardinality(Slices) :
       /\ \A s \in 0 .. (n - 1) :
             /\ BlocksIn(s) > 0 /\ Cardinality(TakenOf(s)) >= BlocksIn(s)
       /\ needed' = n
       /\ Tell([kind |-> "needed", slice |-> n])
    /\ UNCHANGED <<covering, covers, resends>>

TellCover ==
    /\ covers < MaxCovers /\ covers' = covers + 1
    /\ \E w \in Widths \ {covering} :
          covering' = w /\ Tell([kind |-> "cover", width |-> w])
    /\ UNCHANGED <<needed, resends>>

\* A Nak names a slice below a floor that was sent, or any one after Done.
\* It asks for data slots only.
TellResend ==
    /\ resends < MaxResends /\ resends' = resends + 1
    /\ \E s \in Slices, slots \in SUBSET DataSlots \ {{}} :
       /\ s >= needed
       /\ eofTaken \/ \E m \in taken : s < m.floor
       /\ Tell([kind |-> "resend", slice |-> s, slots |-> slots])
    /\ UNCHANGED <<needed, covering, covers>>

\* The loop ends with a result of its own: it says Done and waits for the
\* slicer, the receiving end of outbound still open.
Finish ==
    /\ loop = "running"
    /\ loop' = "joining"
    /\ \/ result' = "noParticipants"
       \/ eofTaken /\ result' \in {"ok", "incomplete"}
    /\ feedback' = Append(feedback, [kind |-> "done"])
    /\ UNCHANGED <<windowVars, readerVars, task, outbound, covering, needed,
                   taken, eofTaken, covers, resends>>

\* recv_many returns 0: the slicer is gone and the channel is empty.
FindClosed ==
    /\ loop = "running" /\ outbound = <<>> /\ task # "running"
    /\ loop' = "joining" /\ result' = "egressClosed"
    /\ UNCHANGED <<windowVars, readerVars, task, outbound, feedback, covering,
                   needed, taken, eofTaken, covers, resends>>

Joined ==
    /\ loop = "joining" /\ task # "running"
    /\ loop' = "returned"
    /\ UNCHANGED <<windowVars, readerVars, task, outbound, feedback, result,
                   covering, needed, taken, eofTaken, covers, resends>>

\* A socket operation fails: send_stream returns at once, both channels
\* closed on its side.
SocketFails ==
    /\ loop = "running"
    /\ loop' = "returned" /\ result' = "ioError" /\ outbound' = <<>>
    /\ UNCHANGED <<windowVars, readerVars, task, feedback, covering, needed,
                   taken, eofTaken, covers, resends>>

LoopNext ==
    \/ Take \/ TellNeeded \/ TellCover \/ TellResend
    \/ Finish \/ FindClosed \/ Joined \/ SocketFails

Over == loop = "returned" /\ task # "running" /\ UNCHANGED vars

Next == SlicerNext \/ LoopNext \/ Over

Spec == Init /\ [][Next]_vars

\* Every task is polled again and both branches of each select are eventually
\* taken; the loop takes what is queued and learns what was written.
Fairness ==
    /\ WF_vars(Push \/ Drain) /\ WF_vars(Send)
    /\ WF_vars(OnFeedback) /\ WF_vars(OnClosed)
    /\ WF_vars(Take) /\ WF_vars(TellNeeded)
    /\ WF_vars(FindClosed) /\ WF_vars(Joined)

FairSpec == Spec /\ Fairness

-----------------------------------------------------------------------------
(* Properties.                                                              *)

\* The channel respects its capacity and the window its limit, and everything
\* has its type.
TypeOK ==
    /\ current \in Live /\ live \in Seq(Live) /\ Len(live) <= MaxLiveSlices
    /\ wanted \in Widths /\ emitFloor \in Nat /\ blocksRead \in 0 .. SourceBlocks
    /\ drained \in BOOLEAN /\ unsent \in Seq(Shard \cup {Eof})
    /\ floorAfter \in Nat
    /\ task \in {"running", "done", "fileError", "egressClosed"}
    /\ outbound \in Seq(Shard \cup {Eof}) /\ Len(outbound) <= Capacity
    /\ loop \in {"running", "joining", "returned"}
    /\ result \in {"none", "noParticipants", "ok", "incomplete",
                   "egressClosed", "ioError"}
    /\ covering \in Widths /\ needed \in Nat /\ taken \subseteq Shard
    /\ eofTaken \in BOOLEAN

\* Everything a receiver may hold of a slice names one width, first shards and
\* resent ones: the decoder is built from whichever comes first.
WidthsAgree ==
    LET shards == taken \cup ((Range(outbound) \cup Range(unsent)) \ {Eof}) IN
    \A a, b \in shards : a.slice = b.slice => a.width = b.width

\* All of a slice: its blocks and as many recovery shards as it has.
WhollyTaken(s) ==
    \E width \in Widths :
        /\ \A m \in taken : m.slice = s => m.width = width
        /\ (0 .. (BlocksIn(s) - 1)) \cup
           (BlocksPerSlice .. (BlocksPerSlice + width - 1)) \subseteq TakenOf(s)

\* A shard's emit_floor, and Eof, come after the last shard of every slice
\* they announce, parity included, however the channel and resends mix them.
FloorIsSound ==
    \A s \in Slices :
        (\E m \in taken : s < m.floor) \/ (eofTaken /\ BlocksIn(s) > 0)
            => WhollyTaken(s)

\* What a participant may still ask to have resent is in the window.
NeededIsLive ==
    task = "running" => \A s \in needed .. (current.no - 1) : SliceOf(s) # {}

\* A failing source never passes for a short one, although its error is dropped
\* with the slicer's result (sender.rs:352): send_stream then says EgressClosed,
\* which means nothing else, and a result that counts on the end of the stream
\* is given only after all of the source was read and taken.
ReadErrorsShow ==
    /\ result = "egressClosed" => task = "fileError" /\ ~eofTaken
    /\ result \in {"ok", "incomplete"} =>
          /\ task # "fileError"
          /\ \A s \in Slices : BlocksIn(s) > 0 => WhollyTaken(s)

\* The two tasks never wait for each other: the source is sent to its end
\* unless one of them ends first.
StreamIsSent == <>(eofTaken \/ loop # "running" \/ task # "running")

\* When send_stream leaves early, the slicer it spawned does not outlive it.
SlicerEnds == (loop = "returned") ~> (task # "running")

\* The slicer's window is that of SliceWindow, however its messages and the
\* loop's cross on the two channels.
Window == INSTANCE SliceWindow
    WITH sealed <- current.no, filled <- current.blocks,
         first <- current.no - Len(live), ended <- drained, floor <- emitFloor
ImplementsWindow == Window!WindowSpec

-----------------------------------------------------------------------------
(* What the repository's own texts say and the code does not do.            *)

\* send.rs of the CLI, --wait: "Seconds to wait for receivers to join, and
\* afterwards for stragglers to finish": a send that has its result returns it.
ShutdownCompletes == (loop = "joining") ~> (loop = "returned")
=============================================================================
