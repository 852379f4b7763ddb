------------------------------- MODULE Session -------------------------------
(***************************************************************************)
(* One receiver's way from datagrams to bytes: the Session task with its    *)
(* Assembler, the bounded channel to the sink, and the pump that writes the *)
(* file, while recv_to waits for both.                                      *)
(*                                                                         *)
(* The session takes arrivals in batches, hands over once per turn of its   *)
(* loop, and offers blocks one by one to a channel the pump empties at the  *)
(* same time.  A block is its number in the stream and its length.  The     *)
(* sender and the network are a source of real shards, in any order, any    *)
(* of them lost or repeated; what the session says to the sender (Join,     *)
(* Stats, Nak, Leave) is in Transfer.tla, and leaves here only how far the  *)
(* sender's window may have moved.                                          *)
(***************************************************************************)
EXTENDS Integers, Sequences, FiniteSets

CONSTANTS
    BlockSize,       \* bytes of a block
    BlocksPerSlice,
    Parity,          \* recovery slots of a slice
    MaxLiveSlices,
    TotalBytes,      \* bytes of the stream
    SinkCapacity,    \* BLOCK_CHANNEL_CAPACITY
    SinkMayFail,     \* whether writing the file may fail
    MaxBatch         \* bound: arrivals of one recv_batch

ASSUME SessionAssumption ==
    /\ BlockSize \in Nat \ {0} /\ BlocksPerSlice \in Nat \ {0}
    /\ Parity \in Nat /\ MaxLiveSlices \in Nat \ {0} /\ TotalBytes \in Nat
    /\ SinkCapacity \in Nat \ {0} /\ SinkMayFail \in BOOLEAN
    /\ MaxBatch \in Nat \ {0}

\* The smallest n with n * b >= a.
DivCeil(a, b) == (a + b - 1) \div b

TotalBlocks == DivCeil(TotalBytes, BlockSize)
SliceCount == DivCeil(TotalBlocks, BlocksPerSlice)
Slices == 0 .. (SliceCount - 1)
DataSlots == 0 .. (BlocksPerSlice - 1)
Slots == 0 .. (BlocksPerSlice + Parity - 1)

AtMost(a, b) == IF a < b THEN a ELSE b

BlocksIn(s) == AtMost(BlocksPerSlice, TotalBlocks - s * BlocksPerSlice)

Block == [no : Nat, bytes : 0 .. BlockSize]

\* The source, block by block; only the last one may be short.
Source == [i \in 1 .. TotalBlocks |->
             [no |-> i - 1,
              bytes |-> AtMost(BlockSize, TotalBytes - (i - 1) * BlockSize)]]

VARIABLES
    \* The session and its assembler.
    at,            \* "select", "arrivals" or "handover"
    arrivals,      \* the rest of the batch
    held,          \* slots held of each slice
    nextNeeded,
    done,          \* Done was heard: total_blocks and total_bytes are known
    pending,       \* blocks the sink had no room for
    writtenBytes,
    task,          \* "running", or how Session::run returned
    reported,      \* next_needed of the latest Stats
    \* The sink.
    channel,       \* at most SinkCapacity blocks
    file,          \* the blocks written
    caller         \* "pumping", or what recv_to returned

assemblerVars == <<held, nextNeeded, done>>
sinkVars == <<channel, file, caller>>
vars == <<at, arrivals, assemblerVars, pending, writtenBytes, task, reported,
          sinkVars>>

AssemblerInit ==
    held = [s \in Slices |-> {}] /\ nextNeeded = 0 /\ done = FALSE

Init ==
    /\ AssemblerInit
    /\ at = "select" /\ arrivals = <<>>
    /\ pending = <<>> /\ writtenBytes = 0
    /\ task = "running" /\ reported = 0
    /\ channel = <<>> /\ file = <<>> /\ caller = "pumping"

-----------------------------------------------------------------------------
(* What may arrive: shards of the slices the sender's window has reached,   *)
(* Done once it has reached the last, Evicted whenever the sender tires.    *)

WindowEnd == AtMost(SliceCount, reported + MaxLiveSlices)

ShardsEmitted ==
    {[kind |-> "shard", slice |-> x[1], slot |-> x[2]] :
        x \in {y \in (0 .. (WindowEnd - 1)) \X Slots :
                  y[2] < BlocksPerSlice => y[2] < BlocksIn(y[1])}}

Control ==
    (IF WindowEnd = SliceCount THEN {[kind |-> "done"]} ELSE {})
        \cup {[kind |-> "evicted"]}

Batches == UNION {[1 .. n -> ShardsEmitted \cup Control] : n \in 1 .. MaxBatch}

-----------------------------------------------------------------------------
(* The assembler.                                                           *)

Target(s) == IF done THEN BlocksIn(s) ELSE BlocksPerSlice

IsComplete(s) == held[s] # {} /\ Cardinality(held[s]) >= Target(s)

CanWrite(s) ==
    \/ done
    \/ \E later \in Slices : later > s /\ held[later] # {}
    \/ DataSlots \subseteq held[s]

Finished == done /\ nextNeeded >= SliceCount

\* One past the last slice take_ready takes.
ReadyEnd(end) ==
    /\ end \in nextNeeded .. SliceCount
    /\ \A s \in nextNeeded .. (end - 1) : CanWrite(s) /\ IsComplete(s)
    /\ end < SliceCount => ~(CanWrite(end) /\ IsComplete(end))

\* The blocks of the slices from nextNeeded up to end, padding included that
\* nothing yet tells from data.
Recovered(end) ==
    LET first == nextNeeded * BlocksPerSlice
        past == IF done THEN AtMost(end * BlocksPerSlice, TotalBlocks)
                        ELSE end * BlocksPerSlice
    IN [i \in 1 .. (past - first) |-> first + i - 1]

\* Session::within_total: after Done a block is cut to the bytes that remain,
\* and nothing remains of those beyond the total.
WithinTotal(blocks) ==
    LET room(i) == TotalBytes - writtenBytes - (i - 1) * BlockSize
        kept == IF done THEN {i \in 1 .. Len(blocks) : room(i) > 0}
                        ELSE 1 .. Len(blocks)
    IN [i \in kept |->
          [no |-> blocks[i],
           bytes |-> IF done THEN AtMost(BlockSize, room(i)) ELSE BlockSize]]

\* Their bytes; only the last block of a cut can be short.
Bytes(blocks) ==
    IF blocks = <<>> THEN 0
    ELSE (Len(blocks) - 1) * BlockSize + blocks[Len(blocks)].bytes

-----------------------------------------------------------------------------
(* Session::run.                                                            *)

\* Variant with a fault: the loop ends although blocks are still pending.
ActiveUnlessFinished == task = "running" /\ ~Finished

Active == task = "running" /\ (~Finished \/ pending # <<>>)

Selecting == at = "select" /\ Active

RecvBatch ==
    /\ Selecting
    /\ arrivals' \in Batches /\ at' = "arrivals"
    /\ UNCHANGED <<assemblerVars, pending, writtenBytes, task, reported,
                   sinkVars>>

\* Variant with a fault: the channel takes one block more.
SinkFullLate == Len(channel) > SinkCapacity

SinkFull == Len(channel) >= SinkCapacity

\* Variant with a fault: room in the channel is not waited for.
NeverReserved == Selecting /\ UNCHANGED vars

\* sink.reserve() resolves: there is room, or nobody to write to.
Reserve ==
    /\ Selecting /\ pending # <<>>
    /\ ~SinkFull \/ caller # "pumping"
    /\ at' = "arrivals"
    /\ UNCHANGED <<arrivals, assemblerVars, pending, writtenBytes, task,
                   reported, sinkVars>>

StatsTick ==
    /\ Selecting
    /\ reported' = nextNeeded /\ at' = "arrivals"
    /\ UNCHANGED <<arrivals, assemblerVars, pending, writtenBytes, task,
                   sinkVars>>

GoSilent ==
    /\ Selecting /\ ~Finished
    /\ task' = "senderSilent"
    /\ UNCHANGED <<at, arrivals, assemblerVars, pending, writtenBytes,
                   reported, sinkVars>>

\* Assembler::insert: what is below next_needed was written, what is beyond
\* the window is refused.
Insert(m) ==
    IF nextNeeded <= m.slice /\ m.slice < nextNeeded + MaxLiveSlices
    THEN held' = [held EXCEPT ![m.slice] = @ \cup {m.slot}]
    ELSE UNCHANGED held

\* An arrival of the batch; no block is handed over before the last one.
OnArrival ==
    /\ task = "running" /\ at = "arrivals" /\ arrivals # <<>>
    /\ arrivals' = Tail(arrivals)
    /\ LET m == Head(arrivals) IN
       \/ /\ m.kind = "shard" /\ Insert(m)
          /\ UNCHANGED <<done, task>>
       \/ /\ m.kind = "done" /\ done' = TRUE
          /\ UNCHANGED <<held, task>>
       \/ /\ m.kind = "evicted" /\ task' = "evicted"
          /\ UNCHANGED <<held, done>>
    /\ UNCHANGED <<at, nextNeeded, pending, writtenBytes, reported, sinkVars>>

\* Variant with a fault: slices are taken though blocks are still pending.
NeverBehind == FALSE

\* Whether hand_over leaves the assembler alone.
SinkBehind == pending # <<>>

\* The first half of hand_over: unless blocks are pending, all that is ready.
TakeReady ==
    /\ task = "running" /\ at = "arrivals" /\ arrivals = <<>>
    /\ at' = "handover"
    /\ IF SinkBehind THEN UNCHANGED <<held, nextNeeded, pending, writtenBytes>>
       ELSE \E end \in 0 .. SliceCount :
            LET blocks == WithinTotal(Recovered(end)) IN
            /\ ReadyEnd(end) /\ nextNeeded' = end
            /\ held' = [s \in Slices |-> IF s < end THEN {} ELSE held[s]]
            /\ pending' = pending \o blocks
            /\ writtenBytes' = writtenBytes + Bytes(blocks)
    /\ UNCHANGED <<arrivals, done, task, reported, sinkVars>>

\* Variant with a fault: a block the channel refused goes to the end.
PutBackLast(refused, rest) == Append(rest, refused)

\* A block the channel refused goes back to the front of pending.
PutBack(refused, rest) == <<refused>> \o rest

\* The second half, block by block: a full channel ends the turn.
TrySend ==
    /\ task = "running" /\ at = "handover"
    /\ \/ /\ pending = <<>>
          /\ at' = "select" /\ UNCHANGED <<pending, task, channel>>
       \/ /\ pending # <<>> /\ caller # "pumping"
          /\ task' = "sinkClosed" /\ UNCHANGED <<at, pending, channel>>
       \/ /\ pending # <<>> /\ caller = "pumping" /\ SinkFull
          /\ at' = "select"
          /\ pending' = PutBack(Head(pending), Tail(pending))
          /\ UNCHANGED <<task, channel>>
       \/ /\ pending # <<>> /\ caller = "pumping" /\ ~SinkFull
          /\ channel' = Append(channel, Head(pending))
          /\ pending' = Tail(pending)
          /\ UNCHANGED <<at, task>>
    /\ UNCHANGED <<arrivals, assemblerVars, writtenBytes, reported, file,
                   caller>>

ByteTotal == IF writtenBytes = TotalBytes THEN "ok" ELSE "byteCountMismatch"

\* The loop has ended; check_byte_total decides.
Return ==
    /\ task = "running" /\ at = "select" /\ ~Active
    /\ task' = ByteTotal
    /\ UNCHANGED <<at, arrivals, assemblerVars, pending, writtenBytes,
                   reported, sinkVars>>

SessionNext ==
    \/ RecvBatch \/ Reserve \/ StatsTick \/ GoSilent
    \/ OnArrival \/ TakeReady \/ TrySend \/ Return

-----------------------------------------------------------------------------
(* The pump, and recv_to around it; or a caller of recv_stream, who takes   *)
(* blocks as the pump does and may finish before the last one.              *)

PumpWrite ==
    /\ caller = "pumping" /\ channel # <<>>
    /\ file' = Append(file, Head(channel)) /\ channel' = Tail(channel)
    /\ UNCHANGED <<at, arrivals, assemblerVars, pending, writtenBytes, task,
                   reported, caller>>

\* A write, or the flush after the last one, fails: recv_to returns, the
\* session is on its own.
PumpFails ==
    /\ SinkMayFail /\ caller = "pumping"
    /\ channel # <<>> \/ task # "running"
    /\ caller' = "fileError" /\ channel' = <<>>
    /\ UNCHANGED <<at, arrivals, assemblerVars, pending, writtenBytes, task,
                   reported, file>>

\* The session has dropped its end and the channel is empty.
PumpEnds ==
    /\ caller = "pumping" /\ channel = <<>> /\ task # "running"
    /\ caller' = task
    /\ UNCHANGED <<at, arrivals, assemblerVars, pending, writtenBytes, task,
                   reported, channel, file>>

\* Transfer::finish drops the channel with what is in it, then waits for the
\* session.
FinishEarly ==
    /\ caller = "pumping"
    /\ caller' = "finishing" /\ channel' = <<>>
    /\ UNCHANGED <<at, arrivals, assemblerVars, pending, writtenBytes, task,
                   reported, file>>

FinishEnds ==
    /\ caller = "finishing" /\ task # "running"
    /\ caller' = "finished"
    /\ UNCHANGED <<at, arrivals, assemblerVars, pending, writtenBytes, task,
                   reported, channel, file>>

PumpNext ==
    \/ PumpWrite \/ PumpFails \/ PumpEnds
    \/ FinishEarly \/ FinishEnds

Waiting == caller \in {"pumping", "finishing"}

Over == task # "running" /\ ~Waiting /\ UNCHANGED vars

Next == SessionNext \/ PumpNext \/ Over

Spec == Init /\ [][Next]_vars

\* Both tasks are polled again, and the select takes a branch that stays
\* ready; nothing is assumed of what arrives.
Fairness ==
    /\ WF_vars(OnArrival) /\ WF_vars(TakeReady) /\ WF_vars(TrySend)
    /\ WF_vars(Reserve) /\ WF_vars(Return)
    /\ WF_vars(PumpWrite) /\ WF_vars(PumpEnds) /\ WF_vars(FinishEnds)

FairSpec == Spec /\ Fairness

-----------------------------------------------------------------------------
(* Properties.                                                              *)

\* What left the assembler, wherever it is by now.
HandedOver == file \o channel \o pending

\* Everything has its type, and the channel its capacity.
TypeOK ==
    /\ at \in {"select", "arrivals", "handover"}
    /\ Len(arrivals) <= MaxBatch
    /\ held \in [Slices -> SUBSET Slots] /\ nextNeeded \in 0 .. SliceCount
    /\ done \in BOOLEAN
    /\ pending \in Seq(Block) /\ channel \in Seq(Block) /\ file \in Seq(Block)
    /\ Len(channel) <= SinkCapacity
    /\ writtenBytes \in Nat /\ reported \in 0 .. SliceCount
    /\ task \in {"running", "ok", "senderSilent", "byteCountMismatch",
                 "evicted", "sinkClosed"}
    /\ caller \in {"pumping", "finishing", "finished", "fileError", "ok",
                   "senderSilent", "byteCountMismatch", "evicted", "sinkClosed"}

\* recv_to returns Ok only when the file is the source, byte for byte: blocks
\* recovered, pending or still in the channel when the session returns are
\* never left behind, and no padding is written.
OkMeansTheFile == caller = "ok" => file = Source

\* Between assembler and file no block is lost, repeated or overtaken, and
\* written_bytes counts each once, however full the channel is in between.
HandedOverInOrder ==
    caller = "pumping" =>
        /\ \A i \in 1 .. Len(HandedOver) : HandedOver[i].no = i - 1
        /\ Bytes(HandedOver) = writtenBytes

\* A slow sink holds the assembler back, and with it the sender's window: no
\* more is pending than a window's worth of blocks.
PendingIsBounded == Len(pending) <= MaxLiveSlices * BlocksPerSlice

\* What the caller sees is Delivery's: whatever order shards come in and however
\* slow the sink is, the file grows block by block from the front, and each
\* answer says what the file holds.
Caller == INSTANCE Delivery WITH delivered <- file, answer <- caller
ImplementsDelivery == Caller!DeliverySpec

\* Once the assembler has it all, recv_to returns, although the blocks that
\* wait are handed over only as the pump makes room; and so does finish, called
\* while blocks wait that nobody will take.
FinishedReturns == Finished ~> (task # "running" /\ ~Waiting)

-----------------------------------------------------------------------------
(* What the repository's own texts say and the code does not do.            *)

\* assembler.rs, a_full_final_slice_needs_no_help_from_done: a receiver that
\* has written every slice has what the sender read.
FullFinalSliceNeedsNoHelp == task # "byteCountMismatch"
=============================================================================
