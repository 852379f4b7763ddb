---------------------------- MODULE SlicerProofs ----------------------------
(* Proofs about Slicer for every source, every slice geometry, every window  *)
(* and every capacity.                                                      *)
EXTENDS Slicer, QueueLemmas, FiniteSetTheorems

USE SlicerAssumption

-----------------------------------------------------------------------------
(* The inductive invariant.                                                 *)

Message == Shard \cup {Eof}

\* What is queued, and what is still to be.
Stream == outbound \o unsent

FeedbackMessage ==
    [kind : {"needed"}, slice : Nat]
        \cup [kind : {"cover"}, width : Widths]
        \cup [kind : {"resend"}, slice : Slices, slots : SUBSET DataSlots]
        \cup [kind : {"done"}]

\* The types of the slicer's part.
SlicerType ==
    /\ current \in Live /\ live \in Seq(Live) /\ Len(live) <= MaxLiveSlices
    /\ wanted \in Widths /\ emitFloor \in Nat /\ floorAfter \in Nat
    /\ blocksRead \in 0 .. SourceBlocks /\ drained \in BOOLEAN
    /\ unsent \in Seq(Message)
    /\ task \in {"running", "done", "fileError", "egressClosed"}

\* The types of the channels and of the loop's part.
LoopType ==
    /\ outbound \in Seq(Message) /\ Len(outbound) <= Capacity
    /\ feedback \in Seq(FeedbackMessage)
    /\ loop \in {"running", "joining", "returned"}
    /\ result \in {"none", "noParticipants", "ok", "incomplete",
                   "egressClosed", "ioError"}
    /\ covering \in Widths /\ needed \in Nat /\ taken \subseteq Shard
    /\ eofTaken \in BOOLEAN

\* The slice being filled holds the blocks read beyond those of the sealed ones;
\* at the end it is an empty one after the last.
CurrentIsNext ==
    /\ current.blocks < BlocksPerSlice
    /\ ~drained => blocksRead = current.no * BlocksPerSlice + current.blocks
    /\ drained =>
           /\ current.blocks = 0
           /\ SourceBlocks <= current.no * BlocksPerSlice
           /\ current.no # 0 =>
                  (current.no - 1) * BlocksPerSlice < SourceBlocks

\* The window is the latest of the sealed slices, without a gap, and begins no
\* later than with the first that is needed.
WindowIsTail ==
    /\ \A i \in 1 .. Len(live) :
           /\ live[i].no = current.no - Len(live) + i - 1
           /\ live[i].blocks > 0
    /\ current.no - Len(live) <= needed
    /\ \A i \in 1 .. Len(feedback) :
           feedback[i].kind = "needed" => feedback[i].slice <= needed

\* The floor is the slice being filled, once all before it is queued; what is
\* under way announces no more than that, and Eof only the end.
FloorIsCurrent ==
    /\ floorAfter = current.no
    /\ unsent = <<>> => emitFloor = floorAfter
    /\ \A i \in 1 .. Len(Stream) :
           IF Stream[i] = Eof THEN drained ELSE Stream[i].floor <= current.no
    /\ \A m \in taken : m.floor <= current.no
    /\ eofTaken => drained

\* Each slice has one width, W of it, in the window and in all its shards.
WidthIs(W) ==
    /\ current.width = W[current.no]
    /\ \A i \in 1 .. Len(live) : live[i].width = W[live[i].no]
    /\ \A m \in taken : m.slice <= current.no /\ m.width = W[m.slice]
    /\ \A i \in 1 .. Len(Stream) : Stream[i] # Eof =>
           /\ Stream[i].slice <= current.no
           /\ Stream[i].width = W[Stream[i].slice]

\* The slots of a slice that is sealed.
AllSlots(W, s) ==
    (0 .. (BlocksIn(s) - 1))
        \cup (BlocksPerSlice .. (BlocksPerSlice + W[s] - 1))

\* A shard for slot x of slice s.
IsShard(m, s, x) == m # Eof /\ m.slice = s /\ m.slot = x

\* Such a shard is among those taken, or stands in the stream before place i.
OutBefore(shards, stream, i, s, x) ==
    \/ \E m \in shards : IsShard(m, s, x)
    \/ \E j \in 1 .. Len(stream) : j < i /\ IsShard(stream[j], s, x)

\* Slice s is announced as complete.
Announces(m, s) == IF m = Eof THEN BlocksIn(s) > 0 ELSE s < m.floor

\* Whatever announces a slice stands behind all of it; all of the slices before
\* no is out or in the stream, and so are the first blocks of slice no.
Ordered(shards, stream, W, no, blocks) ==
    /\ \A i \in 1 .. Len(stream), s \in Nat :
           Announces(stream[i], s) =>
               \A x \in AllSlots(W, s) : OutBefore(shards, stream, i, s, x)
    /\ \A s \in Nat : s < no =>
           \A x \in AllSlots(W, s) :
               OutBefore(shards, stream, Len(stream) + 1, s, x)
    /\ \A x \in Nat : x < blocks =>
           OutBefore(shards, stream, Len(stream) + 1, no, x)

\* That holds as long as the loop takes.
OrderIsKept(W) ==
    loop = "running" =>
        Ordered(taken, Stream, W, current.no, current.blocks)

\* What was announced to a receiver was taken.
Whole(shards, W, s) ==
    \A x \in AllSlots(W, s) : \E m \in shards : IsShard(m, s, x)

TakenIsWhole(W) ==
    /\ \A m \in taken, s \in Nat : s < m.floor => Whole(taken, W, s)
    /\ eofTaken => \A s \in Nat : BlocksIn(s) > 0 => Whole(taken, W, s)

QueueInv ==
    SlicerType /\ LoopType /\ CurrentIsNext /\ WindowIsTail /\ FloorIsCurrent

WidthInv(W) == WidthIs(W) /\ OrderIsKept(W) /\ TakenIsWhole(W)

SlicerInv == QueueInv /\ \E W \in [Nat -> Widths] : WidthInv(W)

-----------------------------------------------------------------------------
(* Slices and their blocks.                                                 *)

\* Products grow with their factors, and a step is one factor.
LEMMA ProductGrows ==
    ASSUME NEW a \in Nat, NEW b \in Nat, NEW c \in Nat, a <= b
    PROVE  /\ a * c \in Nat /\ b * c \in Nat /\ a * c <= b * c
           /\ (a + 1) * c = a * c + c
<1> DEFINE d == b - a
<1>1. d \in Nat /\ b = a + d
    OBVIOUS
<1>2. b * c = a * c + d * c /\ d * c \in Nat /\ a * c \in Nat
    BY <1>1
<1> QED BY <1>2

\* A slice that begins within the source is one of Slices.
LEMMA SliceWithin ==
    ASSUME NEW s \in Nat, s * BlocksPerSlice <= SourceBlocks
    PROVE  s \in Slices
<1> DEFINE q == SourceBlocks \div BlocksPerSlice
<1>1. /\ q \in Nat /\ (q + 1) * BlocksPerSlice \in Nat
      /\ SourceBlocks < (q + 1) * BlocksPerSlice
    OBVIOUS
<1> HIDE DEF q
<1>2. ASSUME q < s PROVE FALSE
    <2>1. (q + 1) * BlocksPerSlice <= s * BlocksPerSlice
        BY <1>1, <1>2, ProductGrows, q + 1 \in Nat, q + 1 <= s
    <2> QED BY <1>1, <2>1, s * BlocksPerSlice \in Nat
<1>3. s <= q
    BY <1>1, <1>2
<1> QED BY <1>1, <1>3 DEF Slices, q

\* How many blocks a slice has.
LEMMA BlocksInBounds ==
    ASSUME NEW s \in Nat
    PROVE  /\ s * BlocksPerSlice \in Nat
           /\ BlocksIn(s) \in Int /\ BlocksIn(s) <= BlocksPerSlice
           /\ BlocksIn(s) > 0 <=> s * BlocksPerSlice < SourceBlocks
           /\ (s + 1) * BlocksPerSlice = s * BlocksPerSlice + BlocksPerSlice
           /\ BlocksIn(s) <= SourceBlocks - s * BlocksPerSlice
<1>1. /\ s * BlocksPerSlice \in Nat
      /\ (s + 1) * BlocksPerSlice = s * BlocksPerSlice + BlocksPerSlice
    BY ProductGrows, s <= s
<1> QED BY <1>1 DEF BlocksIn

\* Of the slices before one that has not been begun.
LEMMA SealedBefore ==
    ASSUME NEW s \in Nat, NEW no \in Nat, SourceBlocks <= no * BlocksPerSlice,
           BlocksIn(s) > 0
    PROVE  s < no
<1>1. s * BlocksPerSlice < SourceBlocks
    BY BlocksInBounds
<1>2. ASSUME no <= s PROVE FALSE
    <2>1. no * BlocksPerSlice <= s * BlocksPerSlice
        BY <1>2, ProductGrows
    <2> QED BY <1>1, <2>1, no * BlocksPerSlice \in Nat,
               s * BlocksPerSlice \in Nat
<1> QED BY <1>2

\* The slice being filled is one of Slices while the source lasts, and as long
\* as it has blocks.
LEMMA CurrentWithin ==
    ASSUME QueueInv, ~drained
    PROVE  /\ current.no \in Slices /\ current.no \in Nat
           /\ current.blocks \in Nat
           /\ current.no * BlocksPerSlice \in Nat
<1>1. /\ current.no \in Nat /\ current.blocks \in Nat
      /\ blocksRead = current.no * BlocksPerSlice + current.blocks
      /\ blocksRead \in 0 .. SourceBlocks
    BY DEF QueueInv, SlicerType, CurrentIsNext, Live
<1>2. current.no * BlocksPerSlice \in Nat
    BY <1>1, ProductGrows, current.no <= current.no
<1> QED BY <1>1, <1>2, SliceWithin

\* Every sealed slice begins within the source.
LEMMA SealedWithin ==
    ASSUME QueueInv, NEW s \in Nat, s < current.no
    PROVE  s \in Slices
<1>1. current.no \in Nat /\ blocksRead \in 0 .. SourceBlocks
      /\ current.blocks \in Nat
    BY DEF QueueInv, SlicerType, Live
<1>2. CASE drained
    <2>1. current.no - 1 \in Nat /\ s <= current.no - 1
          /\ (current.no - 1) * BlocksPerSlice < SourceBlocks
        BY <1>1, <1>2 DEF QueueInv, CurrentIsNext
    <2>2. s * BlocksPerSlice <= (current.no - 1) * BlocksPerSlice
          /\ s * BlocksPerSlice \in Nat
          /\ (current.no - 1) * BlocksPerSlice \in Nat
        BY <2>1, ProductGrows
    <2> QED BY <2>1, <2>2, SliceWithin
<1>3. CASE ~drained
    <2>1. current.no * BlocksPerSlice <= SourceBlocks
          /\ current.no * BlocksPerSlice \in Nat
        BY <1>1, <1>3, CurrentWithin DEF QueueInv, CurrentIsNext
    <2>2. s * BlocksPerSlice <= current.no * BlocksPerSlice
          /\ s * BlocksPerSlice \in Nat
        BY <1>1, ProductGrows
    <2> QED BY <2>1, <2>2, SliceWithin
<1> QED BY <1>2, <1>3

-----------------------------------------------------------------------------
(* The order of the stream.                                                 *)

\* What stands before a place stands before any later one, and in any longer
\* stream.
LEMMA OutLater ==
    ASSUME NEW shards, NEW st \in Seq(Message), NEW ms \in Seq(Message),
           NEW i \in Int, NEW k \in Int, i <= k, NEW s, NEW x,
           OutBefore(shards, st, i, s, x)
    PROVE  OutBefore(shards, st \o ms, k, s, x)
<1>1. CASE \E m \in shards : IsShard(m, s, x)
    BY <1>1 DEF OutBefore
<1>2. ASSUME NEW j \in 1 .. Len(st), j < i, IsShard(st[j], s, x)
      PROVE  OutBefore(shards, st \o ms, k, s, x)
    <2>1. /\ j \in 1 .. Len(st \o ms) /\ (st \o ms)[j] = st[j]
        BY <1>2, ConcatProperties, LenProperties
    <2>2. j < k
        BY <1>2, LenProperties
    <2> QED BY <1>2, <2>1, <2>2 DEF OutBefore
<1> QED BY <1>1, <1>2 DEF OutBefore

\* The i-th of the messages queued stands behind all that is in the stream.
LEMMA OutQueued ==
    ASSUME NEW shards, NEW st \in Seq(Message), NEW ms \in Seq(Message),
           NEW i \in 1 .. Len(ms), NEW k \in Int, Len(st) + i < k,
           NEW s, NEW x, IsShard(ms[i], s, x)
    PROVE  OutBefore(shards, st \o ms, k, s, x)
<1> DEFINE j == Len(st) + i
<1>1. /\ j \in 1 .. Len(st \o ms) /\ (st \o ms)[j] = ms[i]
    <2>1. Len(st) \in Nat /\ Len(ms) \in Nat
        BY LenProperties
    <2>2. j \in 1 .. Len(st) + Len(ms) /\ ~(j <= Len(st)) /\ j - Len(st) = i
        BY <2>1
    <2> HIDE DEF j
    <2> QED BY <2>2, ConcatProperties
<1> QED BY <1>1 DEF OutBefore

\* Messages that are queued announce what is before no, or all at the end.
LEMMA OrderedQueue ==
    ASSUME NEW shards, NEW st \in Seq(Message), NEW ms \in Seq(Message),
           NEW W, NEW V, NEW no \in Nat, NEW blocks \in Nat,
           NEW no2 \in Nat, NEW blocks2 \in Nat,
           Ordered(shards, st, W, no, blocks),
           \A s \in Nat : s < no => V[s] = W[s],
           \A i \in 1 .. Len(st), s \in Nat : Announces(st[i], s) =>
               V[s] = W[s],
           \A i \in 1 .. Len(ms) : ms[i] # Eof => ms[i].floor = no,
           \A s \in Nat : s >= no /\ s < no2 =>
               \A x \in AllSlots(V, s) :
                   OutBefore(shards, st \o ms, Len(st \o ms) + 1, s, x),
           \A x \in Nat : x < blocks2 =>
               OutBefore(shards, st \o ms, Len(st \o ms) + 1, no2, x),
           \A i \in 1 .. Len(ms) : ms[i] = Eof =>
               \A s \in Nat : BlocksIn(s) > 0 =>
                   \A x \in AllSlots(V, s) :
                       OutBefore(shards, st \o ms, Len(st) + i, s, x)
    PROVE  Ordered(shards, st \o ms, V, no2, blocks2)
<1> DEFINE sm == st \o ms
<1>1. /\ Len(st) \in Nat /\ Len(ms) \in Nat
      /\ Len(sm) = Len(st) + Len(ms)
      /\ \A i \in 1 .. Len(st) : sm[i] = st[i]
      /\ \A i \in Len(st) + 1 .. Len(st) + Len(ms) : sm[i] = ms[i - Len(st)]
    BY ConcatProperties, LenProperties
<1>2. ASSUME NEW s \in Nat, s < no, NEW x \in AllSlots(V, s), NEW k \in Int,
             Len(st) + 1 <= k
      PROVE  OutBefore(shards, sm, k, s, x)
    <2>1. x \in AllSlots(W, s)
        BY <1>2 DEF AllSlots
    <2>2. OutBefore(shards, st, Len(st) + 1, s, x)
        BY <1>2, <2>1 DEF Ordered
    <2> QED BY <1>1, <1>2, <2>2, OutLater
<1>3. ASSUME NEW i \in 1 .. Len(sm), NEW s \in Nat, Announces(sm[i], s),
             NEW x \in AllSlots(V, s)
      PROVE  OutBefore(shards, sm, i, s, x)
    <2>1. CASE i <= Len(st)
        <3>1. i \in 1 .. Len(st) /\ sm[i] = st[i]
            BY <1>1, <1>3, <2>1
        <3>2. x \in AllSlots(W, s)
            BY <1>3, <3>1 DEF AllSlots
        <3>3. OutBefore(shards, st, i, s, x)
            BY <1>3, <3>1, <3>2 DEF Ordered
        <3> QED BY <3>1, <3>3, OutLater
    <2>2. CASE i > Len(st)
        <3> DEFINE j == i - Len(st)
        <3>1. j \in 1 .. Len(ms) /\ sm[i] = ms[j] /\ i = Len(st) + j
            BY <1>1, <1>3, <2>2
        <3> HIDE DEF j, sm
        <3>2. CASE ms[j] = Eof
            <4>1. BlocksIn(s) > 0
                BY <1>3, <3>1, <3>2 DEF Announces
            <4> QED BY <1>3, <3>1, <3>2, <4>1 DEF sm
        <3>3. CASE ms[j] # Eof
            <4>1. s < no
                BY <1>3, <3>1, <3>3 DEF Announces
            <4> QED BY <1>1, <1>2, <1>3, <2>2, <4>1
        <3> QED BY <3>2, <3>3
    <2> QED BY <1>1, <1>3, <2>1, <2>2
<1>4. ASSUME NEW s \in Nat, s < no2, NEW x \in AllSlots(V, s)
      PROVE  OutBefore(shards, sm, Len(sm) + 1, s, x)
    <2>1. CASE s < no
        BY <1>1, <1>2, <1>4, <2>1, Len(st) + 1 <= Len(sm) + 1
    <2>2. CASE s >= no
        BY <1>4, <2>2
    <2> QED BY <2>1, <2>2
<1> QED BY <1>3, <1>4 DEF Ordered

\* What the loop takes from the front of the stream.
LEMMA OrderedTake ==
    ASSUME NEW shards, NEW st \in Seq(Message), NEW more, NEW rest,
           NEW W, NEW no \in Nat, NEW blocks \in Nat, NEW n \in 1 .. Len(st),
           Ordered(shards, st, W, no, blocks),
           shards \subseteq more,
           \A i \in 1 .. n : st[i] # Eof => st[i] \in more,
           Len(rest) = Len(st) - n,
           \A i \in 1 .. Len(rest) : rest[i] = st[i + n]
    PROVE  Ordered(more, rest, W, no, blocks)
<1>0. Len(st) \in Nat /\ n \in Nat /\ Len(rest) \in Nat
    BY LenProperties
<1>1. ASSUME NEW i \in 1 .. Len(rest) + 1, NEW s, NEW x,
             OutBefore(shards, st, i + n, s, x)
      PROVE  OutBefore(more, rest, i, s, x)
    <2>1. CASE \E m \in shards : IsShard(m, s, x)
        BY <2>1 DEF OutBefore
    <2>2. ASSUME NEW j \in 1 .. Len(st), j < i + n, IsShard(st[j], s, x)
          PROVE  OutBefore(more, rest, i, s, x)
        <3>1. CASE j <= n
            BY <1>0, <2>2, <3>1 DEF OutBefore, IsShard
        <3>2. CASE j > n
            <4>1. j - n \in 1 .. Len(rest) /\ j - n < i
                  /\ rest[j - n] = st[j]
                BY SMTT(30), <1>0, <1>1, <2>2, <3>2
            <4> QED BY <2>2, <4>1 DEF OutBefore
        <3> QED BY <1>0, <2>2, <3>1, <3>2
    <2> QED BY <1>1, <2>1, <2>2 DEF OutBefore
<1>2. ASSUME NEW i \in 1 .. Len(rest), NEW s \in Nat, Announces(rest[i], s),
             NEW x \in AllSlots(W, s)
      PROVE  OutBefore(more, rest, i, s, x)
    <2>1. i + n \in 1 .. Len(st) /\ rest[i] = st[i + n]
          /\ i \in 1 .. Len(rest) + 1
        BY <1>0, <1>2
    <2>2. OutBefore(shards, st, i + n, s, x)
        BY <1>2, <2>1 DEF Ordered
    <2> QED BY <1>1, <2>1, <2>2
<1>3. Len(rest) + 1 \in 1 .. Len(rest) + 1 /\ Len(rest) + 1 + n = Len(st) + 1
    BY SMTT(30), <1>0
<1>4. ASSUME NEW s \in Nat, NEW x, OutBefore(shards, st, Len(st) + 1, s, x)
      PROVE  OutBefore(more, rest, Len(rest) + 1, s, x)
    BY <1>1, <1>3, <1>4
<1> QED BY <1>2, <1>4 DEF Ordered

\* And it has taken all that what it took announces.
LEMMA TakenOrdered ==
    ASSUME NEW shards, NEW st \in Seq(Message), NEW more,
           NEW W, NEW no \in Nat, NEW blocks \in Nat, NEW n \in 1 .. Len(st),
           Ordered(shards, st, W, no, blocks),
           shards \subseteq more,
           \A i \in 1 .. n : st[i] # Eof => st[i] \in more,
           NEW i \in 1 .. n, NEW s \in Nat, Announces(st[i], s)
    PROVE  Whole(more, W, s)
<1> SUFFICES ASSUME NEW x \in AllSlots(W, s)
             PROVE  \E m \in more : IsShard(m, s, x)
    BY DEF Whole
<1>1. i \in 1 .. Len(st) /\ Len(st) \in Nat
    BY LenProperties
<1>2. OutBefore(shards, st, i, s, x)
    BY <1>1 DEF Ordered
<1>3. ASSUME NEW j \in 1 .. Len(st), j < i, IsShard(st[j], s, x)
      PROVE  \E m \in more : IsShard(m, s, x)
    BY <1>1, <1>3, j \in 1 .. n DEF IsShard
<1> QED BY <1>2, <1>3 DEF OutBefore

-----------------------------------------------------------------------------
(* What is queued.                                                          *)

\* No shard is Eof.
LEMMA ShardIsNotEof ==
    ASSUME NEW m \in Shard
    PROVE  m # Eof
<1>1. "slice" \in DOMAIN m /\ "slice" \notin DOMAIN Eof
    BY DEF Shard, Eof
<1> QED BY <1>1

\* The shard of a slot.
LEMMA ShardOfType ==
    ASSUME SlicerType, NEW slice \in Live, slice.no \in Slices,
           NEW x \in Slots
    PROVE  /\ ShardOf(slice, x) \in Shard /\ ShardOf(slice, x) # Eof
           /\ ShardOf(slice, x).slice = slice.no
           /\ ShardOf(slice, x).slot = x
           /\ ShardOf(slice, x).width = slice.width
           /\ ShardOf(slice, x).floor = emitFloor
           /\ IsShard(ShardOf(slice, x), slice.no, x)
<1>1. ShardOf(slice, x) \in Shard
    BY DEF SlicerType, Live, Shard, ShardOf
<1> QED BY <1>1, ShardIsNotEof DEF ShardOf, IsShard

\* The recovery shards of a slice.
LEMMA ParityOfType ==
    ASSUME SlicerType, NEW slice \in Live, slice.no \in Slices
    PROVE  /\ ParityOf(slice) \in Seq(Message)
           /\ Len(ParityOf(slice)) = slice.width
           /\ \A i \in 1 .. slice.width :
                  /\ BlocksPerSlice + i - 1 \in Slots
                  /\ ParityOf(slice)[i] = ShardOf(slice, BlocksPerSlice + i - 1)
<1>1. slice.width \in Nat /\ slice.width <= MaxParity
    BY DEF Live, Widths
<1>2. ASSUME NEW i \in 1 .. slice.width
      PROVE  BlocksPerSlice + i - 1 \in Slots
    BY <1>1 DEF Slots
<1>3. ParityOf(slice) \in [1 .. slice.width -> Message]
    BY <1>2, ShardOfType DEF ParityOf, Message
<1>4. ParityOf(slice) \in Seq(Message) /\ Len(ParityOf(slice)) = slice.width
    BY <1>1, <1>3, FunctionIsSeq
<1>5. ASSUME NEW i \in 1 .. slice.width
      PROVE  ParityOf(slice)[i] = ShardOf(slice, BlocksPerSlice + i - 1)
    BY DEF ParityOf
<1> QED BY <1>2, <1>4, <1>5

\* When nothing is left to queue, what is queued next goes behind the stream.
LEMMA StreamGrows ==
    ASSUME QueueInv, unsent = <<>>, NEW ms \in Seq(Message), unsent' = ms,
           UNCHANGED outbound
    PROVE  /\ Stream' = Stream \o ms /\ Stream \in Seq(Message)
           /\ Len(Stream) \in Nat /\ Len(ms) \in Nat
           /\ Len(Stream') = Len(Stream) + Len(ms)
           /\ \A i \in 1 .. Len(Stream) : Stream'[i] = Stream[i]
           /\ \A i \in 1 .. Len(ms) : Stream'[Len(Stream) + i] = ms[i]
           /\ \A i \in 1 .. Len(Stream') : ~(i \in 1 .. Len(Stream)) =>
                  i - Len(Stream) \in 1 .. Len(ms)
                  /\ Stream'[i] = ms[i - Len(Stream)]
<1>1. outbound \in Seq(Message)
    BY DEF QueueInv, LoopType
<1>2. Stream = outbound /\ Stream' = outbound \o ms
    BY <1>1, ConcatEmptySeq DEF Stream
<1>3. Len(Stream) \in Nat /\ Len(ms) \in Nat
    BY <1>1, <1>2, LenProperties
<1>4. /\ Len(Stream') = Len(Stream) + Len(ms)
      /\ \A i \in 1 .. Len(Stream) + Len(ms) : Stream'[i] =
             IF i <= Len(Stream) THEN Stream[i] ELSE ms[i - Len(Stream)]
    BY <1>1, <1>2, ConcatProperties
<1> QED BY <1>1, <1>2, <1>3, <1>4

\* What a turn of the slicer queues keeps the floors.
LEMMA FloorQueue ==
    ASSUME QueueInv, unsent = <<>>, NEW ms \in Seq(Message),
           Queue(ms, current'.no), UNCHANGED <<outbound, taken, eofTaken>>,
           current.no <= current'.no, current.no \in Nat, current'.no \in Nat,
           drained => drained',
           \A i \in 1 .. Len(ms) :
               IF ms[i] = Eof THEN drained' ELSE ms[i].floor = current.no
    PROVE  FloorIsCurrent' /\ emitFloor' \in Nat /\ floorAfter' \in Nat
<1>1. /\ unsent' = ms /\ floorAfter' = current'.no
      /\ emitFloor' = IF ms = <<>> THEN current'.no ELSE emitFloor
    BY DEF Queue
<1>2. ASSUME NEW i \in 1 .. Len(Stream')
      PROVE  IF Stream'[i] = Eof THEN drained'
             ELSE Stream'[i].floor <= current'.no
    <2>1. CASE i \in 1 .. Len(Stream)
        <3>1. Stream'[i] = Stream[i]
            BY <1>1, <2>1, StreamGrows
        <3>2. CASE Stream[i] = Eof
            BY <2>1, <3>1, <3>2 DEF QueueInv, FloorIsCurrent
        <3>3. CASE Stream[i] # Eof
            <4>1. Stream[i].floor <= current.no
                BY <2>1, <3>3 DEF QueueInv, FloorIsCurrent
            <4>2. Stream[i].floor \in Nat
                <5>1. Stream \in Seq(Message)
                    BY <1>1, StreamGrows
                <5>2. Stream[i] \in Shard
                    BY <2>1, <3>3, <5>1, ElementOfSeq DEF Message
                <5> QED BY <5>2 DEF Shard
            <4> QED BY SMTT(30), <3>1, <3>3, <4>1, <4>2
        <3> QED BY <3>2, <3>3
    <2>2. CASE ~(i \in 1 .. Len(Stream))
        <3>1. i - Len(Stream) \in 1 .. Len(ms)
              /\ Stream'[i] = ms[i - Len(Stream)]
            BY <1>1, <1>2, <2>2, StreamGrows
        <3> QED BY <3>1
    <2> QED BY <2>1, <2>2
<1>3. \A m \in taken : m.floor <= current'.no
    <2>1. \A m \in taken : m.floor \in Nat /\ m.floor <= current.no
        BY DEF QueueInv, LoopType, FloorIsCurrent, Shard
    <2> QED BY <2>1
<1>4. (eofTaken => drained)' /\ emitFloor' \in Nat
    BY <1>1 DEF QueueInv, FloorIsCurrent, SlicerType
<1> QED BY <1>1, <1>2, <1>3, <1>4 DEF FloorIsCurrent

\* And widths and order, whatever width the slices that follow take.
LEMMA WidthQueue ==
    ASSUME QueueInv, NEW W \in [Nat -> Widths], WidthInv(W),
           NEW V \in [Nat -> Widths],
           \A s \in Nat : s <= current.no => V[s] = W[s],
           drained => V = W,
           unsent = <<>>, NEW ms \in Seq(Message), unsent' = ms,
           UNCHANGED <<outbound, taken, eofTaken, loop>>,
           current.no \in Nat, current'.no \in Nat, current.no <= current'.no,
           current'.blocks \in Nat, current'.width = V[current'.no],
           \A i \in 1 .. Len(live') : live'[i].width = V[live'[i].no],
           \A i \in 1 .. Len(ms) : ms[i] # Eof =>
               /\ ms[i].slice \in Nat /\ ms[i].slice <= current.no
               /\ ms[i].width = W[ms[i].slice] /\ ms[i].floor = current.no,
           loop = "running" => \A s \in Nat : s >= current.no /\ s < current'.no =>
               \A x \in AllSlots(V, s) :
                   OutBefore(taken, Stream \o ms, Len(Stream \o ms) + 1, s, x),
           loop = "running" => \A x \in Nat : x < current'.blocks =>
               OutBefore(taken, Stream \o ms, Len(Stream \o ms) + 1,
                         current'.no, x),
           loop = "running" => \A i \in 1 .. Len(ms) : ms[i] = Eof =>
               \A s \in Nat : BlocksIn(s) > 0 =>
                   \A x \in AllSlots(V, s) :
                       OutBefore(taken, Stream \o ms, Len(Stream) + i, s, x)
    PROVE  WidthInv(V)'
<1>1. /\ Stream' = Stream \o ms /\ Stream \in Seq(Message)
      /\ Len(Stream) \in Nat
    BY StreamGrows
<1>2. \A i \in 1 .. Len(Stream) : Stream[i] # Eof =>
          /\ Stream[i] \in Shard /\ Stream[i].slice \in Nat
          /\ Stream[i].floor \in Nat
    <2>1. \A i \in 1 .. Len(Stream) : Stream[i] \in Message
        BY <1>1, ElementOfSeq
    <2> QED BY <2>1 DEF Message, Shard, Slices
<1>3. \A m \in taken : m.slice \in Nat /\ m.floor \in Nat
    BY DEF QueueInv, LoopType, Shard, Slices
<1>4. WidthIs(V)'
    <2>1. \A m \in taken : m.slice <= current'.no /\ m.width = V[m.slice]
        BY <1>3 DEF WidthInv, WidthIs
    <2>2. ASSUME NEW i \in 1 .. Len(Stream'), Stream'[i] # Eof
          PROVE  /\ Stream'[i].slice <= current'.no
                 /\ Stream'[i].width = V[Stream'[i].slice]
        <3>1. CASE i \in 1 .. Len(Stream)
            <4>1. Stream'[i] = Stream[i]
                BY <3>1, StreamGrows
            <4> QED BY <1>2, <2>2, <3>1, <4>1 DEF WidthInv, WidthIs
        <3>2. CASE ~(i \in 1 .. Len(Stream))
            <4>1. i - Len(Stream) \in 1 .. Len(ms)
                  /\ Stream'[i] = ms[i - Len(Stream)]
                BY <2>2, <3>2, StreamGrows
            <4> QED BY <2>2, <4>1
        <3> QED BY <3>1, <3>2
    <2> QED BY <2>1, <2>2 DEF WidthIs
<1>5. OrderIsKept(V)'
    <2> SUFFICES ASSUME loop = "running"
                 PROVE  Ordered(taken, Stream \o ms, V, current'.no,
                                current'.blocks)
        BY <1>1 DEF OrderIsKept
    <2>0. loop = "running"
        OBVIOUS
    <2>1. Ordered(taken, Stream, W, current.no, current.blocks)
        BY DEF WidthInv, OrderIsKept
    <2>2. current.blocks \in Nat
        BY DEF QueueInv, SlicerType, Live
    <2>3. ASSUME NEW i \in 1 .. Len(Stream), NEW s \in Nat,
                 Announces(Stream[i], s)
          PROVE  V[s] = W[s]
        <3>1. CASE Stream[i] = Eof
            BY <2>3, <3>1 DEF QueueInv, FloorIsCurrent
        <3>2. CASE Stream[i] # Eof
            <4>1. Stream[i].floor <= current.no /\ Stream[i].floor \in Nat
                BY <1>2, <2>3, <3>2 DEF QueueInv, FloorIsCurrent
            <4> QED BY <2>3, <3>2, <4>1 DEF Announces
        <3> QED BY <3>1, <3>2
    <2>4. \A s \in Nat : s < current.no => V[s] = W[s]
        OBVIOUS
    <2>5. \A i \in 1 .. Len(ms) : ms[i] # Eof => ms[i].floor = current.no
        OBVIOUS
    <2>6. \A s \in Nat : s >= current.no /\ s < current'.no =>
              \A x \in AllSlots(V, s) :
                  OutBefore(taken, Stream \o ms, Len(Stream \o ms) + 1, s, x)
        BY <2>0
    <2>7. \A x \in Nat : x < current'.blocks =>
              OutBefore(taken, Stream \o ms, Len(Stream \o ms) + 1,
                        current'.no, x)
        BY <2>0
    <2>8. \A i \in 1 .. Len(ms) : ms[i] = Eof =>
              \A s \in Nat : BlocksIn(s) > 0 =>
                  \A x \in AllSlots(V, s) :
                      OutBefore(taken, Stream \o ms, Len(Stream) + i, s, x)
        BY <2>0
    <2> DEFINE st == Stream
               no2 == current'.no
               blocks2 == current'.blocks
    <2>9. st \in Seq(Message) /\ no2 \in Nat /\ blocks2 \in Nat
        BY <1>1
    <2> HIDE DEF st, no2, blocks2
    <2>10. Ordered(taken, st \o ms, V, no2, blocks2)
        BY <2>1, <2>2, <2>3, <2>4, <2>5, <2>6, <2>7, <2>8, <2>9, OrderedQueue
           DEF st, no2, blocks2
    <2> QED BY <2>10 DEF st, no2, blocks2
<1>6. TakenIsWhole(V)'
    <2>1. ASSUME NEW s \in Nat, V[s] = W[s], Whole(taken, W, s)
          PROVE  Whole(taken, V, s)
        BY <2>1 DEF Whole, AllSlots
    <2>2. ASSUME NEW m \in taken, NEW s \in Nat, s < m.floor
          PROVE  Whole(taken, V, s)
        <3>1. m.floor <= current.no
            BY DEF QueueInv, FloorIsCurrent
        <3>2. s <= current.no
            BY <1>3, <2>2, <3>1
        <3> QED BY <2>1, <2>2, <3>2 DEF WidthInv, TakenIsWhole
    <2>3. ASSUME eofTaken, NEW s \in Nat, BlocksIn(s) > 0
          PROVE  Whole(taken, V, s)
        <3>1. V = W
            BY <2>3 DEF QueueInv, FloorIsCurrent
        <3> QED BY <2>3, <3>1 DEF WidthInv, TakenIsWhole
    <2> QED BY <2>2, <2>3 DEF TakenIsWhole
<1> QED BY <1>4, <1>5, <1>6 DEF WidthInv

-----------------------------------------------------------------------------
(* The turns of the slicer.                                                 *)

\* What a step that leaves the slices and the stream alone keeps.
LEMMA WidthFrame ==
    ASSUME NEW W, WidthInv(W), UNCHANGED <<current, live, taken, eofTaken>>,
           Stream' = Stream, loop' = "running" => loop = "running"
    PROVE  WidthInv(W)'
<1>1. WidthIs(W)'
    BY DEF WidthInv, WidthIs
<1>2. OrderIsKept(W)'
    BY DEF WidthInv, OrderIsKept
<1>3. TakenIsWhole(W)'
    BY DEF WidthInv, TakenIsWhole
<1> QED BY <1>1, <1>2, <1>3 DEF WidthInv

\* A turn that seals nothing.
LEMMA PlainTurn ==
    ASSUME QueueInv, NEW W \in [Nat -> Widths], WidthInv(W), unsent = <<>>,
           NEW ms \in Seq(Message), Queue(ms, emitFloor),
           UNCHANGED <<live, outbound, taken, eofTaken, loop>>,
           current' \in Live, current'.no = current.no,
           current'.width = current.width, drained => drained',
           \A i \in 1 .. Len(ms) : ms[i] = Eof =>
               drained' /\ SourceBlocks <= current.no * BlocksPerSlice,
           \A i \in 1 .. Len(ms) : ms[i] # Eof =>
               /\ ms[i].slice \in Nat /\ ms[i].slice <= current.no
               /\ ms[i].width = W[ms[i].slice] /\ ms[i].floor = emitFloor,
           \A x \in Nat : x < current'.blocks =>
               \/ x < current.blocks
               \/ \E i \in 1 .. Len(ms) : IsShard(ms[i], current.no, x)
    PROVE  /\ FloorIsCurrent' /\ WidthInv(W)'
           /\ emitFloor' \in Nat /\ floorAfter' \in Nat
<1>1. /\ emitFloor = current.no /\ current.no \in Nat /\ current.blocks \in Nat
      /\ current'.no \in Nat /\ current'.blocks \in Nat
    BY DEF QueueInv, FloorIsCurrent, SlicerType, Live
<1>3. FloorIsCurrent' /\ emitFloor' \in Nat /\ floorAfter' \in Nat
    <2>1. Queue(ms, current'.no)
        BY <1>1
    <2>2. \A i \in 1 .. Len(ms) :
              IF ms[i] = Eof THEN drained' ELSE ms[i].floor = current.no
        BY <1>1
    <2> QED BY <1>1, <2>1, <2>2, FloorQueue
<1>4. /\ Stream \in Seq(Message) /\ unsent' = ms /\ Len(Stream) \in Nat
      /\ Len(ms) \in Nat /\ Len(Stream \o ms) = Len(Stream) + Len(ms)
    <2>1. unsent' = ms
        BY DEF Queue
    <2> QED BY <2>1, StreamGrows, ConcatProperties
<1>5. ASSUME loop = "running", NEW x \in Nat, x < current'.blocks
      PROVE  OutBefore(taken, Stream \o ms, Len(Stream \o ms) + 1,
                       current'.no, x)
    <2>1. CASE x < current.blocks
        <3>1. OutBefore(taken, Stream, Len(Stream) + 1, current.no, x)
            BY <1>5, <2>1 DEF WidthInv, OrderIsKept, Ordered
        <3> QED BY <1>4, <3>1, OutLater
    <2>2. CASE \E i \in 1 .. Len(ms) : IsShard(ms[i], current.no, x)
        <3>1. PICK i \in 1 .. Len(ms) : IsShard(ms[i], current.no, x)
            BY <2>2
        <3>2. Len(Stream) + i < Len(Stream \o ms) + 1
              /\ Len(Stream \o ms) + 1 \in Int
            BY <1>4
        <3> QED BY <1>4, <3>1, <3>2, OutQueued
    <2> QED BY <1>5, <2>1, <2>2
<1>6. ASSUME loop = "running", NEW i \in 1 .. Len(ms), ms[i] = Eof,
             NEW s \in Nat, BlocksIn(s) > 0, NEW x \in AllSlots(W, s)
      PROVE  OutBefore(taken, Stream \o ms, Len(Stream) + i, s, x)
    <2>1. s < current.no
        BY <1>1, <1>6, SealedBefore
    <2>2. OutBefore(taken, Stream, Len(Stream) + 1, s, x)
        BY <1>6, <2>1 DEF WidthInv, OrderIsKept, Ordered
    <2> QED BY <1>4, <2>2, OutLater
<1>7. WidthInv(W)'
    <2>1. current'.width = W[current'.no]
          /\ \A i \in 1 .. Len(live') : live'[i].width = W[live'[i].no]
        BY DEF WidthInv, WidthIs
    <2>2. \A i \in 1 .. Len(ms) : ms[i] # Eof =>
               /\ ms[i].slice \in Nat /\ ms[i].slice <= current.no
               /\ ms[i].width = W[ms[i].slice] /\ ms[i].floor = current.no
        BY <1>1
    <2>3. loop = "running" =>
              \A s \in Nat : s >= current.no /\ s < current'.no =>
                  \A x \in AllSlots(W, s) :
                      OutBefore(taken, Stream \o ms, Len(Stream \o ms) + 1, s, x)
        BY <1>1
    <2>4. loop = "running" => \A x \in Nat : x < current'.blocks =>
              OutBefore(taken, Stream \o ms, Len(Stream \o ms) + 1,
                        current'.no, x)
        BY <1>5
    <2>5. loop = "running" => \A i \in 1 .. Len(ms) : ms[i] = Eof =>
              \A s \in Nat : BlocksIn(s) > 0 =>
                  \A x \in AllSlots(W, s) :
                      OutBefore(taken, Stream \o ms, Len(Stream) + i, s, x)
        BY <1>6
    <2>6. current.no <= current'.no
        BY <1>1
    <2> QED BY <1>1, <1>4, <2>1, <2>2, <2>3, <2>4, <2>5, <2>6, WidthQueue
<1> QED BY <1>3, <1>7

\* Nor does it move the window.
LEMMA WindowKept ==
    ASSUME QueueInv, UNCHANGED <<live, needed>>, current'.no = current.no,
           \A i \in 1 .. Len(feedback') :
               feedback'[i].kind = "needed" => feedback'[i].slice <= needed
    PROVE  WindowIsTail'
BY DEF QueueInv, WindowIsTail

\* Sealing keeps the window a run of slices that ends before the next one.
LEMMA SealStep ==
    ASSUME QueueInv, NEW slice \in Live, slice.no = current.no,
           slice.blocks > 0, ~WindowFull, Seal(slice),
           UNCHANGED <<needed, feedback>>
    PROVE  /\ current' \in Live /\ current'.no = current.no + 1
           /\ current'.blocks = 0 /\ current'.width = wanted
           /\ live' \in Seq(Live) /\ Len(live') <= MaxLiveSlices
           /\ WindowIsTail'
           /\ \A i \in 1 .. Len(live') :
                  live'[i] = slice \/ \E j \in 1 .. Len(live) : live'[i] = live[j]
<1>1. /\ current.no \in Nat /\ wanted \in Widths /\ live \in Seq(Live)
      /\ Len(live) \in Nat
    BY LenProperties DEF QueueInv, SlicerType, Live
<1>2. /\ current' = EmptySlice(current.no + 1, wanted)
      /\ live' = Append(live, slice)
    BY DEF Seal
<1>3. /\ current' \in Live /\ current'.no = current.no + 1
      /\ current'.blocks = 0 /\ current'.width = wanted
    BY <1>1, <1>2 DEF EmptySlice, Live
<1>4. /\ live' \in Seq(Live) /\ Len(live') = Len(live) + 1
      /\ \A i \in 1 .. Len(live) : live'[i] = live[i]
      /\ live'[Len(live) + 1] = slice
    BY <1>1, <1>2, AppendProperties
<1>5. Len(live') <= MaxLiveSlices
    BY <1>1, <1>4 DEF WindowFull
<1>6. ASSUME NEW i \in 1 .. Len(live')
      PROVE  \/ live'[i] = slice /\ i = Len(live) + 1
             \/ i \in 1 .. Len(live) /\ live'[i] = live[i]
    <2>1. i \in 1 .. Len(live) \/ i = Len(live) + 1
        BY <1>1, <1>4, <1>6
    <2>2. CASE i \in 1 .. Len(live)
        BY <1>4, <2>2
    <2>3. CASE i = Len(live) + 1
        <3>1. live'[i] = slice
            BY <1>4, <2>3, Zenon
        <3> QED BY <2>3, <3>1
    <2> QED BY <2>1, <2>2, <2>3
<1>7. ASSUME NEW i \in 1 .. Len(live')
      PROVE  /\ live'[i].no = current'.no - Len(live') + i - 1
             /\ live'[i].blocks > 0
    <2>1. CASE live'[i] = slice /\ i = Len(live) + 1
        <3>1. current.no = current'.no - Len(live') + i - 1
            BY <1>1, <1>3, <1>4, <2>1
        <3>2. live'[i].no = current.no /\ live'[i].blocks > 0
            BY <2>1
        <3> QED BY <3>1, <3>2
    <2>2. CASE i \in 1 .. Len(live) /\ live'[i] = live[i]
        <3>1. /\ live[i].no = current.no - Len(live) + i - 1
              /\ live[i].blocks > 0
            BY <2>2 DEF QueueInv, WindowIsTail
        <3> QED BY <1>1, <1>3, <1>4, <2>2, <3>1
    <2> QED BY <1>6, <1>7, <2>1, <2>2
<1>8. current'.no - Len(live') <= needed
    BY <1>1, <1>3, <1>4 DEF QueueInv, WindowIsTail
<1>9. WindowIsTail'
    BY <1>7, <1>8 DEF QueueInv, WindowIsTail
<1> QED BY <1>3, <1>4, <1>5, <1>6, <1>9

\* A turn that seals the slice being filled: its last block, if that is new,
\* comes first, then its recovery shards, then Eof if the source has ended.
LEMMA SealTurn ==
    ASSUME QueueInv, NEW W \in [Nat -> Widths], WidthInv(W), unsent = <<>>,
           ~drained, ~WindowFull,
           NEW slice \in Live, slice.no = current.no,
           slice.width = current.width, slice.blocks > 0,
           BlocksIn(current.no) = slice.blocks, Seal(slice),
           NEW ms \in Seq(Message), Queue(ms, current.no + 1),
           UNCHANGED <<needed, feedback, outbound, taken, eofTaken, loop>>,
           NEW d \in Nat, d + slice.width <= Len(ms),
           \A i \in 1 .. slice.width :
               ms[d + i] = ShardOf(slice, BlocksPerSlice + i - 1),
           \A x \in Nat : x < slice.blocks =>
               \/ x < current.blocks
               \/ d = 1 /\ IsShard(ms[1], current.no, x),
           \A i \in 1 .. Len(ms) : ms[i] = Eof =>
               /\ drained' /\ SourceBlocks <= (current.no + 1) * BlocksPerSlice
               /\ d + slice.width < i,
           \A i \in 1 .. Len(ms) : ms[i] # Eof =>
               /\ ms[i].slice = current.no /\ ms[i].width = current.width
               /\ ms[i].floor = emitFloor
    PROVE  /\ current' \in Live /\ live' \in Seq(Live)
           /\ Len(live') <= MaxLiveSlices /\ current'.no = current.no + 1
           /\ current'.blocks = 0
           /\ WindowIsTail' /\ FloorIsCurrent'
           /\ emitFloor' \in Nat /\ floorAfter' \in Nat
           /\ \E V \in [Nat -> Widths] : WidthInv(V)'
<1>1. /\ emitFloor = current.no /\ current.no \in Nat /\ current.blocks \in Nat
      /\ current.no \in Slices /\ wanted \in Widths /\ SlicerType
      /\ slice.width \in Nat /\ slice.blocks \in Nat
      /\ slice.width <= MaxParity
    <2>1. slice.width \in Widths /\ slice.blocks \in 0 .. BlocksPerSlice
        BY DEF Live
    <2>2. slice.width \in Nat /\ slice.width <= MaxParity
        BY <2>1 DEF Widths
    <2>3. current.no \in Nat /\ current.blocks \in Nat /\ current.no \in Slices
        BY CurrentWithin
    <2>4. wanted \in Widths /\ SlicerType /\ emitFloor = current.no
        BY DEF QueueInv, FloorIsCurrent, SlicerType
    <2> QED BY <2>1, <2>2, <2>3, <2>4
<1>2. /\ current' \in Live /\ current'.no = current.no + 1
      /\ current'.blocks = 0 /\ current'.width = wanted
      /\ live' \in Seq(Live) /\ Len(live') <= MaxLiveSlices
      /\ WindowIsTail'
      /\ \A i \in 1 .. Len(live') :
             live'[i] = slice \/ \E j \in 1 .. Len(live) : live'[i] = live[j]
    BY <1>1, SealStep
<1>3. FloorIsCurrent' /\ emitFloor' \in Nat /\ floorAfter' \in Nat
    <2>1. Queue(ms, current'.no) /\ current.no <= current'.no
          /\ current'.no \in Nat
        BY <1>1, <1>2
    <2>2. \A i \in 1 .. Len(ms) :
              IF ms[i] = Eof THEN drained' ELSE ms[i].floor = current.no
        BY <1>1
    <2>3. drained => drained'
        OBVIOUS
    <2> QED BY <1>1, <2>1, <2>2, <2>3, FloorQueue
<1>4. /\ Stream \in Seq(Message) /\ unsent' = ms /\ Len(Stream) \in Nat
      /\ Len(ms) \in Nat /\ Len(Stream \o ms) = Len(Stream) + Len(ms)
    <2>1. unsent' = ms
        BY DEF Queue
    <2> QED BY <2>1, StreamGrows, ConcatProperties
<1>5. PICK V \in [Nat -> Widths] :
          /\ V[current.no + 1] = wanted
          /\ \A s \in Nat : s <= current.no => V[s] = W[s]
    <2> DEFINE U == [W EXCEPT ![current.no + 1] = wanted]
    <2>1. /\ U \in [Nat -> Widths] /\ U[current.no + 1] = wanted
          /\ \A s \in Nat : s <= current.no => U[s] = W[s]
        BY SMTT(30), <1>1
    <2> QED BY <2>1
<1>6. current.width = W[current.no] /\ V[current.no] = slice.width
    BY <1>1, <1>5 DEF WidthInv, WidthIs
<1>7. ASSUME loop = "running", NEW s \in Nat, s <= current.no,
             NEW x \in AllSlots(V, s), NEW k \in Int,
             Len(Stream) + d + slice.width < k
      PROVE  OutBefore(taken, Stream \o ms, k, s, x)
    <2>1. CASE s < current.no
        <3>1. x \in AllSlots(W, s)
            BY <1>5, <1>7 DEF AllSlots
        <3>2. OutBefore(taken, Stream, Len(Stream) + 1, s, x)
            BY <1>7, <2>1, <3>1 DEF WidthInv, OrderIsKept, Ordered
        <3>3. Len(Stream) + 1 <= k
            BY SMTT(30), <1>1, <1>4, <1>7
        <3> QED BY <1>4, <1>7, <3>2, <3>3, OutLater
    <2>2. CASE s = current.no
        <3>1. \/ x \in 0 .. (slice.blocks - 1)
              \/ x \in BlocksPerSlice .. (BlocksPerSlice + slice.width - 1)
            BY <1>6, <1>7, <2>2 DEF AllSlots
        <3>2. CASE x \in 0 .. (slice.blocks - 1) /\ x < current.blocks
            <4>1. OutBefore(taken, Stream, Len(Stream) + 1, current.no, x)
                BY <1>1, <1>7, <3>2 DEF WidthInv, OrderIsKept, Ordered
            <4>2. Len(Stream) + 1 <= k
                BY SMTT(30), <1>1, <1>4, <1>7
            <4> QED BY <1>4, <1>7, <2>2, <4>1, <4>2, OutLater
        <3>3. CASE x \in 0 .. (slice.blocks - 1) /\ ~(x < current.blocks)
            <4>1. d = 1 /\ IsShard(ms[1], current.no, x)
                BY <1>1, <3>3
            <4>2. 1 \in 1 .. Len(ms) /\ Len(Stream) + 1 < k
                BY SMTT(30), <1>1, <1>4, <1>7, <4>1
            <4> QED BY <1>4, <1>7, <2>2, <4>1, <4>2, OutQueued
        <3>4. CASE x \in BlocksPerSlice .. (BlocksPerSlice + slice.width - 1)
            <4> DEFINE w == slice.width
                       i == x - BlocksPerSlice + 1
            <4>0. w \in Nat /\ w <= MaxParity
                  /\ x \in BlocksPerSlice .. (BlocksPerSlice + w - 1)
                BY <1>1, <3>4
            <4> HIDE DEF w
            <4>1. i \in 1 .. w /\ x = BlocksPerSlice + i - 1
                BY SMTT(30), <4>0
            <4> HIDE DEF i
            <4>2. x \in Slots
                BY <4>0 DEF Slots
            <4> USE DEF w
            <4>3. IsShard(ms[d + i], current.no, x)
                BY <1>1, <4>1, <4>2, ShardOfType
            <4>4. d + i \in 1 .. Len(ms) /\ Len(Stream) + (d + i) < k
                <5>1. i \in Nat /\ i > 0 /\ i <= slice.width
                      /\ d + slice.width <= Len(ms)
                    BY SMTT(30), <1>1, <4>1
                <5>2. d + i \in 1 .. Len(ms)
                    BY SMTT(30), <1>1, <1>4, <5>1
                <5>3. Len(Stream) + (d + i) < k
                    BY SMTT(30), <1>1, <1>4, <1>7, <5>1
                <5> QED BY <5>2, <5>3
            <4> QED BY <1>4, <1>7, <2>2, <4>3, <4>4, OutQueued
        <3> QED BY <3>1, <3>2, <3>3, <3>4
    <2> QED BY SMTT(30), <1>1, <1>7, <2>1, <2>2
<1>8. ASSUME loop = "running", NEW i \in 1 .. Len(ms), ms[i] = Eof,
             NEW s \in Nat, BlocksIn(s) > 0, NEW x \in AllSlots(V, s)
      PROVE  OutBefore(taken, Stream \o ms, Len(Stream) + i, s, x)
    <2>1. /\ SourceBlocks <= (current.no + 1) * BlocksPerSlice
          /\ d + slice.width < i
        BY <1>8
    <2>0. current.no + 1 \in Nat
        <3>1. current.no \in Nat
            BY <1>1
        <3> QED BY SMTT(30), <3>1
    <2>2. s < current.no + 1
        BY <1>8, <2>0, <2>1, SealedBefore
    <2>3. s <= current.no /\ Len(Stream) + i \in Int
          /\ Len(Stream) + d + slice.width < Len(Stream) + i
        BY SMTT(30), <1>1, <1>4, <2>1, <2>2
    <2> QED BY <1>7, <1>8, <2>3
<1>9. WidthInv(V)'
    <2>1. current'.width = V[current'.no] /\ current.no <= current'.no
          /\ current'.no \in Nat /\ current'.blocks \in Nat
        BY <1>1, <1>2, <1>5
    <2>2. ASSUME NEW i \in 1 .. Len(live')
          PROVE  live'[i].width = V[live'[i].no]
        <3>1. CASE live'[i] = slice
            BY <1>6, <3>1
        <3>2. ASSUME NEW j \in 1 .. Len(live), live'[i] = live[j]
              PROVE  live'[i].width = V[live'[i].no]
            <4>1. live[j].no \in Nat /\ Len(live) \in Nat
                <5>1. live \in Seq(Live)
                    BY <1>1 DEF SlicerType
                <5>2. live[j] \in Live /\ Len(live) \in Nat
                    BY <5>1, ElementOfSeq, LenProperties
                <5> QED BY <5>2 DEF Live
            <4>2. live[j].no <= current.no
                BY <1>1, <4>1 DEF QueueInv, WindowIsTail
            <4>3. live[j].width = W[live[j].no]
                BY DEF WidthInv, WidthIs
            <4> QED BY <1>5, <3>2, <4>1, <4>2, <4>3
        <3> QED BY <1>2, <3>1, <3>2
    <2>3. \A i \in 1 .. Len(ms) : ms[i] # Eof =>
               /\ ms[i].slice \in Nat /\ ms[i].slice <= current.no
               /\ ms[i].width = W[ms[i].slice] /\ ms[i].floor = current.no
        BY <1>1, <1>6
    <2>4. loop = "running" =>
              \A s \in Nat : s >= current.no /\ s < current'.no =>
                  \A x \in AllSlots(V, s) :
                      OutBefore(taken, Stream \o ms, Len(Stream \o ms) + 1, s, x)
        <3>1. Len(Stream \o ms) + 1 \in Int
              /\ Len(Stream) + d + slice.width < Len(Stream \o ms) + 1
            BY SMTT(30), <1>1, <1>4
        <3>2. \A s \in Nat : s < current'.no => s <= current.no
            BY <1>1, <1>2
        <3> QED BY <1>7, <3>1, <3>2
    <2>5. loop = "running" => \A x \in Nat : x < current'.blocks =>
              OutBefore(taken, Stream \o ms, Len(Stream \o ms) + 1,
                        current'.no, x)
        BY <1>2
    <2>6. loop = "running" => \A i \in 1 .. Len(ms) : ms[i] = Eof =>
              \A s \in Nat : BlocksIn(s) > 0 =>
                  \A x \in AllSlots(V, s) :
                      OutBefore(taken, Stream \o ms, Len(Stream) + i, s, x)
        BY <1>8
    <2>7. drained => V = W
        OBVIOUS
    <2> QED BY <1>1, <1>4, <1>5, <2>1, <2>2, <2>3, <2>4, <2>5, <2>6, <2>7,
               WidthQueue
<1> QED BY <1>2, <1>3, <1>5, <1>9

\* The parts of the invariant, from what a turn of the slicer shows of them.
LEMMA TurnKeeps ==
    ASSUME SlicerInv, current' \in Live, live' \in Seq(Live),
           Len(live') <= MaxLiveSlices, wanted' \in Widths,
           emitFloor' \in Nat, floorAfter' \in Nat,
           blocksRead' \in 0 .. SourceBlocks, drained' \in BOOLEAN,
           unsent' \in Seq(Message),
           task' \in {"running", "done", "fileError", "egressClosed"},
           LoopType', CurrentIsNext', WindowIsTail', FloorIsCurrent',
           \E V \in [Nat -> Widths] : WidthInv(V)'
    PROVE  SlicerInv'
<1>1. SlicerType'
    BY DEF SlicerType
<1>2. QueueInv'
    BY <1>1 DEF QueueInv
<1> QED BY <1>2 DEF SlicerInv

\* A turn of the slicer leaves the loop's part as it is.
LEMMA LoopTypeKept ==
    ASSUME SlicerInv, UNCHANGED <<outbound, feedback, loopVars>>
    PROVE  LoopType'
BY DEF SlicerInv, QueueInv, LoopType, loopVars

\* What the feedback channel says of needed slices.
LEMMA FeedbackType ==
    ASSUME SlicerInv
    PROVE  /\ feedback \in Seq(FeedbackMessage) /\ needed \in Nat
           /\ wanted \in Widths /\ covering \in Widths
           /\ task \in {"running", "done", "fileError", "egressClosed"}
           /\ loop \in {"running", "joining", "returned"}
           /\ result \in {"none", "noParticipants", "ok", "incomplete",
                          "egressClosed", "ioError"}
           /\ \A i \in 1 .. Len(feedback) :
                  feedback[i].kind = "needed" => feedback[i].slice <= needed
BY DEF SlicerInv, QueueInv, SlicerType, LoopType, WindowIsTail

\* A block is read.
LEMMA PushStep ==
    ASSUME SlicerInv, Push
    PROVE  SlicerInv'
<1> DEFINE slice == [current EXCEPT !.blocks = @ + 1]
           block == <<ShardOf(current, current.blocks)>>
<1>1. /\ unsent = <<>> /\ ~drained /\ ~WindowFull
      /\ blocksRead < SourceBlocks /\ blocksRead' = blocksRead + 1
      /\ UNCHANGED <<wanted, drained, task, outbound, feedback, loopVars>>
      /\ UNCHANGED <<needed, taken, eofTaken, loop>>
    BY DEF Push, Selecting, loopVars
<1>2. PICK W \in [Nat -> Widths] : WidthInv(W)
    BY DEF SlicerInv
<1>3. /\ QueueInv /\ SlicerType /\ CurrentIsNext /\ FloorIsCurrent
      /\ current \in Live /\ current.no \in Nat /\ current.blocks \in Nat
      /\ current.width \in Widths /\ current.width \in Nat
      /\ current.blocks < BlocksPerSlice
      /\ current.no \in Slices /\ current.no * BlocksPerSlice \in Nat
      /\ blocksRead \in 0 .. SourceBlocks
      /\ blocksRead = current.no * BlocksPerSlice + current.blocks
      /\ emitFloor = current.no /\ emitFloor \in Nat
      /\ current.width = W[current.no]
    <2>1. QueueInv /\ SlicerType /\ CurrentIsNext /\ FloorIsCurrent
        BY DEF SlicerInv, QueueInv
    <2>2. /\ current.no \in Slices /\ current.no \in Nat
          /\ current.blocks \in Nat /\ current.no * BlocksPerSlice \in Nat
        BY <1>1, <2>1, CurrentWithin
    <2>3. current \in Live /\ current.width \in Widths
        BY <2>1 DEF SlicerType, Live
    <2>4. current.width \in Nat
        BY <2>3 DEF Widths
    <2>5. current.width = W[current.no]
        BY <1>2 DEF WidthInv, WidthIs
    <2>6. /\ current.blocks < BlocksPerSlice
          /\ blocksRead \in 0 .. SourceBlocks
          /\ blocksRead = current.no * BlocksPerSlice + current.blocks
          /\ emitFloor = current.no
        BY <1>1, <2>1 DEF SlicerType, CurrentIsNext, FloorIsCurrent
    <2> QED BY <2>1, <2>2, <2>3, <2>4, <2>5, <2>6
<1>4. /\ slice \in Live /\ slice.no = current.no /\ slice.width = current.width
      /\ slice.blocks = current.blocks + 1
    BY <1>3 DEF Live
<1>5. /\ ShardOf(current, current.blocks) \in Shard
      /\ ShardOf(current, current.blocks) # Eof
      /\ ShardOf(current, current.blocks).slice = current.no
      /\ ShardOf(current, current.blocks).width = current.width
      /\ ShardOf(current, current.blocks).floor = emitFloor
      /\ IsShard(ShardOf(current, current.blocks), current.no, current.blocks)
    <2>1. current.blocks \in Slots
        BY <1>3 DEF Slots
    <2> QED BY <1>3, <2>1, ShardOfType
<1>6. /\ block \in Seq(Message) /\ Len(block) = 1
      /\ block[1] = ShardOf(current, current.blocks)
    BY <1>5 DEF Message
<1>7. LoopType'
    BY <1>1, LoopTypeKept
<1> HIDE DEF slice, block
<1>8. CASE slice.blocks = BlocksPerSlice
    <2> DEFINE ms == block \o ParityOf(slice)
    <2>1. Seal(slice) /\ Queue(ms, current.no + 1)
        BY <1>4, <1>8 DEF Push, WindowPush, slice, block
    <2>2. /\ ParityOf(slice) \in Seq(Message) /\ Len(ParityOf(slice)) = slice.width
          /\ \A i \in 1 .. slice.width :
                 /\ BlocksPerSlice + i - 1 \in Slots
                 /\ ParityOf(slice)[i] = ShardOf(slice, BlocksPerSlice + i - 1)
        BY <1>3, <1>4, ParityOfType
    <2>4. /\ ms \in Seq(Message) /\ Len(ms) = 1 + slice.width
          /\ ms[1] = ShardOf(current, current.blocks)
          /\ \A i \in 1 .. slice.width :
                 ms[1 + i] = ShardOf(slice, BlocksPerSlice + i - 1)
        <3>1. /\ ms \in Seq(Message)
              /\ Len(ms) = Len(block) + Len(ParityOf(slice))
              /\ \A i \in 1 .. Len(block) + Len(ParityOf(slice)) : ms[i] =
                     IF i <= Len(block) THEN block[i]
                     ELSE ParityOf(slice)[i - Len(block)]
            BY <1>6, <2>2, ConcatProperties
        <3>2. slice.width \in Nat
            BY <1>3, <1>4
        <3> HIDE DEF ms
        <3>3. ms[1] = block[1]
            BY <1>6, <2>2, <3>1, <3>2
        <3>4. ASSUME NEW i \in 1 .. slice.width
              PROVE  ms[1 + i] = ParityOf(slice)[i]
            <4>1. 1 + i \in 1 .. Len(block) + Len(ParityOf(slice))
                  /\ ~(1 + i <= Len(block)) /\ 1 + i - Len(block) = i
                BY SMTT(30), <1>6, <2>2, <3>2
            <4> QED BY <3>1, <4>1
        <3> QED BY <1>6, <2>2, <3>1, <3>3, <3>4
    <2> HIDE DEF ms
    <2>5. ASSUME NEW i \in 1 .. Len(ms)
          PROVE  /\ ms[i] # Eof /\ ms[i].slice = current.no
                 /\ ms[i].width = current.width /\ ms[i].floor = emitFloor
        <3>1. CASE i = 1
            BY <1>5, <2>4, <3>1
        <3>2. CASE i # 1
            <4> DEFINE k == i - 1
            <4>1. k \in 1 .. slice.width /\ i = 1 + k
                BY <1>3, <1>4, <2>4, <2>5, <3>2
            <4> HIDE DEF k
            <4> DEFINE y == BlocksPerSlice + k - 1
            <4>2. ms[i] = ShardOf(slice, y) /\ y \in Slots
                BY <2>2, <2>4, <4>1
            <4> HIDE DEF y
            <4>3. slice.no \in Slices
                BY <1>3, <1>4
            <4>4. /\ ShardOf(slice, y) # Eof
                  /\ ShardOf(slice, y).slice = slice.no
                  /\ ShardOf(slice, y).width = slice.width
                  /\ ShardOf(slice, y).floor = emitFloor
                BY <1>3, <1>4, <4>2, <4>3, ShardOfType
            <4> QED BY <1>4, <4>2, <4>4, Zenon
        <3> QED BY <3>1, <3>2
    <2>6. blocksRead + 1 = (current.no + 1) * BlocksPerSlice
          /\ (current.no + 1) * BlocksPerSlice <= SourceBlocks
        <3>1. (current.no + 1) * BlocksPerSlice =
                  current.no * BlocksPerSlice + BlocksPerSlice
            BY <1>3, ProductGrows, current.no <= current.no
        <3>2. current.blocks + 1 = BlocksPerSlice
            BY <1>4, <1>8
        <3> DEFINE p == current.no * BlocksPerSlice
                   q == (current.no + 1) * BlocksPerSlice
                   b == current.blocks
        <3>3. /\ p \in Nat /\ b \in Nat /\ q = p + BlocksPerSlice
              /\ blocksRead = p + b /\ b + 1 = BlocksPerSlice
              /\ blocksRead < SourceBlocks
            BY <1>1, <1>3, <3>1, <3>2
        <3> HIDE DEF p, q, b
        <3>4. blocksRead + 1 = q /\ q <= SourceBlocks
            BY <3>3
        <3> QED BY <3>4 DEF q
    <2>7. BlocksIn(current.no) = slice.blocks
        BY <1>8, <2>6 DEF BlocksIn
    <2>8. /\ current' \in Live /\ live' \in Seq(Live)
          /\ Len(live') <= MaxLiveSlices /\ current'.no = current.no + 1
          /\ current'.blocks = 0
          /\ WindowIsTail' /\ FloorIsCurrent'
          /\ emitFloor' \in Nat /\ floorAfter' \in Nat
          /\ \E V \in [Nat -> Widths] : WidthInv(V)'
        <3>1. \A x \in Nat : x < slice.blocks =>
                  \/ x < current.blocks
                  \/ 1 = 1 /\ IsShard(ms[1], current.no, x)
            BY <1>3, <1>4, <1>5, <2>4
        <3>2. 1 + slice.width <= Len(ms) /\ slice.blocks > 0
            BY <1>3, <1>4, <2>4
        <3> QED BY <1>1, <1>2, <1>3, <1>4, <2>1, <2>4, <2>5, <2>7, <3>1, <3>2,
                   SealTurn
    <2>9. CurrentIsNext'
        BY <1>1, <2>6, <2>8 DEF CurrentIsNext
    <2>10. unsent' \in Seq(Message) /\ blocksRead' \in 0 .. SourceBlocks
           /\ wanted' \in Widths /\ drained' \in BOOLEAN
           /\ task' \in {"running", "done", "fileError", "egressClosed"}
        <3>1. unsent' = ms
            BY <2>1 DEF Queue
        <3>2. blocksRead' \in 0 .. SourceBlocks
            BY <1>1, <1>3
        <3>3. /\ wanted' \in Widths /\ drained' \in BOOLEAN
              /\ task' \in {"running", "done", "fileError", "egressClosed"}
            BY <1>1, <1>3 DEF SlicerType
        <3> QED BY <2>4, <3>1, <3>2, <3>3
    <2> QED BY <1>7, <2>8, <2>9, <2>10, TurnKeeps
<1>9. CASE slice.blocks # BlocksPerSlice
    <2>1. /\ current' = slice /\ live' = live /\ Queue(block, emitFloor)
        BY <1>9 DEF Push, WindowPush, slice, block
    <2>2. /\ FloorIsCurrent' /\ WidthInv(W)'
          /\ emitFloor' \in Nat /\ floorAfter' \in Nat
        <3>1. /\ current' \in Live /\ current'.no = current.no
              /\ current'.width = current.width /\ (drained => drained')
              /\ current'.blocks = current.blocks + 1
            BY <1>1, <1>4, <2>1
        <3>2. \A i \in 1 .. Len(block) : block[i] # Eof
            BY <1>5, <1>6
        <3>3. \A i \in 1 .. Len(block) :
                  /\ block[i].slice \in Nat /\ block[i].slice <= current.no
                  /\ block[i].width = W[block[i].slice]
                  /\ block[i].floor = emitFloor
            BY <1>3, <1>5, <1>6
        <3>4. \A x \in Nat : x < current'.blocks =>
                  \/ x < current.blocks
                  \/ \E i \in 1 .. Len(block) : IsShard(block[i], current.no, x)
            <4>1. 1 \in 1 .. Len(block)
                  /\ IsShard(block[1], current.no, current.blocks)
                BY <1>5, <1>6
            <4> DEFINE b == current.blocks
            <4>2. b \in Nat /\ current'.blocks = b + 1
                BY <1>3, <3>1
            <4> HIDE DEF b
            <4>3. \A x \in Nat : x < current'.blocks => x < b \/ x = b
                BY <4>2
            <4> QED BY <4>1, <4>3 DEF b
        <3>5. UNCHANGED <<live, outbound, taken, eofTaken, loop>>
            BY <1>1, <2>1
        <3> QED BY <1>1, <1>2, <1>3, <1>6, <2>1, <3>1, <3>2, <3>3, <3>4, <3>5,
                   PlainTurn
    <2>3. CurrentIsNext'
        <3> DEFINE p == current.no * BlocksPerSlice
                   b == current.blocks
        <3>1. /\ p \in Nat /\ b \in Nat /\ b < BlocksPerSlice
              /\ blocksRead = p + b /\ blocksRead' = blocksRead + 1
              /\ b + 1 # BlocksPerSlice
            BY <1>1, <1>3, <1>4, <1>9
        <3> HIDE DEF p, b
        <3>2. b + 1 < BlocksPerSlice /\ blocksRead' = p + (b + 1)
            BY <3>1
        <3>3. /\ current'.blocks = b + 1
              /\ current'.no * BlocksPerSlice = p /\ ~drained'
            BY <1>1, <1>4, <2>1 DEF p, b
        <3> QED BY <3>2, <3>3 DEF CurrentIsNext
    <2>4. unsent' \in Seq(Message) /\ blocksRead' \in 0 .. SourceBlocks
          /\ wanted' \in Widths /\ drained' \in BOOLEAN
          /\ task' \in {"running", "done", "fileError", "egressClosed"}
          /\ current' \in Live /\ live' \in Seq(Live)
          /\ Len(live') <= MaxLiveSlices
        BY SMTT(30), <1>1, <1>3, <1>4, <1>6, <2>1 DEF Queue, SlicerType
    <2>5. WindowIsTail'
        <3>1. current'.no = current.no
            BY <1>4, <2>1
        <3> QED BY <1>1, <1>3, <2>1, <3>1, FeedbackType, WindowKept
    <2> QED BY <1>2, <1>7, <2>2, <2>3, <2>4, <2>5, TurnKeeps
<1> QED BY <1>8, <1>9

\* The source has ended.
LEMMA DrainStep ==
    ASSUME SlicerInv, Drain
    PROVE  SlicerInv'
<1>1. /\ unsent = <<>> /\ ~drained /\ ~WindowFull
      /\ blocksRead = SourceBlocks /\ drained' = TRUE
      /\ UNCHANGED <<wanted, blocksRead, task, outbound, feedback, loopVars>>
      /\ UNCHANGED <<needed, taken, eofTaken, loop>>
    BY DEF Drain, Selecting, loopVars
<1>2. PICK W \in [Nat -> Widths] : WidthInv(W)
    BY DEF SlicerInv
<1> DEFINE p == current.no * BlocksPerSlice
           q == (current.no + 1) * BlocksPerSlice
           b == current.blocks
<1>3. /\ QueueInv /\ SlicerType /\ CurrentIsNext /\ FloorIsCurrent
      /\ current \in Live /\ current.no \in Nat /\ current.no \in Slices
      /\ current.width \in Widths /\ current.width \in Nat
      /\ blocksRead \in 0 .. SourceBlocks
      /\ emitFloor = current.no /\ emitFloor \in Nat
      /\ current.width = W[current.no]
    <2>1. QueueInv /\ SlicerType /\ CurrentIsNext /\ FloorIsCurrent
        BY DEF SlicerInv, QueueInv
    <2>2. current.no \in Slices /\ current.no \in Nat
        BY <1>1, <2>1, CurrentWithin
    <2>3. current \in Live /\ current.width \in Widths
        BY <2>1 DEF SlicerType, Live
    <2>4. current.width \in Nat
        BY <2>3 DEF Widths
    <2>5. current.width = W[current.no]
        BY <1>2 DEF WidthInv, WidthIs
    <2>6. blocksRead \in 0 .. SourceBlocks /\ emitFloor = current.no
        BY <1>1, <2>1 DEF SlicerType, FloorIsCurrent
    <2> QED BY <2>1, <2>2, <2>3, <2>4, <2>5, <2>6
<1>4. /\ b \in Nat /\ b < BlocksPerSlice /\ p \in Nat
      /\ q = p + BlocksPerSlice /\ SourceBlocks = p + b
    <2>1. /\ b \in Nat /\ p \in Nat
        BY <1>1, <1>3, CurrentWithin
    <2>2. q = p + BlocksPerSlice
        BY <1>3, ProductGrows, current.no <= current.no
    <2>3. b < BlocksPerSlice /\ blocksRead = p + b
        BY <1>1, <1>3 DEF CurrentIsNext
    <2> QED BY <1>1, <2>1, <2>2, <2>3
<1> HIDE DEF p, q, b
<1>5. LoopType'
    BY <1>1, LoopTypeKept
<1>6. blocksRead' \in 0 .. SourceBlocks /\ drained' \in BOOLEAN
      /\ wanted' \in Widths
      /\ task' \in {"running", "done", "fileError", "egressClosed"}
    BY <1>1, <1>3 DEF SlicerType
<1>7. Eof \in Message
    BY DEF Message
<1>8. CASE current.blocks > 0
    <2> DEFINE ms == ParityOf(current) \o <<Eof>>
               w == current.width
    <2>1. Seal(current) /\ Queue(ms, current.no + 1)
        BY <1>8 DEF Drain
    <2>2. /\ ParityOf(current) \in Seq(Message) /\ Len(ParityOf(current)) = w
          /\ \A i \in 1 .. w :
                 /\ BlocksPerSlice + i - 1 \in Slots
                 /\ ParityOf(current)[i] = ShardOf(current, BlocksPerSlice + i - 1)
        BY <1>3, ParityOfType
    <2>3. w \in Nat
        BY <1>3
    <2> HIDE DEF w
    <2>4. /\ ms \in Seq(Message) /\ Len(ms) = w + 1 /\ ms[w + 1] = Eof
          /\ \A i \in 1 .. w :
                 ms[i] = ShardOf(current, BlocksPerSlice + i - 1)
        <3>1. /\ <<Eof>> \in Seq(Message) /\ Len(<<Eof>>) = 1
              /\ <<Eof>>[1] = Eof
            BY <1>7
        <3>2. /\ ms \in Seq(Message) /\ Len(ms) = w + 1
              /\ \A i \in 1 .. w + 1 : ms[i] =
                     IF i <= w THEN ParityOf(current)[i] ELSE <<Eof>>[i - w]
            BY <2>2, <3>1, ConcatProperties
        <3> HIDE DEF ms
        <3>3. ms[w + 1] = Eof
            BY <2>3, <3>1, <3>2
        <3>4. ASSUME NEW i \in 1 .. w
              PROVE  ms[i] = ParityOf(current)[i]
            BY <2>3, <3>2
        <3> QED BY <2>2, <3>2, <3>3, <3>4
    <2> HIDE DEF ms
    <2>5. ASSUME NEW i \in 1 .. w
          PROVE  /\ ms[i] # Eof /\ ms[i].slice = current.no
                 /\ ms[i].width = current.width /\ ms[i].floor = emitFloor
        <3> DEFINE y == BlocksPerSlice + i - 1
        <3>1. ms[i] = ShardOf(current, y) /\ y \in Slots
            BY <2>2, <2>4
        <3> HIDE DEF y
        <3>2. /\ ShardOf(current, y) # Eof
              /\ ShardOf(current, y).slice = current.no
              /\ ShardOf(current, y).width = current.width
              /\ ShardOf(current, y).floor = emitFloor
            BY <1>3, <3>1, ShardOfType
        <3> QED BY <3>1, <3>2, Zenon
    <2>6. BlocksIn(current.no) = current.blocks
        <3>1. ~(q <= SourceBlocks) /\ SourceBlocks - p = b
            BY <1>4
        <3> QED BY <3>1 DEF BlocksIn, p, q, b
    <2>7. SourceBlocks <= q /\ p < SourceBlocks
        BY <1>4, <1>8 DEF b
    <2>8. /\ current' \in Live /\ live' \in Seq(Live)
          /\ Len(live') <= MaxLiveSlices /\ current'.no = current.no + 1
          /\ current'.blocks = 0
          /\ WindowIsTail' /\ FloorIsCurrent'
          /\ emitFloor' \in Nat /\ floorAfter' \in Nat
          /\ \E V \in [Nat -> Widths] : WidthInv(V)'
        <3>1. /\ 0 + current.width <= Len(ms)
              /\ \A i \in 1 .. current.width :
                     ms[0 + i] = ShardOf(current, BlocksPerSlice + i - 1)
            <4>1. w <= Len(ms) /\ 0 + w = w
                BY <2>3, <2>4
            <4>2. \A i \in 1 .. w : 0 + i = i
                OBVIOUS
            <4> QED BY <2>4, <4>1, <4>2 DEF w
        <3>2. ASSUME NEW i \in 1 .. Len(ms), ms[i] = Eof
              PROVE  /\ drained'
                     /\ SourceBlocks <= (current.no + 1) * BlocksPerSlice
                     /\ 0 + current.width < i
            <4>1. ~(i \in 1 .. w)
                BY <2>5, <3>2
            <4>2. w < i
                BY <2>3, <2>4, <4>1
            <4>3. 0 + w < i
                BY <2>3, <4>2
            <4> QED BY <1>1, <2>7, <4>3 DEF w, q
        <3>3. ASSUME NEW i \in 1 .. Len(ms), ms[i] # Eof
              PROVE  /\ ms[i].slice = current.no /\ ms[i].width = current.width
                     /\ ms[i].floor = emitFloor
            <4>1. i # w + 1
                BY <2>4, <3>3
            <4>2. i \in 1 .. w
                BY <2>3, <2>4, <4>1
            <4> QED BY <2>5, <4>2
        <3>4. \A x \in Nat : x < current.blocks =>
                  \/ x < current.blocks
                  \/ 0 = 1 /\ IsShard(ms[1], current.no, x)
            OBVIOUS
        <3>5. 0 \in Nat
            OBVIOUS
        <3> QED BY <1>1, <1>2, <1>3, <1>8, <2>1, <2>4, <2>6, <3>1, <3>2, <3>3,
                   <3>4, <3>5, SealTurn
    <2>9. CurrentIsNext'
        <3>1. /\ current'.no * BlocksPerSlice = q
              /\ (current'.no - 1) * BlocksPerSlice = p
            <4>1. current'.no = current.no + 1 /\ current'.no - 1 = current.no
                BY <1>3, <2>8
            <4> QED BY <4>1 DEF p, q
        <3> QED BY <1>1, <2>7, <2>8, <3>1 DEF CurrentIsNext
    <2>10. unsent' \in Seq(Message)
        BY <2>1, <2>4 DEF Queue
    <2> QED BY <1>5, <1>6, <2>8, <2>9, <2>10, TurnKeeps
<1>9. CASE ~(current.blocks > 0)
    <2> DEFINE ms == <<Eof>>
    <2>1. /\ UNCHANGED <<current, live>> /\ Queue(ms, emitFloor)
        BY <1>9 DEF Drain
    <2>2. ms \in Seq(Message) /\ Len(ms) = 1 /\ ms[1] = Eof
        BY <1>7
    <2> HIDE DEF ms
    <2>3. b = 0 /\ SourceBlocks = p
        BY <1>4, <1>9 DEF b
    <2>4. /\ FloorIsCurrent' /\ WidthInv(W)'
          /\ emitFloor' \in Nat /\ floorAfter' \in Nat
        <3>1. /\ current' \in Live /\ current'.no = current.no
              /\ current'.width = current.width /\ (drained => drained')
              /\ current'.blocks = current.blocks
              /\ UNCHANGED <<live, outbound, taken, eofTaken, loop>>
            BY <1>1, <1>3, <2>1
        <3>2. \A i \in 1 .. Len(ms) : ms[i] = Eof =>
                  drained' /\ SourceBlocks <= current.no * BlocksPerSlice
            BY <1>1, <1>4, <2>3 DEF p
        <3>3. \A i \in 1 .. Len(ms) : ms[i] = Eof
            BY <2>2
        <3>4. \A x \in Nat : x < current'.blocks => x < current.blocks
            BY <3>1
        <3> QED BY <1>1, <1>2, <1>3, <2>1, <2>2, <3>1, <3>2, <3>3, <3>4, PlainTurn
    <2>5. CurrentIsNext'
        <3>1. ASSUME current.no # 0
              PROVE  (current.no - 1) * BlocksPerSlice < SourceBlocks
            <4> DEFINE n == current.no - 1
                       r == n * BlocksPerSlice
            <4>1. n \in Nat /\ current.no = n + 1
                BY <1>3, <3>1
            <4> HIDE DEF n
            <4>2. r \in Nat /\ (n + 1) * BlocksPerSlice = r + BlocksPerSlice
                BY <4>1, ProductGrows, n <= n
            <4> HIDE DEF r
            <4>3. p = r + BlocksPerSlice
                BY <4>1, <4>2 DEF p
            <4>4. r < SourceBlocks
                BY <2>3, <4>2, <4>3
            <4> QED BY <4>4 DEF r, n
        <3>2. SourceBlocks <= p /\ 0 < BlocksPerSlice
            BY <1>4, <2>3
        <3>3. /\ current' = current /\ drained' = TRUE /\ current.blocks = 0
            BY <1>1, <2>1, <2>3 DEF b
        <3> QED BY <3>1, <3>2, <3>3 DEF CurrentIsNext, p
    <2>6. unsent' \in Seq(Message) /\ current' \in Live /\ live' \in Seq(Live)
          /\ Len(live') <= MaxLiveSlices
        BY <1>3, <2>1, <2>2 DEF Queue, SlicerType
    <2>7. WindowIsTail'
        BY <1>1, <1>3, <2>1, FeedbackType, WindowKept
    <2> QED BY <1>2, <1>5, <1>6, <2>4, <2>5, <2>6, <2>7, TurnKeeps
<1> QED BY <1>8, <1>9

\* A step that changes neither a slice, nor a message, nor what was taken.
LEMMA NothingMoves ==
    ASSUME SlicerInv,
           UNCHANGED <<current, live, emitFloor, blocksRead, drained, unsent,
                       floorAfter, outbound, taken, eofTaken>>,
           needed' \in Nat, needed <= needed',
           wanted' \in Widths, covering' \in Widths,
           task' \in {"running", "done", "fileError", "egressClosed"},
           feedback' \in Seq(FeedbackMessage),
           \A i \in 1 .. Len(feedback') :
               feedback'[i].kind = "needed" => feedback'[i].slice <= needed',
           loop' \in {"running", "joining", "returned"},
           result' \in {"none", "noParticipants", "ok", "incomplete",
                        "egressClosed", "ioError"},
           loop' = "running" => loop = "running"
    PROVE  SlicerInv'
<1>1. QueueInv /\ needed \in Nat /\ current.no \in Nat /\ Len(live) \in Nat
    <2>1. live \in Seq(Live)
        BY DEF SlicerInv, QueueInv, SlicerType
    <2> QED BY <2>1, LenProperties
            DEF SlicerInv, QueueInv, LoopType, SlicerType, Live
<1>2. SlicerType' /\ LoopType'
    BY <1>1 DEF QueueInv, SlicerType, LoopType
<1>3. CurrentIsNext'
    BY <1>1 DEF QueueInv, CurrentIsNext
<1>4. WindowIsTail'
    BY SMTT(30), <1>1 DEF QueueInv, WindowIsTail
<1>5. Stream' = Stream
    BY DEF Stream
<1>6. FloorIsCurrent'
    BY <1>1, <1>5 DEF QueueInv, FloorIsCurrent
<1>7. PICK W \in [Nat -> Widths] : WidthInv(W)
    BY DEF SlicerInv
<1>8. WidthInv(W)'
    BY <1>5, <1>7, WidthFrame
<1> QED BY <1>2, <1>3, <1>4, <1>6, <1>8 DEF SlicerInv, QueueInv

\* Reading fails, or the slicer finds the loop gone.
LEMMA ReadFailsStep ==
    ASSUME SlicerInv, ReadFails \/ OnClosed
    PROVE  SlicerInv'
<1>1. /\ UNCHANGED <<current, live, wanted, emitFloor, blocksRead, drained,
                     unsent, floorAfter, outbound, feedback>>
      /\ UNCHANGED <<needed, covering, taken, eofTaken, loop, result>>
      /\ task' \in {"running", "done", "fileError", "egressClosed"}
    BY DEF ReadFails, OnClosed, windowVars, readerVars, loopVars
<1> QED BY <1>1, FeedbackType, NothingMoves

\* A message goes from the slicer into the channel.
LEMMA SendStep ==
    ASSUME SlicerInv, Send
    PROVE  SlicerInv'
<1>1. /\ UNCHANGED <<current, live, wanted, blocksRead, drained, floorAfter,
                     feedback>>
      /\ UNCHANGED <<needed, covering, taken, eofTaken, loop, result>>
      /\ unsent # <<>>
    BY DEF Send, windowVars, loopVars
<1>2. CASE loop = "returned"
    <2>1. UNCHANGED <<unsent, emitFloor, outbound>> /\ task' = "egressClosed"
        BY <1>2 DEF Send
    <2> QED BY <1>1, <2>1, FeedbackType, NothingMoves
<1>3. CASE loop # "returned"
    <2>1. /\ Len(outbound) < Capacity
          /\ outbound' = Append(outbound, Head(unsent))
          /\ unsent' = Tail(unsent) /\ task' = task
          /\ emitFloor' = IF Tail(unsent) = <<>> THEN floorAfter ELSE emitFloor
        BY <1>3 DEF Send
    <2>2. /\ QueueInv /\ outbound \in Seq(Message) /\ unsent \in Seq(Message)
          /\ Len(outbound) \in Nat /\ Len(outbound) <= Capacity
        BY LenProperties DEF SlicerInv, QueueInv, LoopType, SlicerType
    <2>3. Stream' = Stream
        BY <1>1, <2>1, <2>2, MoveOne DEF Stream
    <2>4. Head(unsent) \in Message /\ unsent' \in Seq(Message)
        BY <1>1, <2>1, <2>2, HeadTailProperties
    <2>5. outbound' \in Seq(Message) /\ Len(outbound') = Len(outbound) + 1
        BY <2>1, <2>2, <2>4, AppendProperties
    <2>6. emitFloor' \in Nat
        BY <2>1, <2>2 DEF QueueInv, SlicerType
    <2>7. SlicerType'
        BY <1>1, <2>1, <2>2, <2>4, <2>6 DEF QueueInv, SlicerType
    <2>8. Len(outbound') <= Capacity
        BY <2>1, <2>2, <2>5
    <2>9. LoopType'
        BY <1>1, <2>2, <2>5, <2>8 DEF QueueInv, LoopType
    <2>10. CurrentIsNext' /\ WindowIsTail'
        BY <1>1, <2>2 DEF QueueInv, CurrentIsNext, WindowIsTail
    <2>11. FloorIsCurrent'
        BY <1>1, <2>1, <2>2, <2>3 DEF QueueInv, FloorIsCurrent
    <2>12. PICK W \in [Nat -> Widths] : WidthInv(W)
        BY DEF SlicerInv
    <2>13. WidthInv(W)'
        BY <1>1, <2>3, <2>12, WidthFrame
    <2> QED BY <2>7, <2>9, <2>10, <2>11, <2>13 DEF SlicerInv, QueueInv
<1> QED BY <1>2, <1>3

\* What the window has of a slice that is asked for again.
LEMMA AvailableShards ==
    ASSUME SlicerInv, NEW W \in [Nat -> Widths], WidthInv(W),
           NEW s \in Slices, NEW slots \in SUBSET DataSlots
    PROVE  /\ Cardinality(Available(s, slots)) \in Nat
           /\ \A m \in Available(s, slots) :
                  /\ m \in Shard /\ m # Eof /\ m.slice = s /\ m.width = W[s]
                  /\ m.floor = emitFloor /\ s <= current.no
<1>1. /\ QueueInv /\ SlicerType /\ current \in Live /\ current.no \in Nat
      /\ live \in Seq(Live) /\ Len(live) \in Nat
    BY LenProperties DEF SlicerInv, QueueInv, SlicerType, Live
<1>2. s \in Nat
    BY DEF Slices
<1>3. ASSUME NEW slice \in SliceOf(s)
      PROVE  slice \in Live /\ slice.no = s /\ slice.width = W[s]
             /\ s <= current.no
    <2>1. slice.no = s /\ (slice = current \/ slice \in Range(live))
        BY <1>3 DEF SliceOf
    <2>2. CASE slice = current
        BY <1>1, <2>1, <2>2 DEF WidthInv, WidthIs
    <2>3. CASE slice \in Range(live)
        <3>1. DOMAIN live = 1 .. Len(live)
            BY <1>1, LenProperties
        <3>2. PICK i \in 1 .. Len(live) : slice = live[i]
            BY <2>3, <3>1 DEF Range
        <3>3. slice \in Live
            BY <1>1, <3>2, ElementOfSeq
        <3>4. live[i].no = current.no - Len(live) + i - 1
            BY <1>1 DEF QueueInv, WindowIsTail
        <3>5. s <= current.no
            BY <1>1, <1>2, <2>1, <3>2, <3>4
        <3>6. live[i].width = W[live[i].no]
            BY DEF WidthInv, WidthIs
        <3> QED BY <2>1, <3>2, <3>3, <3>5, <3>6
    <2> QED BY <2>1, <2>2, <2>3
<1>4. ASSUME NEW m \in Available(s, slots)
      PROVE  \E slice \in SliceOf(s), x \in DataSlots : m = ShardOf(slice, x)
    BY <1>4 DEF Available
<1>5. ASSUME NEW m \in Available(s, slots)
      PROVE  /\ m \in Shard /\ m # Eof /\ m.slice = s /\ m.width = W[s]
             /\ m.floor = emitFloor /\ s <= current.no
    <2>1. PICK slice \in SliceOf(s), x \in DataSlots : m = ShardOf(slice, x)
        BY <1>4, <1>5
    <2>2. x \in Slots
        BY DEF Slots, DataSlots
    <2> QED BY <1>1, <1>3, <2>1, <2>2, ShardOfType
<1> DEFINE f == [x \in DataSlots |-> [slice |-> s, slot |-> x, width |-> W[s],
                                      floor |-> emitFloor]]
           T == {f[x] : x \in DataSlots}
<1>6. IsFiniteSet(T)
    <2>1. IsFiniteSet(DataSlots)
        BY FS_Interval DEF DataSlots
    <2>2. f \in Surjection(DataSlots, T)
        BY DEF Surjection
    <2> HIDE DEF f, T
    <2> QED BY <2>1, <2>2, FS_Surjection
<1>7. ASSUME NEW m \in Available(s, slots)
      PROVE  m \in T
    <2>1. PICK slice \in SliceOf(s), x \in DataSlots : m = ShardOf(slice, x)
        BY <1>4, <1>7
    <2>2. m = f[x]
        BY <1>3, <2>1 DEF ShardOf
    <2> QED BY <2>2
<1> HIDE DEF T
<1>8. Available(s, slots) \in SUBSET T
    BY <1>7
<1>9. Cardinality(Available(s, slots)) \in Nat
    BY <1>6, <1>8, FS_Subset, FS_CardinalityType
<1> QED BY <1>5, <1>9

\* The head of the feedback channel, and what stays in it.
LEMMA FeedbackTail ==
    ASSUME SlicerInv, feedback # <<>>
    PROVE  /\ Head(feedback) \in FeedbackMessage
           /\ Head(feedback).kind = "needed" =>
                  Head(feedback).slice \in Nat /\ Head(feedback).slice <= needed
           /\ Head(feedback).kind = "cover" => Head(feedback).width \in Widths
           /\ Head(feedback).kind = "resend" =>
                  /\ Head(feedback).slice \in Slices
                  /\ Head(feedback).slots \in SUBSET DataSlots
           /\ Tail(feedback) \in Seq(FeedbackMessage)
           /\ \A i \in 1 .. Len(Tail(feedback)) :
                  Tail(feedback)[i].kind = "needed" =>
                      Tail(feedback)[i].slice <= needed
<1>1. /\ feedback \in Seq(FeedbackMessage)
      /\ \A i \in 1 .. Len(feedback) :
             feedback[i].kind = "needed" => feedback[i].slice <= needed
    BY FeedbackType
<1> DEFINE m == Head(feedback)
           rest == Tail(feedback)
<1>2. /\ m \in FeedbackMessage /\ rest \in Seq(FeedbackMessage)
      /\ Len(rest) = Len(feedback) - 1
      /\ \A i \in 1 .. Len(rest) : rest[i] = feedback[i + 1]
    BY <1>1, HeadTailProperties
<1>3. m = feedback[1] /\ Len(feedback) \in Nat \ {0}
    BY <1>1, LenProperties, EmptySeq
<1> HIDE DEF m, rest
<1>4. /\ m.kind = "needed" => m.slice \in Nat
      /\ m.kind = "cover" => m.width \in Widths
      /\ m.kind = "resend" => m.slice \in Slices /\ m.slots \in SUBSET DataSlots
    BY <1>2 DEF FeedbackMessage
<1>5. m.kind = "needed" => m.slice <= needed
    BY <1>1, <1>3, 1 \in 1 .. Len(feedback)
<1>6. ASSUME NEW i \in 1 .. Len(rest), rest[i].kind = "needed"
      PROVE  rest[i].slice <= needed
    <2>1. i + 1 \in 1 .. Len(feedback) /\ rest[i] = feedback[i + 1]
        BY <1>2, <1>3
    <2> QED BY <1>1, <1>6, <2>1
<1> QED BY <1>2, <1>4, <1>5, <1>6 DEF m, rest

\* The slicer reads what the loop says.
LEMMA OnFeedbackStep ==
    ASSUME SlicerInv, OnFeedback
    PROVE  SlicerInv'
<1> DEFINE m == Head(feedback)
<1>1. /\ unsent = <<>> /\ feedback # <<>> /\ feedback' = Tail(feedback)
      /\ UNCHANGED <<blocksRead, drained, outbound, loopVars>>
      /\ UNCHANGED <<needed, covering, taken, eofTaken, loop, result>>
    BY DEF OnFeedback, Selecting, loopVars
<1>2. /\ m \in FeedbackMessage
      /\ m.kind = "needed" => m.slice \in Nat /\ m.slice <= needed
      /\ m.kind = "cover" => m.width \in Widths
      /\ m.kind = "resend" => m.slice \in Slices /\ m.slots \in SUBSET DataSlots
      /\ feedback' \in Seq(FeedbackMessage)
      /\ \A i \in 1 .. Len(feedback') :
             feedback'[i].kind = "needed" => feedback'[i].slice <= needed
    BY <1>1, FeedbackTail
<1>3. /\ QueueInv /\ SlicerType /\ LoopType /\ WindowIsTail /\ FloorIsCurrent
      /\ current \in Live /\ live \in Seq(Live) /\ Len(live) \in Nat
      /\ current.no \in Nat /\ needed \in Nat /\ emitFloor = current.no
    <2>1. QueueInv /\ SlicerType /\ LoopType /\ WindowIsTail /\ FloorIsCurrent
        BY DEF SlicerInv, QueueInv
    <2>2. current \in Live /\ live \in Seq(Live) /\ needed \in Nat
        BY <2>1 DEF SlicerType, LoopType
    <2>3. current.no \in Nat /\ Len(live) \in Nat /\ emitFloor = current.no
        BY <1>1, <2>1, <2>2, LenProperties DEF Live, FloorIsCurrent
    <2> QED BY <2>1, <2>2, <2>3
<1>4. PICK W \in [Nat -> Widths] : WidthInv(W)
    BY DEF SlicerInv
<1>5. LoopType'
    BY <1>1, <1>2, <1>3 DEF LoopType
<1>6. CASE m.kind = "needed"
    <2>1. PICK k \in 0 .. Len(live) :
              Pop(k, m.slice) /\ live' = SubSeq(live, k + 1, Len(live))
        BY <1>6 DEF OnFeedback
    <2>2. UNCHANGED <<current, wanted, emitFloor, unsent, floorAfter, task>>
        BY <1>6 DEF OnFeedback
    <2>3. /\ live' \in Seq(Live) /\ Len(live') = Len(live) - k
          /\ \A i \in 1 .. Len(live') : live'[i] = live[k + i]
        <3>1. \A i \in k + 1 .. Len(live) : live[i] \in Live
            BY <1>3, ElementOfSeq
        <3>2. /\ live' \in Seq(Live)
              /\ Len(live') = IF k + 1 <= Len(live)
                              THEN Len(live) - (k + 1) + 1 ELSE 0
              /\ \A i \in 1 .. Len(live) - (k + 1) + 1 :
                     live'[i] = live[k + 1 + i - 1]
            BY <1>3, <2>1, <3>1, SubSeqProperties
        <3>3. Len(live') = Len(live) - k
            BY <1>3, <3>2
        <3>4. \A i \in 1 .. Len(live') : k + 1 + i - 1 = k + i
            BY <1>3, <3>3
        <3>5. ASSUME NEW i \in 1 .. Len(live')
              PROVE  live'[i] = live[k + i]
            <4>1. i \in 1 .. Len(live) - (k + 1) + 1
                BY <1>3, <3>3
            <4>2. live'[i] = live[k + 1 + i - 1]
                BY <3>2, <4>1
            <4> QED BY <3>4, <4>2
        <3> QED BY <3>2, <3>3, <3>5
    <2>4. ASSUME NEW i \in 1 .. Len(live')
          PROVE  k + i \in 1 .. Len(live) /\ live'[i] = live[k + i]
        BY <1>3, <2>3, <2>4
    <2>5. ASSUME NEW i \in 1 .. Len(live')
          PROVE  /\ live'[i].no = current.no - Len(live') + i - 1
                 /\ live'[i].blocks > 0
        <3>1. /\ live[k + i].no = current.no - Len(live) + (k + i) - 1
              /\ live[k + i].blocks > 0
            BY <1>3, <2>4 DEF WindowIsTail
        <3>2. current.no - Len(live) + (k + i) - 1 =
                  current.no - Len(live') + i - 1
            BY <1>3, <2>3
        <3> QED BY <2>4, <3>1, <3>2
    <2>6. current.no - Len(live') <= needed
        <3>1. CASE k = 0
            BY <1>3, <2>3, <3>1 DEF WindowIsTail
        <3>2. CASE k > 0
            <4>1. k \in 1 .. Len(live) /\ k \in 1 .. k
                BY <1>3, <3>2
            <4>2. live[k].no < m.slice
                BY <2>1, <4>1 DEF Pop
            <4>3. live[k].no = current.no - Len(live) + k - 1
                BY <1>3, <4>1 DEF WindowIsTail
            <4>4. m.slice \in Nat /\ m.slice <= needed
                BY <1>2, <1>6
            <4> HIDE DEF m
            <4> QED BY <1>3, <2>3, <4>1, <4>2, <4>3, <4>4
        <3> QED BY <3>1, <3>2
    <2>7. WindowIsTail'
        BY <1>1, <1>2, <2>2, <2>5, <2>6 DEF WindowIsTail
    <2>8. Stream' = Stream
        BY <1>1, <2>2 DEF Stream
    <2>9. FloorIsCurrent'
        BY <1>1, <1>3, <2>2, <2>8 DEF FloorIsCurrent
    <2>10. WidthInv(W)'
        <3>1. WidthIs(W)'
            BY SMTT(30), <1>1, <1>4, <2>2, <2>4, <2>8 DEF WidthInv, WidthIs
        <3>2. OrderIsKept(W)' /\ TakenIsWhole(W)'
            BY <1>1, <1>4, <2>2, <2>8
               DEF WidthInv, OrderIsKept, TakenIsWhole
        <3> QED BY <3>1, <3>2 DEF WidthInv
    <2>11. CurrentIsNext'
        BY <1>1, <1>3, <2>2 DEF QueueInv, CurrentIsNext
    <2>12. Len(live') <= MaxLiveSlices
        <3>1. Len(live) <= MaxLiveSlices
            BY <1>3 DEF SlicerType
        <3> QED BY <1>3, <2>3, <3>1
    <2>13. /\ current' \in Live /\ wanted' \in Widths /\ emitFloor' \in Nat
           /\ floorAfter' \in Nat /\ blocksRead' \in 0 .. SourceBlocks
           /\ drained' \in BOOLEAN /\ unsent' \in Seq(Message)
           /\ task' \in {"running", "done", "fileError", "egressClosed"}
        BY <1>1, <1>3, <2>2 DEF SlicerType
    <2> QED BY <1>5, <2>3, <2>7, <2>9, <2>10, <2>11, <2>12, <2>13, TurnKeeps
<1>7. CASE m.kind = "cover" \/ m.kind = "done"
    <2>1. /\ UNCHANGED <<current, live, emitFloor, unsent, floorAfter>>
          /\ task' \in {"running", "done", "fileError", "egressClosed"}
          /\ wanted' \in Widths
        <3>1. CASE m.kind = "cover"
            <4>1. /\ UNCHANGED <<current, live, emitFloor, unsent, floorAfter,
                                 task>>
                  /\ wanted' = IF m.width < MaxParity THEN m.width
                               ELSE MaxParity
                BY <3>1 DEF OnFeedback
            <4>2. wanted' \in Widths
                BY <1>2, <3>1, <4>1 DEF Widths
            <4> QED BY <1>3, <4>1, <4>2 DEF SlicerType
        <3>2. CASE m.kind = "done"
            BY <1>3, <3>2 DEF OnFeedback, SlicerType, windowVars
        <3> QED BY <1>7, <3>1, <3>2
    <2>2. /\ needed' \in Nat /\ needed <= needed' /\ covering' \in Widths
          /\ loop' \in {"running", "joining", "returned"}
          /\ result' \in {"none", "noParticipants", "ok", "incomplete",
                          "egressClosed", "ioError"}
          /\ loop' = "running" => loop = "running"
        BY <1>1, <1>3 DEF LoopType
    <2> QED BY <1>1, <1>2, <2>1, <2>2, NothingMoves
<1>8. CASE m.kind = "resend"
    <2> DEFINE shards == Available(m.slice, m.slots)
    <2>1. PICK ms \in InOrder(shards) : Queue(ms, emitFloor)
        BY <1>8 DEF OnFeedback
    <2>2. UNCHANGED <<current, live, wanted, task>>
        BY <1>8 DEF OnFeedback, windowVars
    <2>3. /\ Cardinality(shards) \in Nat
          /\ \A x \in shards :
                 /\ x \in Shard /\ x # Eof /\ x.slice = m.slice
                 /\ x.width = W[m.slice]
                 /\ x.floor = emitFloor /\ m.slice <= current.no
        BY <1>2, <1>4, <1>8, AvailableShards
    <2>4. m.slice \in Nat
        BY <1>2, <1>8 DEF Slices
    <2> DEFINE no == m.slice
    <2>5. ms \in [1 .. Cardinality(shards) -> shards]
        BY DEF InOrder
    <2> HIDE DEF shards
    <2>6. /\ ms \in [1 .. Cardinality(shards) -> Message]
          /\ Len(ms) = Cardinality(shards)
        <3>1. ms \in [1 .. Cardinality(shards) -> Message]
            BY <2>3, <2>5 DEF Message
        <3> QED BY <2>3, <3>1, FunctionIsSeq
    <2>7. ms \in Seq(Message)
        BY <2>3, <2>6, FunctionIsSeq
    <2>8. \A i \in 1 .. Len(ms) :
              /\ ms[i] # Eof
              /\ ms[i].slice \in Nat /\ ms[i].slice <= current.no
              /\ ms[i].width = W[ms[i].slice] /\ ms[i].floor = emitFloor
        <3>1. \A i \in 1 .. Len(ms) : ms[i] \in shards
            BY <2>5, <2>6
        <3> QED BY <2>3, <2>4, <3>1
    <2>9. /\ FloorIsCurrent' /\ WidthInv(W)'
          /\ emitFloor' \in Nat /\ floorAfter' \in Nat
        <3>1. /\ current' \in Live /\ current'.no = current.no
              /\ current'.width = current.width /\ (drained => drained')
              /\ current'.blocks = current.blocks
              /\ UNCHANGED <<live, outbound, taken, eofTaken, loop>>
            BY <1>1, <1>3, <2>2
        <3> QED BY <1>1, <1>2, <1>3, <1>4, <2>1, <2>7, <2>8, <3>1, PlainTurn
    <2>10. CurrentIsNext'
        BY <1>1, <1>3, <2>2 DEF QueueInv, CurrentIsNext
    <2>11. /\ current' \in Live /\ wanted' \in Widths
           /\ live' \in Seq(Live) /\ Len(live') <= MaxLiveSlices
           /\ blocksRead' \in 0 .. SourceBlocks
           /\ drained' \in BOOLEAN /\ unsent' \in Seq(Message)
           /\ task' \in {"running", "done", "fileError", "egressClosed"}
        BY <1>1, <1>3, <2>1, <2>2, <2>7 DEF Queue, SlicerType
    <2>12. WindowIsTail'
        BY <1>1, <1>2, <1>3, <2>2, WindowKept
    <2> QED BY <1>4, <1>5, <2>9, <2>10, <2>11, <2>12, TurnKeeps
<1> QED BY <1>6, <1>7, <1>8 DEF OnFeedback

-----------------------------------------------------------------------------
(* The steps of the loop.                                                   *)

\* A batch moves from the front of the stream to what was taken.
LEMMA TakeStream ==
    ASSUME SlicerInv, NEW n \in 1 .. Len(outbound),
           outbound' = SubSeq(outbound, n + 1, Len(outbound)),
           taken' = taken \cup (Range(SubSeq(outbound, 1, n)) \ {Eof}),
           eofTaken' = (eofTaken \/ Eof \in Range(SubSeq(outbound, 1, n))),
           UNCHANGED unsent
    PROVE  /\ Stream \in Seq(Message) /\ n \in 1 .. Len(Stream)
           /\ outbound' \in Seq(Message) /\ Len(outbound') <= Capacity
           /\ Len(Stream') \in Nat /\ Len(Stream') = Len(Stream) - n
           /\ \A i \in 1 .. Len(Stream') :
                  i + n \in 1 .. Len(Stream) /\ Stream'[i] = Stream[i + n]
           /\ \A i \in 1 .. n : Stream[i] # Eof => Stream[i] \in taken'
           /\ \A m \in taken' :
                  m \in taken \/ \E i \in 1 .. n : m = Stream[i] /\ m # Eof
           /\ eofTaken' => eofTaken \/ \E i \in 1 .. n : Stream[i] = Eof
<1> DEFINE b == Len(outbound)
           u == Len(unsent)
           batch == SubSeq(outbound, 1, n)
<1>1. /\ outbound \in Seq(Message) /\ unsent \in Seq(Message)
      /\ b <= Capacity
    BY DEF SlicerInv, QueueInv, SlicerType, LoopType
<1>2. b \in Nat /\ u \in Nat /\ n \in Nat /\ n >= 1 /\ n <= b
    BY <1>1, LenProperties
<1>3. /\ Stream \in Seq(Message) /\ Len(Stream) = b + u
      /\ \A i \in 1 .. b + u : Stream[i] =
             IF i <= b THEN outbound[i] ELSE unsent[i - b]
    BY <1>1, ConcatProperties DEF Stream
<1>4. \A i \in 1 .. b : outbound[i] \in Message
    BY <1>1, ElementOfSeq
<1>5. /\ outbound' \in Seq(Message)
      /\ Len(outbound') = IF n + 1 <= b THEN b - (n + 1) + 1 ELSE 0
      /\ \A i \in 1 .. b - (n + 1) + 1 : outbound'[i] = outbound[n + 1 + i - 1]
    <2>1. \A i \in n + 1 .. b : outbound[i] \in Message
        BY <1>2, <1>4
    <2>2. n + 1 \in Int /\ b \in Int
        BY <1>2
    <2> HIDE DEF b
    <2>3. /\ SubSeq(outbound, n + 1, b) \in Seq(Message)
          /\ Len(SubSeq(outbound, n + 1, b)) =
                 IF n + 1 <= b THEN b - (n + 1) + 1 ELSE 0
          /\ \A i \in 1 .. b - (n + 1) + 1 :
                 SubSeq(outbound, n + 1, b)[i] = outbound[n + 1 + i - 1]
        BY <2>1, <2>2, SubSeqProperties
    <2> QED BY <2>3 DEF b
<1>6. /\ Len(batch) = n
      /\ DOMAIN batch = 1 .. n
      /\ \A i \in 1 .. n : batch[i] = outbound[i]
    <2>1. \A i \in 1 .. n : outbound[i] \in Message
        BY <1>2, <1>4
    <2>2. /\ batch \in Seq(Message)
          /\ Len(batch) = IF 1 <= n THEN n - 1 + 1 ELSE 0
          /\ \A i \in 1 .. n - 1 + 1 : batch[i] = outbound[1 + i - 1]
        BY <1>2, <2>1, SubSeqProperties
    <2> HIDE DEF batch
    <2>3. Len(batch) = n
        BY <1>2, <2>2
    <2>4. DOMAIN batch = 1 .. n
        BY <2>2, <2>3, LenProperties
    <2>5. ASSUME NEW i \in 1 .. n
          PROVE  batch[i] = outbound[i]
        <3>1. i \in 1 .. n - 1 + 1 /\ 1 + i - 1 = i
            BY <1>2
        <3> QED BY <2>2, <3>1
    <2> QED BY <2>3, <2>4, <2>5
<1>7. Range(batch) = {Stream[i] : i \in 1 .. n}
    <2>1. \A i \in 1 .. n : batch[i] = Stream[i]
        <3>1. \A i \in 1 .. n : i \in 1 .. b + u /\ i <= b
            BY <1>2
        <3> QED BY <1>3, <1>6, <3>1
    <2>2. Range(batch) = {batch[i] : i \in 1 .. n}
        BY <1>6 DEF Range
    <2> QED BY <2>1, <2>2
<1>8. Len(outbound') = b - n
    BY <1>2, <1>5
<1>9. /\ Stream' = outbound' \o unsent
      /\ Len(Stream') = (b - n) + u
      /\ \A i \in 1 .. (b - n) + u : Stream'[i] =
             IF i <= b - n THEN outbound'[i] ELSE unsent[i - (b - n)]
    <2>1. Stream' = outbound' \o unsent
        BY DEF Stream
    <2> QED BY SMTT(30), <1>1, <1>5, <1>8, <2>1, ConcatProperties
<1> HIDE DEF b, u, batch
<1>10. Len(Stream') = Len(Stream) - n /\ Len(Stream') \in Nat
       /\ n \in 1 .. Len(Stream)
    BY SMTT(30), <1>2, <1>3, <1>9
<1>11. ASSUME NEW i \in 1 .. Len(Stream')
       PROVE  i + n \in 1 .. Len(Stream) /\ Stream'[i] = Stream[i + n]
    <2>1. i \in Nat /\ i + n \in 1 .. b + u
          /\ i \in 1 .. (b - n) + u
        BY <1>2, <1>9, <1>11
    <2>2. CASE i <= b - n
        <3>1. i + n <= b /\ i \in 1 .. b - (n + 1) + 1 /\ n + 1 + i - 1 = i + n
            BY <1>2, <2>1, <2>2
        <3>2. Stream'[i] = outbound'[i] /\ Stream[i + n] = outbound[i + n]
            BY <1>3, <1>9, <2>1, <2>2, <3>1
        <3>3. outbound'[i] = outbound[i + n]
            BY <1>5, <3>1
        <3> QED BY <1>3, <2>1, <3>2, <3>3
    <2>3. CASE ~(i <= b - n)
        <3>1. ~(i + n <= b) /\ i - (b - n) = (i + n) - b
            BY <1>2, <2>1, <2>3
        <3>2. Stream'[i] = unsent[i - (b - n)]
            BY <1>9, <2>1, <2>3
        <3>3. Stream[i + n] = unsent[(i + n) - b]
            <4> DEFINE k == i + n
            <4>1. k \in 1 .. b + u /\ ~(k <= b)
                BY <2>1, <3>1
            <4> HIDE DEF k
            <4>2. Stream[k] = unsent[k - b]
                BY <1>3, <4>1
            <4> QED BY <4>2 DEF k
        <3>4. i + n \in 1 .. Len(Stream)
            BY <1>3, <2>1
        <3> QED BY <3>1, <3>2, <3>3, <3>4
    <2> QED BY <2>2, <2>3
<1>12. Len(outbound') <= Capacity
    BY <1>1, <1>2, <1>8
<1> USE DEF batch
<1>13. \A i \in 1 .. n : Stream[i] # Eof => Stream[i] \in taken'
    BY <1>7
<1>14. \A m \in taken' :
           m \in taken \/ \E i \in 1 .. n : m = Stream[i] /\ m # Eof
    BY <1>7
<1>15. eofTaken' => eofTaken \/ \E i \in 1 .. n : Stream[i] = Eof
    BY <1>7
<1> QED BY <1>3, <1>5, <1>10, <1>11, <1>12, <1>13, <1>14, <1>15

LEMMA TakeStep ==
    ASSUME SlicerInv, Take
    PROVE  SlicerInv'
<1>1. /\ loop = "running"
      /\ UNCHANGED <<current, live, wanted, emitFloor, blocksRead, drained,
                     unsent, floorAfter, task, feedback>>
      /\ UNCHANGED <<loop, result, covering, needed>>
    BY DEF Take, windowVars, readerVars
<1>2. PICK n \in 1 .. Len(outbound) :
          /\ outbound' = SubSeq(outbound, n + 1, Len(outbound))
          /\ taken' = taken \cup (Range(SubSeq(outbound, 1, n)) \ {Eof})
          /\ eofTaken' = (eofTaken \/ Eof \in Range(SubSeq(outbound, 1, n)))
    BY DEF Take
<1>3. PICK W \in [Nat -> Widths] : WidthInv(W)
    BY DEF SlicerInv
<1>4. /\ QueueInv /\ LoopType /\ current.no \in Nat /\ current.blocks \in Nat
    BY DEF SlicerInv, QueueInv, SlicerType, Live
<1>5. /\ Stream \in Seq(Message) /\ n \in 1 .. Len(Stream)
      /\ outbound' \in Seq(Message) /\ Len(outbound') <= Capacity
      /\ Len(Stream') \in Nat /\ Len(Stream') = Len(Stream) - n
    BY <1>1, <1>2, TakeStream
<1>6. \A i \in 1 .. Len(Stream') :
          i + n \in 1 .. Len(Stream) /\ Stream'[i] = Stream[i + n]
    BY <1>1, <1>2, TakeStream
<1>7. \A i \in 1 .. n : Stream[i] # Eof => Stream[i] \in taken'
    BY <1>1, <1>2, TakeStream
<1>8. \A m \in taken' :
          m \in taken \/ \E i \in 1 .. n : m = Stream[i] /\ m # Eof
    BY <1>1, <1>2, TakeStream
<1>9. eofTaken' => eofTaken \/ \E i \in 1 .. n : Stream[i] = Eof
    BY <1>1, <1>2, TakeStream
<1>10. \A i \in 1 .. n : i \in 1 .. Len(Stream)
    <2>1. Len(Stream) \in Nat
        BY <1>5, LenProperties
    <2> QED BY <1>5, <2>1
<1>11. \A i \in 1 .. Len(Stream) : Stream[i] # Eof => Stream[i] \in Shard
    BY <1>5, ElementOfSeq DEF Message
<1>12. taken' \subseteq Shard
    BY <1>4, <1>8, <1>10, <1>11 DEF LoopType
<1>13. eofTaken' \in BOOLEAN
    BY <1>2
<1>14. LoopType'
    BY <1>1, <1>4, <1>5, <1>12, <1>13 DEF LoopType
<1>15. SlicerType' /\ CurrentIsNext' /\ WindowIsTail'
    BY <1>1, <1>4 DEF QueueInv, SlicerType, CurrentIsNext, WindowIsTail
<1>16. FloorIsCurrent'
    <2>1. ASSUME NEW i \in 1 .. Len(Stream')
          PROVE  IF Stream'[i] = Eof THEN drained
                 ELSE Stream'[i].floor <= current.no
        BY <1>4, <1>6 DEF QueueInv, FloorIsCurrent
    <2>2. ASSUME NEW m \in taken'
          PROVE  m.floor <= current.no
        <3>1. CASE m \in taken
            BY <1>4, <3>1 DEF QueueInv, FloorIsCurrent
        <3>2. ASSUME NEW i \in 1 .. n, m = Stream[i], m # Eof
              PROVE  m.floor <= current.no
            BY <1>4, <1>10, <3>2 DEF QueueInv, FloorIsCurrent
        <3> QED BY <1>8, <3>1, <3>2
    <2>3. eofTaken' => drained
        BY <1>4, <1>9, <1>10 DEF QueueInv, FloorIsCurrent
    <2>4. floorAfter = current.no /\ (unsent = <<>> => emitFloor = floorAfter)
        BY <1>4 DEF QueueInv, FloorIsCurrent
    <2> QED BY <1>1, <2>1, <2>2, <2>3, <2>4 DEF FloorIsCurrent
<1>17. WidthIs(W)'
    <2>1. ASSUME NEW i \in 1 .. Len(Stream'), Stream'[i] # Eof
          PROVE  /\ Stream'[i].slice <= current.no
                 /\ Stream'[i].width = W[Stream'[i].slice]
        BY <1>3, <1>6, <2>1 DEF WidthInv, WidthIs
    <2>2. ASSUME NEW m \in taken'
          PROVE  m.slice <= current.no /\ m.width = W[m.slice]
        <3>1. CASE m \in taken
            BY <1>3, <3>1 DEF WidthInv, WidthIs
        <3>2. ASSUME NEW i \in 1 .. n, m = Stream[i], m # Eof
              PROVE  m.slice <= current.no /\ m.width = W[m.slice]
            BY <1>3, <1>10, <3>2 DEF WidthInv, WidthIs
        <3> QED BY <1>8, <3>1, <3>2
    <2>3. /\ current.width = W[current.no]
          /\ \A i \in 1 .. Len(live) : live[i].width = W[live[i].no]
        BY <1>3 DEF WidthInv, WidthIs
    <2> QED BY <1>1, <2>1, <2>2, <2>3 DEF WidthIs
<1>18. Ordered(taken, Stream, W, current.no, current.blocks)
    BY <1>1, <1>3 DEF WidthInv, OrderIsKept
<1>19. taken \subseteq taken'
    BY <1>2
<1> DEFINE more == taken'
           rest == Stream'
           st == Stream
           no == current.no
           blocks == current.blocks
<1>20. /\ st \in Seq(Message) /\ n \in 1 .. Len(st) /\ no \in Nat
       /\ blocks \in Nat /\ Ordered(taken, st, W, no, blocks)
       /\ taken \subseteq more
       /\ Len(rest) = Len(st) - n
       /\ \A i \in 1 .. n : st[i] # Eof => st[i] \in more
       /\ \A i \in 1 .. Len(rest) : rest[i] = st[i + n]
    BY <1>4, <1>5, <1>6, <1>7, <1>18, <1>19
<1> HIDE DEF more, rest, st, no, blocks
<1>21. Ordered(more, rest, W, no, blocks)
    BY <1>20, OrderedTake
<1>22. ASSUME NEW i \in 1 .. n, NEW s \in Nat, Announces(st[i], s)
       PROVE  Whole(more, W, s)
    BY <1>20, <1>22, TakenOrdered
<1>23. OrderIsKept(W)'
    BY <1>1, <1>21 DEF OrderIsKept, more, rest, no, blocks
<1>24. TakenIsWhole(W)'
    <2>1. ASSUME NEW s \in Nat, Whole(taken, W, s)
          PROVE  Whole(more, W, s)
        BY <1>20, <2>1 DEF Whole
    <2>2. ASSUME NEW m \in taken', NEW s \in Nat, s < m.floor
          PROVE  Whole(more, W, s)
        <3>1. CASE m \in taken
            BY <1>3, <2>1, <2>2, <3>1 DEF WidthInv, TakenIsWhole
        <3>2. ASSUME NEW i \in 1 .. n, m = Stream[i], m # Eof
              PROVE  Whole(more, W, s)
            <4>1. Announces(st[i], s)
                BY <2>2, <3>2 DEF Announces, st
            <4> QED BY <1>22, <4>1
        <3> QED BY <1>8, <3>1, <3>2
    <2>3. ASSUME eofTaken', NEW s \in Nat, BlocksIn(s) > 0
          PROVE  Whole(more, W, s)
        <3>1. CASE eofTaken
            BY <1>3, <2>1, <2>3, <3>1 DEF WidthInv, TakenIsWhole
        <3>2. ASSUME NEW i \in 1 .. n, Stream[i] = Eof
              PROVE  Whole(more, W, s)
            <4>1. Announces(st[i], s)
                BY <2>3, <3>2 DEF Announces, st
            <4> QED BY <1>22, <4>1
        <3> QED BY <1>9, <2>3, <3>1, <3>2
    <2> QED BY <2>2, <2>3 DEF TakenIsWhole, more
<1>25. WidthInv(W)'
    BY <1>17, <1>23, <1>24 DEF WidthInv
<1> QED BY <1>14, <1>15, <1>16, <1>25 DEF SlicerInv, QueueInv

\* One more message of the loop.
LEMMA FeedbackGrows ==
    ASSUME SlicerInv, NEW m \in FeedbackMessage,
           feedback' = Append(feedback, m), needed' \in Nat, needed <= needed',
           m.kind = "needed" => m.slice <= needed'
    PROVE  /\ feedback' \in Seq(FeedbackMessage)
           /\ \A i \in 1 .. Len(feedback') :
                  feedback'[i].kind = "needed" => feedback'[i].slice <= needed'
<1>1. /\ feedback \in Seq(FeedbackMessage) /\ needed \in Nat
      /\ Len(feedback) \in Nat
      /\ \A i \in 1 .. Len(feedback) :
             feedback[i].kind = "needed" => feedback[i].slice <= needed
    BY FeedbackType, LenProperties
<1>2. /\ feedback' \in Seq(FeedbackMessage)
      /\ Len(feedback') = Len(feedback) + 1
      /\ \A i \in 1 .. Len(feedback) : feedback'[i] = feedback[i]
      /\ feedback'[Len(feedback) + 1] = m
    BY <1>1, AppendProperties
<1>3. ASSUME NEW i \in 1 .. Len(feedback'), feedback'[i].kind = "needed"
      PROVE  feedback'[i].slice <= needed'
    <2>1. i \in 1 .. Len(feedback) \/ i = Len(feedback) + 1
        BY <1>1, <1>2
    <2>2. CASE i \in 1 .. Len(feedback)
        <3>1. feedback'[i] = feedback[i]
            BY <1>2, <2>2
        <3>2. feedback[i].slice <= needed /\ feedback[i] \in FeedbackMessage
              /\ feedback[i].kind = "needed"
            BY <1>1, <1>3, <2>2, <3>1, ElementOfSeq
        <3>3. feedback[i].slice \in Nat
            BY <3>2 DEF FeedbackMessage
        <3> QED BY <1>1, <3>1, <3>2, <3>3
    <2>3. CASE i = Len(feedback) + 1
        <3>1. feedback'[i] = m
            BY <1>2, <2>3, Zenon
        <3> QED BY <1>3, <3>1
    <2> QED BY <2>1, <2>2, <2>3
<1> QED BY <1>2, <1>3

\* The loop tells the slicer something.
LEMMA TellStep ==
    ASSUME SlicerInv, TellNeeded \/ TellCover \/ TellResend \/ Finish
    PROVE  SlicerInv'
<1>1. /\ UNCHANGED <<current, live, wanted, emitFloor, blocksRead, drained,
                     unsent, floorAfter, task, outbound, taken, eofTaken>>
      /\ loop = "running"
    BY DEF TellNeeded, TellCover, TellResend, Finish, Tell, windowVars, readerVars
<1>2. needed \in Nat /\ covering \in Widths /\ wanted \in Widths
      /\ task \in {"running", "done", "fileError", "egressClosed"}
      /\ result \in {"none", "noParticipants", "ok", "incomplete",
                     "egressClosed", "ioError"}
    BY FeedbackType
<1>3. CASE TellNeeded
    <2>1. Cardinality(Slices) \in Nat
        <3>1. SourceBlocks \div BlocksPerSlice \in Int
            OBVIOUS
        <3>2. IsFiniteSet(Slices)
            BY <3>1, FS_Interval DEF Slices
        <3> QED BY <3>2, FS_CardinalityType
    <2>2. PICK n \in (needed + 1) .. Cardinality(Slices) :
              /\ needed' = n
              /\ feedback' = Append(feedback, [kind |-> "needed", slice |-> n])
        BY <1>3 DEF TellNeeded, Tell
    <2>3. n \in Nat /\ needed <= n
        BY <1>2, <2>1
    <2> DEFINE m == [kind |-> "needed", slice |-> n]
    <2>4. m \in FeedbackMessage /\ m.slice = n
        BY <2>3 DEF FeedbackMessage
    <2> HIDE DEF m
    <2>5. /\ feedback' \in Seq(FeedbackMessage)
          /\ \A i \in 1 .. Len(feedback') :
                 feedback'[i].kind = "needed" => feedback'[i].slice <= needed'
        <3>1. feedback' = Append(feedback, m)
            BY <2>2 DEF m
        <3>2. m.slice <= needed'
            BY <2>2, <2>3, <2>4
        <3> QED BY <2>2, <2>3, <2>4, <3>1, <3>2, FeedbackGrows
    <2>6. UNCHANGED <<covering, loop, result>>
        BY <1>3 DEF TellNeeded, Tell
    <2> QED BY <1>1, <1>2, <2>2, <2>3, <2>5, <2>6, NothingMoves
<1>4. ASSUME NEW m \in FeedbackMessage, feedback' = Append(feedback, m),
             needed' = needed, m.kind # "needed"
      PROVE  /\ feedback' \in Seq(FeedbackMessage) /\ needed' \in Nat
             /\ needed <= needed'
             /\ \A i \in 1 .. Len(feedback') :
                    feedback'[i].kind = "needed" => feedback'[i].slice <= needed'
    BY <1>2, <1>4, FeedbackGrows
<1>5. CASE TellCover
    <2>1. PICK w \in Widths :
              /\ covering' = w
              /\ feedback' = Append(feedback, [kind |-> "cover", width |-> w])
        BY <1>5 DEF TellCover, Tell
    <2>2. UNCHANGED <<needed, loop, result>>
        BY <1>5 DEF TellCover, Tell
    <2>3. [kind |-> "cover", width |-> w] \in FeedbackMessage
          /\ [kind |-> "cover", width |-> w].kind # "needed"
        BY DEF FeedbackMessage
    <2> QED BY <1>1, <1>2, <1>4, <2>1, <2>2, <2>3, NothingMoves
<1>6. CASE TellResend
    <2>1. PICK s \in Slices, slots \in SUBSET DataSlots :
              feedback' = Append(feedback, [kind |-> "resend", slice |-> s,
                                            slots |-> slots])
        BY <1>6 DEF TellResend, Tell
    <2>2. UNCHANGED <<needed, covering, loop, result>>
        BY <1>6 DEF TellResend, Tell
    <2> DEFINE m == [kind |-> "resend", slice |-> s, slots |-> slots]
    <2>3. m \in FeedbackMessage /\ m.kind # "needed"
        BY DEF FeedbackMessage
    <2>4. feedback' = Append(feedback, m)
        BY <2>1
    <2> HIDE DEF m
    <2> QED BY <1>1, <1>2, <1>4, <2>2, <2>3, <2>4, NothingMoves
<1>7. CASE Finish
    <2>1. /\ feedback' = Append(feedback, [kind |-> "done"])
          /\ UNCHANGED <<needed, covering>> /\ loop' = "joining"
          /\ result' \in {"noParticipants", "ok", "incomplete"}
        BY <1>7 DEF Finish
    <2>2. [kind |-> "done"] \in FeedbackMessage
          /\ [kind |-> "done"].kind # "needed"
        BY DEF FeedbackMessage
    <2> QED BY <1>1, <1>2, <1>4, <2>1, <2>2, NothingMoves
<1> QED BY <1>3, <1>5, <1>6, <1>7

\* The loop finds the channel closed, or has waited for the slicer.
LEMMA CloseStep ==
    ASSUME SlicerInv, FindClosed \/ Joined
    PROVE  SlicerInv'
<1>1. /\ UNCHANGED <<current, live, wanted, emitFloor, blocksRead, drained,
                     unsent, floorAfter, task, outbound, feedback>>
      /\ UNCHANGED <<needed, covering, taken, eofTaken>>
      /\ loop' \in {"joining", "returned"}
      /\ result' = result \/ result' = "egressClosed"
    BY DEF FindClosed, Joined, windowVars, readerVars
<1> QED BY <1>1, FeedbackType, NothingMoves

\* Send_stream returns at once, and what was queued goes with its channel.
LEMMA SocketFailsStep ==
    ASSUME SlicerInv, SocketFails
    PROVE  SlicerInv'
<1>1. /\ UNCHANGED <<current, live, wanted, emitFloor, blocksRead, drained,
                     unsent, floorAfter, task, feedback>>
      /\ UNCHANGED <<needed, covering, taken, eofTaken>>
      /\ loop' = "returned" /\ result' = "ioError" /\ outbound' = <<>>
    BY DEF SocketFails, windowVars, readerVars
<1>2. PICK W \in [Nat -> Widths] : WidthInv(W)
    BY DEF SlicerInv
<1>3. /\ QueueInv /\ outbound \in Seq(Message) /\ unsent \in Seq(Message)
      /\ Len(outbound) \in Nat /\ Len(unsent) \in Nat
    BY LenProperties DEF SlicerInv, QueueInv, SlicerType, LoopType
<1>4. Stream' = unsent
    BY <1>1, <1>3, ConcatEmptySeq DEF Stream
<1>5. ASSUME NEW i \in 1 .. Len(Stream')
      PROVE  \E j \in 1 .. Len(Stream) : Stream'[i] = Stream[j]
    <2>1. /\ Len(Stream) = Len(outbound) + Len(unsent)
          /\ \A j \in 1 .. Len(outbound) + Len(unsent) : Stream[j] =
                 IF j <= Len(outbound) THEN outbound[j]
                 ELSE unsent[j - Len(outbound)]
        BY <1>3, ConcatProperties DEF Stream
    <2> DEFINE k == Len(outbound) + i
    <2>2. /\ k \in 1 .. Len(outbound) + Len(unsent) /\ ~(k <= Len(outbound))
          /\ k - Len(outbound) = i
        BY <1>3, <1>4
    <2> HIDE DEF k
    <2>3. Stream[k] = unsent[i] /\ k \in 1 .. Len(Stream)
        BY <2>1, <2>2
    <2> QED BY <1>4, <2>3
<1>6. SlicerType' /\ CurrentIsNext' /\ WindowIsTail'
    BY <1>1, <1>3 DEF QueueInv, SlicerType, CurrentIsNext, WindowIsTail
<1>7. LoopType'
    BY <1>1, <1>3 DEF QueueInv, LoopType
<1>8. FloorIsCurrent'
    <2>1. ASSUME NEW i \in 1 .. Len(Stream')
          PROVE  IF Stream'[i] = Eof THEN drained
                 ELSE Stream'[i].floor <= current.no
        <3>1. PICK j \in 1 .. Len(Stream) : Stream'[i] = Stream[j]
            BY <1>5
        <3> QED BY <1>3, <3>1 DEF QueueInv, FloorIsCurrent
    <2> QED BY <1>1, <1>3, <2>1 DEF QueueInv, FloorIsCurrent
<1>9. WidthInv(W)'
    <2>1. ASSUME NEW i \in 1 .. Len(Stream'), Stream'[i] # Eof
          PROVE  /\ Stream'[i].slice <= current.no
                 /\ Stream'[i].width = W[Stream'[i].slice]
        <3>1. PICK j \in 1 .. Len(Stream) : Stream'[i] = Stream[j]
            BY <1>5
        <3> QED BY <1>2, <2>1, <3>1 DEF WidthInv, WidthIs
    <2>2. WidthIs(W)'
        BY <1>1, <1>2, <2>1 DEF WidthInv, WidthIs
    <2>3. OrderIsKept(W)' /\ TakenIsWhole(W)'
        BY <1>1, <1>2 DEF WidthInv, OrderIsKept, TakenIsWhole
    <2> QED BY <2>2, <2>3 DEF WidthInv
<1> QED BY <1>6, <1>7, <1>8, <1>9 DEF SlicerInv, QueueInv

-----------------------------------------------------------------------------
(* The theorems.                                                            *)

LEMMA SlicerInvInit ==
    ASSUME Init
    PROVE  SlicerInv
<1>1. /\ current = EmptySlice(0, MaxParity) /\ live = <<>>
      /\ wanted = MaxParity /\ emitFloor = 0 /\ blocksRead = 0
      /\ drained = FALSE /\ unsent = <<>> /\ floorAfter = 0
      /\ task = "running" /\ outbound = <<>> /\ feedback = <<>>
      /\ loop = "running" /\ result = "none" /\ covering = MaxParity
      /\ needed = 0 /\ taken = {} /\ eofTaken = FALSE
    BY DEF Init, WindowInit
<1>2. /\ current \in Live /\ current.no = 0 /\ current.blocks = 0
      /\ current.width = MaxParity /\ MaxParity \in Widths
    BY <1>1 DEF EmptySlice, Live, Widths
<1>3. <<>> \in Seq(Live) /\ <<>> \in Seq(Message)
      /\ <<>> \in Seq(FeedbackMessage) /\ Len(<<>>) = 0
    BY EmptySeq
<1>4. Len(live) = 0 /\ Len(feedback) = 0 /\ Len(outbound) = 0
      /\ Len(unsent) = 0
    BY <1>1
<1>5. SlicerType
    <2>1. /\ 0 <= MaxLiveSlices /\ 0 \in 0 .. SourceBlocks /\ 0 \in Nat
          /\ Len(live) <= MaxLiveSlices
        BY <1>4
    <2>2. live \in Seq(Live) /\ unsent \in Seq(Message)
        BY <1>1, <1>3, Zenon
    <2>3. current \in Live /\ wanted \in Widths
        BY <1>1, <1>2
    <2>4. /\ emitFloor \in Nat /\ floorAfter \in Nat
          /\ blocksRead \in 0 .. SourceBlocks /\ drained \in BOOLEAN
          /\ task \in {"running", "done", "fileError", "egressClosed"}
        BY <1>1, <2>1
    <2> QED BY <2>1, <2>2, <2>3, <2>4 DEF SlicerType
<1>6. LoopType
    <2>1. Len(outbound) <= Capacity
        BY <1>4
    <2>2. outbound \in Seq(Message) /\ feedback \in Seq(FeedbackMessage)
        BY <1>1, <1>3, Zenon
    <2>3. covering \in Widths
        BY <1>1, <1>2
    <2>4. /\ loop \in {"running", "joining", "returned"}
          /\ result \in {"none", "noParticipants", "ok", "incomplete",
                         "egressClosed", "ioError"}
          /\ needed \in Nat /\ taken \subseteq Shard /\ eofTaken \in BOOLEAN
        BY <1>1
    <2> QED BY <2>1, <2>2, <2>3, <2>4 DEF LoopType
<1>7. Stream = <<>> /\ Len(Stream) = 0
    BY <1>1, <1>3, ConcatEmptySeq DEF Stream
<1>8. CurrentIsNext
    BY <1>1, <1>2 DEF CurrentIsNext
<1>9. WindowIsTail
    BY <1>1, <1>2, <1>4 DEF WindowIsTail
<1>10. FloorIsCurrent
    BY <1>1, <1>2, <1>7 DEF FloorIsCurrent
<1> DEFINE W == [s \in Nat |-> MaxParity]
<1>11. W \in [Nat -> Widths] /\ W[0] = MaxParity
    BY <1>2
<1>12. WidthInv(W)
    <2>1. WidthIs(W)
        BY <1>1, <1>2, <1>4, <1>7, <1>11 DEF WidthIs
    <2>2. Ordered(taken, Stream, W, current.no, current.blocks)
        <3> DEFINE st == Stream
        <3>1. Len(st) = 0
            BY <1>7
        <3> HIDE DEF st
        <3>2. Ordered(taken, st, W, 0, 0)
            BY <3>1 DEF Ordered
        <3> QED BY <1>2, <3>2 DEF st
    <2>3. OrderIsKept(W)
        BY <2>2 DEF OrderIsKept
    <2>4. TakenIsWhole(W)
        BY <1>1 DEF TakenIsWhole
    <2> QED BY <2>1, <2>3, <2>4 DEF WidthInv
<1> QED BY <1>5, <1>6, <1>8, <1>9, <1>10, <1>11, <1>12 DEF SlicerInv, QueueInv

LEMMA SlicerInvNext ==
    ASSUME SlicerInv, [Next]_vars
    PROVE  SlicerInv'
<1>1. CASE SlicerNext
    BY <1>1, PushStep, DrainStep, ReadFailsStep, SendStep, OnFeedbackStep
       DEF SlicerNext
<1>2. CASE LoopNext
    BY <1>2, TakeStep, TellStep, CloseStep, SocketFailsStep DEF LoopNext
<1>3. CASE Over \/ UNCHANGED vars
    <2>1. /\ UNCHANGED <<current, live, wanted, emitFloor, blocksRead, drained,
                         unsent, floorAfter, task, outbound, feedback>>
          /\ UNCHANGED <<needed, covering, taken, eofTaken, loop, result>>
        BY <1>3 DEF Over, vars, windowVars, readerVars, loopVars
    <2> QED BY <2>1, FeedbackType, NothingMoves
<1> QED BY <1>1, <1>2, <1>3 DEF Next

\* The invariant above holds of every run of the slicer and the send loop.
THEOREM SlicerInductive == Spec => []SlicerInv
<1>1. Init => SlicerInv
    BY SlicerInvInit
<1>2. SlicerInv /\ [Next]_vars => SlicerInv'
    BY SlicerInvNext
<1> QED BY <1>1, <1>2, PTL DEF Spec

\* The channel never holds more than its capacity, the window no more sealed
\* slices than its limit, for any geometry of the slices.
THEOREM SlicerTypeCorrect == Spec => []TypeOK
<1>1. SlicerInv => TypeOK
    BY DEF SlicerInv, QueueInv, SlicerType, LoopType, TypeOK, Message
<1> QED BY <1>1, SlicerInductive, PTL

\* All shards of a slice name one width, those queued first and those resent
\* long after the width that is wanted has changed.
THEOREM WidthIsOne == Spec => []WidthsAgree
<1>1. SlicerInv => WidthsAgree
    <2> SUFFICES ASSUME SlicerInv
                 PROVE  WidthsAgree
        OBVIOUS
    <2>1. PICK W \in [Nat -> Widths] : WidthInv(W)
        BY DEF SlicerInv
    <2>2. /\ outbound \in Seq(Message) /\ unsent \in Seq(Message)
          /\ Len(outbound) \in Nat /\ Len(unsent) \in Nat
          /\ DOMAIN outbound = 1 .. Len(outbound)
          /\ DOMAIN unsent = 1 .. Len(unsent)
        <3>1. outbound \in Seq(Message) /\ unsent \in Seq(Message)
            BY DEF SlicerInv, QueueInv, SlicerType, LoopType
        <3> QED BY <3>1, LenProperties
    <2>3. /\ Len(Stream) = Len(outbound) + Len(unsent)
          /\ \A j \in 1 .. Len(outbound) + Len(unsent) : Stream[j] =
                 IF j <= Len(outbound) THEN outbound[j]
                 ELSE unsent[j - Len(outbound)]
        BY <2>2, ConcatProperties DEF Stream
    <2>4. ASSUME NEW a \in Range(outbound)
          PROVE  \E j \in 1 .. Len(Stream) : a = Stream[j]
        <3>1. PICK j \in 1 .. Len(outbound) : a = outbound[j]
            BY <2>2 DEF Range
        <3>2. j \in 1 .. Len(outbound) + Len(unsent) /\ j <= Len(outbound)
            BY <2>2
        <3> QED BY <2>3, <3>1, <3>2
    <2>5. ASSUME NEW a \in Range(unsent)
          PROVE  \E j \in 1 .. Len(Stream) : a = Stream[j]
        <3>1. PICK i \in 1 .. Len(unsent) : a = unsent[i]
            BY <2>2 DEF Range
        <3> DEFINE k == Len(outbound) + i
        <3>2. /\ k \in 1 .. Len(outbound) + Len(unsent)
              /\ ~(k <= Len(outbound)) /\ k - Len(outbound) = i
            BY <2>2
        <3> HIDE DEF k
        <3>3. Stream[k] = unsent[i] /\ k \in 1 .. Len(Stream)
            BY <2>3, <3>2
        <3> QED BY <3>1, <3>3
    <2>6. \A a \in taken \cup ((Range(outbound) \cup Range(unsent)) \ {Eof}) :
              a.width = W[a.slice]
        BY <2>1, <2>4, <2>5 DEF WidthInv, WidthIs
    <2> QED BY <2>6 DEF WidthsAgree
<1> QED BY <1>1, SlicerInductive, PTL

\* A floor, or Eof, leaves the channel after all shards of every slice it
\* announces: what a receiver then misses, it may ask for at once.
THEOREM FloorComesLast == Spec => []FloorIsSound
<1>1. SlicerInv => FloorIsSound
    <2> SUFFICES ASSUME SlicerInv, NEW s \in Slices,
                        \/ \E m \in taken : s < m.floor
                        \/ eofTaken /\ BlocksIn(s) > 0
                 PROVE  WhollyTaken(s)
        BY DEF FloorIsSound
    <2>1. PICK W \in [Nat -> Widths] : WidthInv(W)
        BY DEF SlicerInv
    <2>2. s \in Nat
        BY DEF Slices
    <2>3. Whole(taken, W, s)
        BY <2>1, <2>2 DEF WidthInv, TakenIsWhole
    <2>4. \A m \in taken : m.slice = s => m.width = W[s]
        BY <2>1 DEF WidthInv, WidthIs
    <2>5. AllSlots(W, s) \subseteq TakenOf(s)
        BY <2>3 DEF Whole, IsShard, TakenOf
    <2>6. W[s] \in Widths
        BY <2>2
    <2> QED BY <2>4, <2>5, <2>6 DEF WhollyTaken, AllSlots
<1> QED BY <1>1, SlicerInductive, PTL

\* Whatever the loop has told the slicer, it can still supply each slice that
\* a participant may ask for.
THEOREM NeededStays == Spec => []NeededIsLive
<1>1. SlicerInv => NeededIsLive
    <2> SUFFICES ASSUME SlicerInv, NEW s \in needed .. (current.no - 1)
                 PROVE  SliceOf(s) # {}
        BY DEF NeededIsLive
    <2>1. /\ live \in Seq(Live) /\ Len(live) \in Nat /\ needed \in Nat
          /\ current.no \in Nat /\ DOMAIN live = 1 .. Len(live)
        <3>1. live \in Seq(Live) /\ needed \in Nat /\ current \in Live
            BY DEF SlicerInv, QueueInv, SlicerType, LoopType
        <3> QED BY <3>1, LenProperties DEF Live
    <2>2. /\ current.no - Len(live) <= needed
          /\ \A i \in 1 .. Len(live) :
                 live[i].no = current.no - Len(live) + i - 1
        BY DEF SlicerInv, QueueInv, WindowIsTail
    <2> DEFINE no == current.no
               i == s - (no - Len(live)) + 1
    <2>3. i \in 1 .. Len(live) /\ no - Len(live) + i - 1 = s
        BY <2>1, <2>2
    <2>4. live[i].no = s
        <3>1. live[i].no = no - Len(live) + i - 1
            BY <2>2, <2>3
        <3> QED BY <2>3, <3>1
    <2>5. live[i] \in Range(live)
        BY <2>1, <2>3 DEF Range
    <2> HIDE DEF i
    <2> QED BY <2>4, <2>5 DEF SliceOf
<1> QED BY <1>1, SlicerInductive, PTL

-----------------------------------------------------------------------------
(* How the two tasks end, and what the sender makes of it.                  *)

\* Done is said by a loop that has ended, so while the loop runs the slicer can
\* only have failed to read; and it reads no more once it has queued Eof.
EndInv ==
    /\ loop = "running" => result = "none"
    /\ \A i \in 1 .. Len(feedback) : feedback[i].kind = "done" => loop # "running"
    /\ task = "done" => loop # "running"
    /\ task = "egressClosed" => loop = "returned"
    /\ task = "fileError" => ~drained
    /\ result = "egressClosed" => task = "fileError"
    /\ result \in {"ok", "incomplete"} => eofTaken

\* The slicer's steps.
LEMMA SlicerEndStep ==
    ASSUME SlicerInv, EndInv, SlicerNext
    PROVE  EndInv'
<1>1. UNCHANGED <<loop, result, eofTaken>>
    BY DEF SlicerNext, Push, Drain, ReadFails, Send, OnFeedback, OnClosed,
           loopVars
<1>2. CASE Push \/ Drain
    <2>1. UNCHANGED <<task, feedback>> /\ task = "running"
        BY <1>2 DEF Push, Drain, Selecting
    <2> QED BY <1>1, <2>1 DEF EndInv
<1>3. CASE ReadFails
    <2>1. UNCHANGED <<feedback, drained>> /\ task = "running" /\ task' = "fileError"
          /\ ~drained
        BY <1>3 DEF ReadFails, Selecting
    <2> QED BY <1>1, <2>1 DEF EndInv
<1>4. CASE Send \/ OnClosed
    <2>1. /\ UNCHANGED <<feedback, drained>> /\ task = "running"
          /\ \/ task' = task
             \/ task' = "egressClosed" /\ loop = "returned"
        <3>1. CASE Send
            BY <3>1 DEF Send
        <3>2. CASE OnClosed
            BY <3>2 DEF OnClosed, Selecting, readerVars
        <3> QED BY <1>4, <3>1, <3>2
    <2> QED BY <1>1, <2>1 DEF EndInv
<1>5. CASE OnFeedback
    <2>1. /\ feedback # <<>> /\ feedback' = Tail(feedback) /\ UNCHANGED drained
          /\ task = "running"
        BY <1>5 DEF OnFeedback, Selecting, Queue, windowVars
    <2>5. \/ task' = task
          \/ task' = "done" /\ Head(feedback).kind = "done"
        BY <1>5, Zenon DEF OnFeedback, windowVars
    <2>2. /\ feedback \in Seq(FeedbackMessage) /\ Len(feedback) \in Nat \ {0}
          /\ Len(feedback') = Len(feedback) - 1
          /\ \A i \in 1 .. Len(feedback') : feedback'[i] = feedback[i + 1]
          /\ Head(feedback) = feedback[1]
        BY <2>1, FeedbackType, HeadTailProperties, LenProperties, EmptySeq
    <2>3. \A i \in 1 .. Len(feedback') :
              feedback'[i].kind = "done" => loop # "running"
        BY <2>2 DEF EndInv
    <2>4. Head(feedback).kind = "done" => loop # "running"
        BY <2>2 DEF EndInv
    <2> QED BY <1>1, <2>1, <2>3, <2>4, <2>5 DEF EndInv
<1> QED BY <1>2, <1>3, <1>4, <1>5 DEF SlicerNext

\* The loop's steps.
LEMMA LoopEndStep ==
    ASSUME SlicerInv, EndInv, LoopNext
    PROVE  EndInv'
<1>1. UNCHANGED <<task, drained>>
    BY DEF LoopNext, Take, TellNeeded, TellCover, TellResend, Tell, Finish,
           FindClosed, Joined, SocketFails, readerVars
<1>2. CASE Take
    <2>1. UNCHANGED <<feedback, loop, result>> /\ (eofTaken => eofTaken')
        BY <1>2, Zenon DEF Take
    <2> QED BY <1>1, <2>1 DEF EndInv
<1>3. ASSUME NEW m, feedback' = Append(feedback, m), m \in FeedbackMessage,
             m.kind # "done" \/ loop' # "running",
             loop' = loop \/ loop' # "running"
      PROVE  \A i \in 1 .. Len(feedback') :
                 feedback'[i].kind = "done" => loop' # "running"
    <2>1. /\ feedback \in Seq(FeedbackMessage) /\ Len(feedback) \in Nat
          /\ Len(feedback') = Len(feedback) + 1
          /\ \A i \in 1 .. Len(feedback) : feedback'[i] = feedback[i]
          /\ feedback'[Len(feedback) + 1] = m
        BY <1>3, FeedbackType, LenProperties, AppendProperties
    <2>2. ASSUME NEW i \in 1 .. Len(feedback'), feedback'[i].kind = "done"
          PROVE  loop' # "running"
        <3>1. CASE i \in 1 .. Len(feedback)
            BY <1>3, <2>1, <2>2, <3>1 DEF EndInv
        <3>2. CASE i = Len(feedback) + 1
            BY <1>3, <2>1, <2>2, <3>2
        <3> QED BY <2>1, <3>1, <3>2
    <2> QED BY <2>2
<1>4. CASE TellNeeded \/ TellCover \/ TellResend
    <2>1. /\ UNCHANGED <<loop, result, eofTaken>>
          /\ \E m \in FeedbackMessage : m.kind # "done" /\ feedback' = Append(feedback, m)
        <3>1. CASE TellNeeded
            <4>1. PICK n \in (needed + 1) .. Cardinality(Slices) :
                      Tell([kind |-> "needed", slice |-> n])
                BY <3>1 DEF TellNeeded
            <4>2. n \in Nat
                BY <4>1, FeedbackType
            <4> QED BY <4>1, <4>2 DEF Tell, FeedbackMessage
        <3>2. CASE TellCover
            BY <3>2 DEF TellCover, Tell, FeedbackMessage
        <3>3. CASE TellResend
            BY <3>3 DEF TellResend, Tell, FeedbackMessage
        <3> QED BY <1>4, <3>1, <3>2, <3>3
    <2> QED BY <1>1, <1>3, <2>1 DEF EndInv
<1>5. CASE Finish
    <2>1. /\ loop' = "joining" /\ UNCHANGED eofTaken /\ loop = "running"
          /\ feedback' = Append(feedback, [kind |-> "done"])
          /\ \/ result' = "noParticipants"
             \/ eofTaken /\ result' \in {"ok", "incomplete"}
        BY <1>5, Zenon DEF Finish
    <2>2. [kind |-> "done"] \in FeedbackMessage
        BY DEF FeedbackMessage
    <2> QED BY <1>1, <1>3, <2>1, <2>2 DEF EndInv
<1>6. CASE FindClosed
    <2>1. /\ loop = "running" /\ loop' = "joining" /\ result' = "egressClosed"
          /\ task # "running" /\ UNCHANGED <<feedback, eofTaken>>
        BY <1>6 DEF FindClosed
    <2>2. task = "fileError"
        BY <2>1, FeedbackType DEF EndInv
    <2> QED BY <1>1, <2>1, <2>2 DEF EndInv
<1>7. CASE Joined \/ SocketFails
    <2>1. /\ loop' = "returned" /\ UNCHANGED <<feedback, eofTaken>>
          /\ \/ result' = result /\ loop # "running"
             \/ result' = "ioError"
        BY <1>7 DEF Joined, SocketFails
    <2> QED BY <1>1, <2>1 DEF EndInv
<1> QED BY <1>2, <1>4, <1>5, <1>6, <1>7 DEF LoopNext

\* How the two tasks end is an invariant of every run.
THEOREM EndsAgree == Spec => []EndInv
<1>1. Init => EndInv
    <2> SUFFICES ASSUME Init PROVE EndInv
        OBVIOUS
    <2>1. Len(feedback) = 0
        BY EmptySeq DEF Init
    <2> QED BY <2>1 DEF Init, EndInv
<1>2. SlicerInv /\ EndInv /\ [Next]_vars => EndInv'
    <2> SUFFICES ASSUME SlicerInv, EndInv, [Next]_vars
                 PROVE  EndInv'
        OBVIOUS
    <2>1. CASE Over \/ UNCHANGED vars
        BY <2>1 DEF Over, vars, readerVars, loopVars, EndInv
    <2> QED BY <2>1, SlicerEndStep, LoopEndStep DEF Next
<1> QED BY <1>1, <1>2, SlicerInductive, PTL DEF Spec

\* A source that fails is never reported as one that ended: ReadErrorsShow.
THEOREM FailureOfSourceShows == Spec => []ReadErrorsShow
<1>1. SlicerInv /\ EndInv /\ FloorIsSound => ReadErrorsShow
    <2>1. SlicerInv => (eofTaken => drained)
        BY DEF SlicerInv, QueueInv, FloorIsCurrent
    <2> QED BY <2>1 DEF EndInv, FloorIsSound, ReadErrorsShow
<1> QED BY <1>1, SlicerInductive, EndsAgree, FloorComesLast, PTL

-----------------------------------------------------------------------------
(* The slicer's window is the abstract one.                                 *)

\* The oldest slice of the window.
FirstLive == current.no - Len(live)

\* All that the abstract window is made of.
sharedVars ==
    <<current.no, current.blocks, FirstLive, drained, emitFloor, needed>>

\* The numbers of the abstract window.
LEMMA WindowNumbers ==
    ASSUME SlicerInv
    PROVE  /\ current.no \in Nat /\ current.blocks \in Nat /\ needed \in Nat
           /\ live \in Seq(Live) /\ Len(live) \in Nat /\ emitFloor \in Nat
           /\ floorAfter = current.no /\ drained \in BOOLEAN
           /\ unsent = <<>> => emitFloor = current.no
BY LenProperties DEF SlicerInv, QueueInv, SlicerType, LoopType, FloorIsCurrent, Live

\* What a turn of the slicer does to the floor.
LEMMA QueueAnnounces ==
    ASSUME SlicerInv, emitFloor <= current.no, NEW ms, NEW floor,
           Queue(ms, floor), current'.no \in Nat, current.no <= current'.no,
           floor \in {emitFloor, current'.no}
    PROVE  Window!Announce
<1>1. emitFloor' = emitFloor \/ emitFloor' = current'.no
    BY DEF Queue
<1> QED BY <1>1, WindowNumbers DEF Window!Announce

\* Sealing moves what is sealed, and the window begins where it did.
LEMMA SealMoves ==
    ASSUME SlicerInv, NEW slice, slice.no = current.no, Seal(slice)
    PROVE  /\ current'.no = current.no + 1 /\ current'.blocks = 0
           /\ FirstLive' = FirstLive
<1>1. current'.no = current.no + 1 /\ current'.blocks = 0
    BY DEF Seal, EmptySlice
<1>2. Len(live') = Len(live) + 1
    BY WindowNumbers DEF Seal
<1>3. FirstLive' = (current.no + 1) - (Len(live) + 1)
    BY <1>1, <1>2, Zenon DEF FirstLive
<1>4. (current.no + 1) - (Len(live) + 1) = current.no - Len(live)
    BY WindowNumbers
<1> QED BY <1>1, <1>3, <1>4, Zenon DEF FirstLive

\* There is room as long as the window is not full.
LEMMA RoomIsThere ==
    ASSUME SlicerInv, ~drained, ~WindowFull
    PROVE  Window!Room
<1>1. current.no - (current.no - Len(live)) = Len(live)
    BY WindowNumbers
<1>2. Len(live) < MaxLiveSlices
    BY WindowNumbers DEF WindowFull
<1> QED BY <1>1, <1>2 DEF Window!Room

\* A block that is read fills the window.
LEMMA PushFills ==
    ASSUME SlicerInv, emitFloor <= current.no, Push
    PROVE  Window!Fill
<1> DEFINE slice == [current EXCEPT !.blocks = @ + 1]
<1>1. Window!Room
    BY RoomIsThere DEF Push
<1>2. slice.no = current.no /\ slice.blocks = current.blocks + 1
    BY DEF SlicerInv, QueueInv, SlicerType, Live
<1>3. PICK ms, floor : /\ Queue(ms, floor)
                       /\ floor = IF slice.blocks = BlocksPerSlice
                                  THEN slice.no + 1 ELSE emitFloor
    BY DEF Push
<1>4. WindowPush(slice) /\ UNCHANGED <<drained, needed>>
    BY DEF Push, loopVars
<1>5. /\ IF current.blocks + 1 = BlocksPerSlice
         THEN current'.no = current.no + 1 /\ current'.blocks = 0
         ELSE current'.no = current.no /\ current'.blocks = current.blocks + 1
      /\ FirstLive' = FirstLive
    <2> HIDE DEF slice
    <2>1. CASE slice.blocks = BlocksPerSlice
        BY <1>2, <1>4, <2>1, SealMoves DEF WindowPush
    <2>2. CASE slice.blocks # BlocksPerSlice
        BY <1>2, <1>4, <2>2 DEF WindowPush, FirstLive
    <2> QED BY <1>2, <2>1, <2>2
<1>6. Window!Announce
    BY <1>2, <1>3, <1>5, WindowNumbers, QueueAnnounces
<1> QED BY <1>1, <1>4, <1>5, <1>6 DEF Window!Fill, FirstLive

\* The end of the source ends it, a short slice sealed.
LEMMA DrainEnds ==
    ASSUME SlicerInv, emitFloor <= current.no, Drain
    PROVE  Window!End
<1>1. Window!Room
    BY RoomIsThere DEF Drain
<1>2. UNCHANGED needed /\ drained' = TRUE
    BY DEF Drain, loopVars
<1>3. CASE current.blocks > 0
    <2>1. PICK ms : Seal(current) /\ Queue(ms, current.no + 1)
        BY <1>3 DEF Drain
    <2>2. /\ current'.no = current.no + 1 /\ current'.blocks = 0
          /\ FirstLive' = FirstLive
        BY <2>1, SealMoves
    <2>3. Window!Announce
        BY <2>1, <2>2, WindowNumbers, QueueAnnounces
    <2> QED BY <1>1, <1>2, <1>3, <2>2, <2>3 DEF Window!End, FirstLive
<1>4. CASE ~(current.blocks > 0)
    <2>1. PICK ms : UNCHANGED <<live, current>> /\ Queue(ms, emitFloor)
        BY <1>4 DEF Drain
    <2>2. Window!Announce
        BY <2>1, WindowNumbers, QueueAnnounces
    <2>3. current.blocks = 0
        BY <1>4, WindowNumbers
    <2> QED BY <1>1, <1>2, <1>4, <2>1, <2>2, <2>3 DEF Window!End
<1> QED BY <1>3, <1>4

\* The floor a slice's parity was queued under moves once it all is.
LEMMA SendAnnounces ==
    ASSUME SlicerInv, emitFloor <= current.no, Send
    PROVE  Window!AnnounceLate
<1>1. UNCHANGED <<current, live, drained, needed>>
    BY DEF Send, windowVars, loopVars
<1>2. emitFloor' = emitFloor \/ emitFloor' = floorAfter
    BY DEF Send
<1>3. Window!Announce
    BY <1>1, <1>2, WindowNumbers DEF Window!Announce
<1> QED BY <1>1, <1>3 DEF Window!AnnounceLate

\* Retain_from drops the oldest slices, none that is needed.
LEMMA FeedbackDrops ==
    ASSUME SlicerInv, OnFeedback
    PROVE  Window!Drop
<1> DEFINE m == Head(feedback)
<1>1. UNCHANGED <<current, drained, needed>>
    BY DEF OnFeedback, windowVars, loopVars
<1>2. UNCHANGED emitFloor
    BY DEF OnFeedback, Queue
<1>3. FirstLive' \in FirstLive .. current.no
      /\ (FirstLive' > FirstLive => FirstLive' <= needed)
    <2>1. CASE UNCHANGED live
        BY <1>1, <2>1, WindowNumbers DEF FirstLive
    <2>2. CASE m.kind = "needed"
        <3>1. PICK k \in 0 .. Len(live) :
                  Pop(k, m.slice) /\ live' = SubSeq(live, k + 1, Len(live))
            BY <2>2 DEF OnFeedback
        <3>2. Len(live') = Len(live) - k
            BY <3>1, WindowNumbers
        <3>3. FirstLive' = FirstLive + k
            <4>1. FirstLive' = current.no - Len(live')
                BY <1>1 DEF FirstLive
            <4>2. current.no \in Int /\ Len(live) \in Int /\ k \in Int
                BY WindowNumbers
            <4> QED BY <3>2, <4>1, <4>2 DEF FirstLive
        <3>4. k > 0 => FirstLive + k <= needed
            <4> SUFFICES ASSUME k > 0 PROVE FirstLive + k <= needed
                OBVIOUS
            <4>1. k \in 1 .. Len(live) /\ k \in 1 .. k
                BY <3>1, WindowNumbers
            <4>2. live[k].no < m.slice
                BY <3>1, <4>1 DEF Pop
            <4>3. live[k].no = FirstLive + k - 1
                BY <4>1 DEF SlicerInv, QueueInv, WindowIsTail, FirstLive
            <4>4. m.slice \in Nat /\ m.slice <= needed
                BY <2>2, FeedbackTail DEF OnFeedback
            <4> HIDE DEF m
            <4> QED BY <4>1, <4>2, <4>3, <4>4, WindowNumbers DEF FirstLive
        <3> QED BY <3>1, <3>3, <3>4, WindowNumbers DEF FirstLive
    <2> QED BY <2>1, <2>2 DEF OnFeedback, windowVars
<1> QED BY <1>1, <1>2, <1>3 DEF Window!Drop, FirstLive

\* The loop only learns what is needed.
LEMMA LoopLearns ==
    ASSUME SlicerInv, LoopNext
    PROVE  Window!Learn \/ UNCHANGED sharedVars
<1>1. UNCHANGED <<current, live, drained, emitFloor>>
    BY DEF LoopNext, Take, TellNeeded, TellCover, TellResend, Tell, Finish,
           FindClosed, Joined, SocketFails, windowVars, readerVars
<1>2. CASE TellNeeded
    <2>1. PICK n \in (needed + 1) .. Cardinality(Slices) : needed' = n
        BY <1>2 DEF TellNeeded
    <2>2. needed' \in Nat /\ needed' >= needed
        BY <2>1, WindowNumbers
    <2> QED BY <1>1, <2>2 DEF Window!Learn
<1>3. CASE UNCHANGED needed
    BY <1>1, <1>3 DEF sharedVars, FirstLive
<1> QED BY <1>2, <1>3
    DEF LoopNext, Take, TellCover, TellResend, Finish, FindClosed, Joined,
        SocketFails

\* A step of slicer and loop is one of the abstract window, or none.
LEMMA WindowStep ==
    ASSUME SlicerInv, emitFloor <= current.no, [Next]_vars
    PROVE  Window!WindowNext \/ UNCHANGED sharedVars
<1>1. CASE ReadFails \/ OnClosed \/ Over \/ UNCHANGED vars
    BY <1>1 DEF ReadFails, OnClosed, Over, vars, windowVars, readerVars,
                loopVars, sharedVars, FirstLive
<1>2. CASE SlicerNext
    BY <1>1, <1>2, PushFills, DrainEnds, SendAnnounces, FeedbackDrops
       DEF SlicerNext, Window!WindowNext
<1>3. CASE LoopNext
    BY <1>3, LoopLearns DEF Window!WindowNext
<1> QED BY <1>1, <1>2, <1>3 DEF Next

\* And no step moves the floor past what is sealed.
LEMMA FloorFollows ==
    ASSUME SlicerInv, emitFloor <= current.no,
           Window!WindowNext \/ UNCHANGED sharedVars
    PROVE  (emitFloor <= current.no)'
<1>1. CASE Window!Fill \/ Window!End \/ Window!AnnounceLate
    <2>1. emitFloor' \in emitFloor .. current'.no
        BY <1>1 DEF Window!Fill, Window!End, Window!AnnounceLate, Window!Announce
    <2> QED BY <2>1, WindowNumbers
<1>2. CASE Window!Drop \/ Window!Learn \/ UNCHANGED sharedVars
    BY <1>2 DEF Window!Drop, Window!Learn, sharedVars
<1> QED BY <1>1, <1>2 DEF Window!WindowNext

\* The slicer and its channels implement the abstract window (ImplementsWindow):
\* what one task reads, seals and drops and the other asks for and learns,
\* message by message, comes to a window that only moves on.
THEOREM SlicerKeepsWindow == Spec => ImplementsWindow
<1>1. Init => SlicerInv /\ emitFloor <= current.no /\ Window!WindowInit
    <2> SUFFICES ASSUME Init
                 PROVE  SlicerInv /\ emitFloor <= current.no /\ Window!WindowInit
        OBVIOUS
    <2>1. /\ current.no = 0 /\ current.blocks = 0 /\ Len(live) = 0
          /\ emitFloor = 0 /\ needed = 0 /\ drained = FALSE
        BY EmptySeq DEF Init, WindowInit, EmptySlice
    <2> QED BY <2>1, SlicerInvInit DEF Window!WindowInit
<1>2. /\ SlicerInv /\ emitFloor <= current.no /\ [Next]_vars
      => /\ (emitFloor <= current.no)'
         /\ [Window!WindowNext]_(Window!windowVars)
    <2> SUFFICES ASSUME SlicerInv, emitFloor <= current.no, [Next]_vars
                 PROVE  /\ (emitFloor <= current.no)'
                        /\ Window!WindowNext \/ UNCHANGED sharedVars
        BY DEF Window!windowVars, sharedVars, FirstLive
    <2> QED BY WindowStep, FloorFollows
<1> QED BY <1>1, <1>2, SlicerInductive, PTL
        DEF Spec, ImplementsWindow, Window!WindowSpec

\* So the abstract window's invariant is the slicer's too: a slice is begun only
\* while there is room for it, and nothing needed was dropped.
THEOREM SlicerWindowIsSound == Spec => []Window!WindowHolds
<1>1. ImplementsWindow => []Window!WindowHolds
    <2>1. BlocksPerSlice \in Nat \ {0} /\ MaxLiveSlices \in Nat \ {0}
        OBVIOUS
    <2> QED BY <2>1, Window!WindowIsSound DEF ImplementsWindow
<1> QED BY <1>1, SlicerKeepsWindow, PTL
=============================================================================
