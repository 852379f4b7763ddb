---------------------------- MODULE SessionProofs ----------------------------
(* Proofs about Session for every stream, every slice geometry, every window *)
(* and every capacity.                                                      *)
EXTENDS Session, QueueLemmas

USE SessionAssumption

-----------------------------------------------------------------------------
(* The inductive invariant.                                                 *)

\* A shard the sender can have made: a slice has data slots for its blocks.
Emitted ==
    {m \in [kind : {"shard"}, slice : Slices, slot : Slots] :
        m.slot < BlocksPerSlice => m.slot < BlocksIn(m.slice)}

\* Blocks of the slices below s.
BlocksBefore(s) == AtMost(s * BlocksPerSlice, TotalBlocks)

\* c blocks of the stream from block m on, whole but for its last.
Stretch(m, c, last) ==
    [i \in 1 .. c |->
        [no |-> m + i - 1,
         bytes |-> IF m + i < TotalBlocks THEN BlockSize ELSE last]]

\* What was handed over, in order, once next_needed is s and written_bytes is
\* w, which leaves the last block what the others do not take.
Handed(s, w) == Stretch(0, BlocksBefore(s), w - (TotalBlocks - 1) * BlockSize)

\* The types of the session's own variables.
SessionType ==
    /\ at \in {"select", "arrivals", "handover"}
    /\ arrivals \in Seq(Emitted \cup [kind : {"done", "evicted"}])
    /\ Len(arrivals) <= MaxBatch
    /\ done \in BOOLEAN
    /\ nextNeeded \in 0 .. SliceCount /\ reported \in 0 .. SliceCount
    /\ held \in [Slices -> SUBSET Slots]
    /\ writtenBytes \in Nat
    /\ task \in {"running", "ok", "senderSilent", "byteCountMismatch",
                 "evicted", "sinkClosed"}

\* The types of what passes from the session to the file.
SinkType ==
    /\ pending \in Seq(Block) /\ channel \in Seq(Block) /\ file \in Seq(Block)
    /\ Len(channel) <= SinkCapacity
    /\ caller \in {"pumping", "finishing", "finished", "fileError", "ok",
                   "senderSilent", "byteCountMismatch", "evicted", "sinkClosed"}

\* The assembler holds shards the source has, of slices in the window only.
HeldIsReal ==
    \A s \in Slices :
        /\ \A k \in held[s] : k < BlocksPerSlice => k < BlocksIn(s)
        /\ held[s] # {} =>
               nextNeeded <= s /\ s < nextNeeded + MaxLiveSlices

\* written_bytes is what next_needed says, up to the padding of the last block.
BytesFollowSlices ==
    /\ nextNeeded < SliceCount =>
           writtenBytes = nextNeeded * BlocksPerSlice * BlockSize
    /\ nextNeeded = SliceCount =>
           writtenBytes \in {TotalBytes, TotalBlocks * BlockSize}

\* While somebody takes blocks, all that were handed over are on the way.
NothingIsLost ==
    caller = "pumping" => HandedOver = Handed(nextNeeded, writtenBytes)

\* The session returns Ok only with everything handed over.
OkMeansAll ==
    task = "ok" =>
        /\ pending = <<>> /\ nextNeeded = SliceCount
        /\ writtenBytes = TotalBytes

StreamInv ==
    /\ SessionType /\ SinkType /\ HeldIsReal /\ BytesFollowSlices
    /\ NothingIsLost /\ OkMeansAll /\ PendingIsBounded /\ OkMeansTheFile

-----------------------------------------------------------------------------
(* Arithmetic.                                                              *)

\* Products grow with their factors, and a step is one factor.
LEMMA ProductGrows ==
    ASSUME NEW a \in Nat, NEW b \in Nat, NEW c \in Nat, a <= b
    PROVE  /\ a * c \in Nat /\ b * c \in Nat /\ a * c <= b * c
           /\ (a + 1) * c = a * c + c
<1> DEFINE d == b - a
<1>1. d \in Nat /\ b = a + d
    OBVIOUS
<1>2. b * c = a * c + d * c /\ d * c \in Nat /\ a * c \in Nat
    BY <1>1
<1> QED BY <1>2

\* A quotient rounded up covers, and one less does not.
LEMMA CeilBounds ==
    ASSUME NEW a \in Nat, NEW b \in Nat \ {0}
    PROVE  /\ DivCeil(a, b) \in Nat
           /\ DivCeil(a, b) * b \in Nat /\ a <= DivCeil(a, b) * b
           /\ DivCeil(a, b) * b < a + b
           /\ DivCeil(a, b) = 0 <=> a = 0
<1> DEFINE x == a + b - 1
           q == x \div b
<1>1. x \in Nat /\ DivCeil(a, b) = q
    BY DEF DivCeil
<1>2. /\ q \in Nat /\ q * b \in Nat
      /\ q * b <= x /\ x < q * b + b
    <2> HIDE DEF x
    <2> QED BY <1>1
<1>3. q = 0 <=> a = 0
    <2>1. CASE q = 0
        BY <1>1, <1>2, <2>1
    <2>2. CASE q # 0
        <3>1. b <= q * b
            BY <2>2, <1>2, ProductGrows, 1 <= q, 1 * b = b
        <3> QED BY <3>1, <1>1, <1>2, <2>2
    <2> QED BY <2>1, <2>2
<1> HIDE DEF q
<1> QED BY <1>1, <1>2, <1>3

\* Blocks cover the bytes, slices the blocks, and neither has one to spare.
LEMMA Geometry ==
    /\ TotalBlocks \in Nat /\ SliceCount \in Nat
    /\ TotalBlocks * BlockSize \in Nat
    /\ TotalBytes <= TotalBlocks * BlockSize
    /\ TotalBlocks * BlockSize < TotalBytes + BlockSize
    /\ SliceCount * BlocksPerSlice \in Nat
    /\ TotalBlocks <= SliceCount * BlocksPerSlice
    /\ SliceCount * BlocksPerSlice < TotalBlocks + BlocksPerSlice
    /\ TotalBlocks = 0 <=> TotalBytes = 0
    /\ SliceCount = 0 <=> TotalBlocks = 0
    BY CeilBounds DEF TotalBlocks, SliceCount

\* Where a slice begins, and how many blocks it has.
LEMMA SliceBounds ==
    ASSUME NEW s \in Slices
    PROVE  /\ s \in Nat /\ s < SliceCount
           /\ s * BlocksPerSlice \in Nat /\ s * BlocksPerSlice < TotalBlocks
           /\ BlocksIn(s) \in 1 .. BlocksPerSlice
           /\ s * BlocksPerSlice + BlocksIn(s) <= TotalBlocks
<1>1. s \in Nat /\ s < SliceCount /\ s + 1 <= SliceCount
    BY Geometry DEF Slices
<1>2. /\ (s + 1) * BlocksPerSlice <= SliceCount * BlocksPerSlice
      /\ (s + 1) * BlocksPerSlice = s * BlocksPerSlice + BlocksPerSlice
      /\ s * BlocksPerSlice \in Nat
    BY <1>1, Geometry, ProductGrows
<1>3. s * BlocksPerSlice < TotalBlocks
    BY <1>2, Geometry
<1> QED BY <1>1, <1>2, <1>3, Geometry DEF BlocksIn, AtMost

\* Blocks before a slice are whole slices, and all of them at the end.
LEMMA BeforeBounds ==
    ASSUME NEW s \in 0 .. SliceCount
    PROVE  /\ BlocksBefore(s) \in 0 .. TotalBlocks
           /\ s < SliceCount => /\ BlocksBefore(s) = s * BlocksPerSlice
                                /\ BlocksBefore(s) < TotalBlocks
           /\ s = SliceCount => BlocksBefore(s) = TotalBlocks
           /\ s * BlocksPerSlice \in Nat
<1>1. s * BlocksPerSlice \in Nat
    BY Geometry, ProductGrows
<1>2. s < SliceCount => s * BlocksPerSlice < TotalBlocks
    BY SliceBounds, Geometry DEF Slices
<1> QED BY <1>1, <1>2, Geometry DEF BlocksBefore, AtMost

\* All blocks but the last are whole.
LEMMA WholeBlocks ==
    ASSUME NEW j \in Nat, j < TotalBlocks
    PROVE  /\ j * BlockSize \in Nat
           /\ j * BlockSize < TotalBytes
           /\ j + 1 < TotalBlocks => (j + 1) * BlockSize < TotalBytes
           /\ (j + 1) * BlockSize = j * BlockSize + BlockSize
<1>1. ASSUME NEW i \in Nat, i < TotalBlocks
      PROVE  i * BlockSize \in Nat /\ i * BlockSize < TotalBytes
             /\ (i + 1) * BlockSize = i * BlockSize + BlockSize
    <2>1. /\ (i + 1) * BlockSize <= TotalBlocks * BlockSize
          /\ (i + 1) * BlockSize = i * BlockSize + BlockSize
          /\ i * BlockSize \in Nat
        BY <1>1, Geometry, ProductGrows
    <2> QED BY <2>1, Geometry
<1>2. j + 1 < TotalBlocks => (j + 1) * BlockSize < TotalBytes
    BY <1>1, Geometry
<1> QED BY <1>1, <1>2

-----------------------------------------------------------------------------
(* Sequences of blocks.                                                     *)

\* A sequence is its head and its tail.
LEMMA PutBackIsSame ==
    ASSUME NEW S, NEW t \in Seq(S), t # <<>>
    PROVE  PutBack(Head(t), Tail(t)) = t
<1>1. Append(<<>>, Head(t)) = <<Head(t)>>
    OBVIOUS
<1>2. Append(<<>>, Head(t)) \o Tail(t) = <<>> \o t
    BY MoveOne, EmptySeq
<1> QED BY <1>1, <1>2, ConcatEmptySeq DEF PutBack

\* A stretch is as many blocks as it says, of the bytes that it says.
LEMMA StretchType ==
    ASSUME NEW m \in Nat, NEW c \in Nat, NEW last \in 0 .. BlockSize
    PROVE  /\ Stretch(m, c, last) \in Seq(Block)
           /\ Len(Stretch(m, c, last)) = c
           /\ Stretch(m, c, last) = <<>> <=> c = 0
<1>1. Stretch(m, c, last) \in [1 .. c -> Block]
    BY Geometry DEF Stretch, Block
<1>2. Stretch(m, c, last) \in Seq(Block) /\ Len(Stretch(m, c, last)) = c
    BY <1>1, FunctionIsSeq
<1> QED BY <1>2, EmptySeq

\* Their bytes: whole blocks, and the last.
StretchTotal(m, c, last) ==
    IF c = 0 THEN 0
    ELSE (c - 1) * BlockSize + (IF m + c < TotalBlocks THEN BlockSize ELSE last)

LEMMA StretchBytes ==
    ASSUME NEW m \in Nat, NEW c \in Nat, NEW last \in 0 .. BlockSize
    PROVE  /\ Bytes(Stretch(m, c, last)) = StretchTotal(m, c, last)
           /\ Bytes(Stretch(m, c, last)) \in Nat
<1>1. CASE c = 0
    BY <1>1, StretchType DEF Bytes, StretchTotal
<1>2. CASE c # 0
    <2>1. Stretch(m, c, last)[c].bytes =
              IF m + c < TotalBlocks THEN BlockSize ELSE last
        BY <1>2 DEF Stretch
    <2>2. Len(Stretch(m, c, last)) = c /\ Stretch(m, c, last) # <<>>
        BY <1>2, StretchType
    <2>3. Bytes(Stretch(m, c, last)) =
              (c - 1) * BlockSize + Stretch(m, c, last)[c].bytes
        BY <2>2 DEF Bytes
    <2>4. (c - 1) * BlockSize \in Nat
        BY <1>2, ProductGrows
    <2>5. Stretch(m, c, last)[c].bytes \in Nat
        BY <2>1
    <2>6. StretchTotal(m, c, last) =
              (c - 1) * BlockSize + Stretch(m, c, last)[c].bytes
        BY <1>2, <2>1 DEF StretchTotal
    <2> QED BY <2>3, <2>4, <2>5, <2>6
<1> QED BY <1>1, <1>2

\* What is short of the end has whole blocks only, whatever would be the last.
LEMMA StretchIsWhole ==
    ASSUME NEW m \in Nat, NEW c \in Nat, m + c < TotalBlocks \/ c = 0,
           NEW x, NEW y
    PROVE  Stretch(m, c, x) = Stretch(m, c, y)
<1>1. ASSUME NEW i \in 1 .. c PROVE m + i < TotalBlocks
    BY <1>1, Geometry
<1> QED BY <1>1 DEF Stretch

\* Stretches that meet are one.
LEMMA StretchJoin ==
    ASSUME NEW m \in Nat, NEW c \in Nat, NEW last \in 0 .. BlockSize
    PROVE  Stretch(0, m, last) \o Stretch(m, c, last) = Stretch(0, m + c, last)
<1> DEFINE s == Stretch(0, m, last)
           t == Stretch(m, c, last)
           u == Stretch(0, m + c, last)
<1>1. /\ s \in Seq(Block) /\ Len(s) = m
      /\ t \in Seq(Block) /\ Len(t) = c
      /\ u \in Seq(Block) /\ Len(u) = m + c
    BY StretchType
<1>2. /\ s \o t \in Seq(Block) /\ Len(s \o t) = m + c
      /\ \A i \in 1 .. m + c : (s \o t)[i] =
             IF i <= m THEN s[i] ELSE t[i - m]
    <2> HIDE DEF s, t
    <2> QED BY <1>1, ConcatProperties
<1> HIDE DEF s, t, u
<1>3. ASSUME NEW i \in 1 .. m + c PROVE (s \o t)[i] = u[i]
    <2>0. i \in Nat /\ i >= 1 /\ i <= m + c
        OBVIOUS
    <2>1. CASE i <= m
        <3>1. s[i] = u[i]
            BY <2>0, <2>1 DEF Stretch, s, u
        <3> QED BY <2>1, <3>1, <1>2
    <2>2. CASE i > m
        <3>1. t[i - m] = u[i]
            BY <2>0, <2>2 DEF Stretch, t, u
        <3> QED BY SMTT(30), <2>0, <2>2, <3>1, <1>2
    <2>3. i <= m \/ i > m
        BY <2>0
    <2> QED BY <2>1, <2>2, <2>3, Zenon
<1>4. s \o t = u
    BY <1>1, <1>2, <1>3, SeqEqual
<1> QED BY <1>4 DEF s, t, u

-----------------------------------------------------------------------------
(* What take_ready takes.                                                   *)

\* The slices that are ready fit in the window, and unless Done was heard they
\* are full.
LEMMA ReadyIsReal ==
    ASSUME SessionType, HeldIsReal, NEW end \in 0 .. SliceCount, ReadyEnd(end),
           end > nextNeeded
    PROVE  /\ end <= nextNeeded + MaxLiveSlices
           /\ ~done => BlocksBefore(end) = end * BlocksPerSlice
<1> DEFINE s == end - 1
<1>1. s \in Slices /\ s \in nextNeeded .. (end - 1) /\ s + 1 = end
    BY Geometry DEF SessionType, Slices
<1>2. held[s] # {} /\ CanWrite(s)
    BY <1>1 DEF ReadyEnd, IsComplete
<1>3. end <= nextNeeded + MaxLiveSlices
    BY <1>1, <1>2, Geometry DEF HeldIsReal, SessionType, Slices
<1>4. ASSUME ~done PROVE BlocksBefore(end) = end * BlocksPerSlice
    <2>1. CASE \E later \in Slices : later > s /\ held[later] # {}
        <3>1. end < SliceCount
            BY <1>1, <2>1, Geometry DEF Slices
        <3> QED BY <3>1, BeforeBounds
    <2>2. CASE DataSlots \subseteq held[s]
        <3>1. (BlocksPerSlice - 1) \in held[s]
            BY <2>2 DEF DataSlots
        <3>2. BlocksPerSlice - 1 < BlocksIn(s)
            BY <1>1, <3>1 DEF HeldIsReal
        <3>3. s * BlocksPerSlice + BlocksPerSlice <= TotalBlocks
            BY <1>1, <3>2, SliceBounds
        <3>4. end * BlocksPerSlice = s * BlocksPerSlice + BlocksPerSlice
              /\ end * BlocksPerSlice \in Nat
            BY <1>1, SliceBounds, ProductGrows
        <3> HIDE DEF s
        <3> QED BY <3>3, <3>4, Geometry DEF BlocksBefore, AtMost
    <2> QED BY <1>2, <1>4, <2>1, <2>2 DEF CanWrite
<1> QED BY <1>3, <1>4

\* How many blocks that is: none unless a slice is ready, and no more than a
\* window's worth.
LEMMA TakenCount ==
    ASSUME SessionType, HeldIsReal, NEW end \in 0 .. SliceCount, ReadyEnd(end),
           NEW c, c = BlocksBefore(end) - BlocksBefore(nextNeeded)
    PROVE  /\ c \in Nat /\ c <= MaxLiveSlices * BlocksPerSlice
           /\ nextNeeded <= end
           /\ c > 0 <=> nextNeeded < end
           /\ BlocksBefore(nextNeeded) \in Nat
           /\ BlocksBefore(nextNeeded) + c = BlocksBefore(end)
<1>1. nextNeeded \in 0 .. SliceCount /\ nextNeeded <= end
      /\ nextNeeded \in Nat /\ end \in Nat
    BY Geometry DEF SessionType, ReadyEnd
<1>2. /\ BlocksBefore(nextNeeded) \in Nat /\ BlocksBefore(end) \in Nat
      /\ BlocksBefore(nextNeeded) <= TotalBlocks
      /\ nextNeeded < SliceCount =>
             BlocksBefore(nextNeeded) = nextNeeded * BlocksPerSlice
      /\ nextNeeded = SliceCount => BlocksBefore(nextNeeded) = TotalBlocks
      /\ nextNeeded * BlocksPerSlice \in Nat
    BY <1>1, BeforeBounds, Geometry
<1>3. MaxLiveSlices * BlocksPerSlice \in Nat
    BY ProductGrows
<1>4. CASE nextNeeded = end
    BY <1>1, <1>2, <1>3, <1>4
<1>5. CASE nextNeeded < end
    <2>1. end <= nextNeeded + MaxLiveSlices
        BY <1>1, <1>5, ReadyIsReal
    <2>2. end * BlocksPerSlice <=
              (nextNeeded + MaxLiveSlices) * BlocksPerSlice
          /\ end * BlocksPerSlice \in Nat
        BY <1>1, <2>1, ProductGrows
    <2>3. (nextNeeded + MaxLiveSlices) * BlocksPerSlice =
              nextNeeded * BlocksPerSlice + MaxLiveSlices * BlocksPerSlice
        BY <1>1
    <2>4. BlocksBefore(end) <= end * BlocksPerSlice
        BY <2>2, Geometry DEF BlocksBefore, AtMost
    <2>5. nextNeeded * BlocksPerSlice + BlocksPerSlice <=
              end * BlocksPerSlice
        BY <1>1, <1>5, ProductGrows, nextNeeded + 1 <= end
    <2>7. nextNeeded < SliceCount
        BY <1>1, <1>5, Geometry
    <2>6. BlocksBefore(nextNeeded) < BlocksBefore(end)
        <3>1. nextNeeded * BlocksPerSlice < TotalBlocks
            BY <1>1, <2>7, SliceBounds, Geometry DEF Slices
        <3> QED
            BY <1>2, <2>2, <2>5, <2>7, <3>1, Geometry DEF BlocksBefore, AtMost
    <2> QED BY <1>1, <1>2, <1>3, <1>5, <2>2, <2>3, <2>4, <2>6, <2>7
<1> QED BY <1>1, <1>4, <1>5

\* What the last block of the stream counts, should it be taken now.
LastBytes ==
    IF done THEN TotalBytes - (TotalBlocks - 1) * BlockSize ELSE BlockSize

LEMMA LastBytesType ==
    LastBytes \in 0 .. BlockSize
<1>1. CASE TotalBlocks = 0
    BY <1>1, Geometry, 0 * BlockSize = 0 DEF LastBytes
<1>2. CASE TotalBlocks # 0
    <2>1. /\ (TotalBlocks - 1) * BlockSize \in Nat
          /\ TotalBlocks * BlockSize =
                 (TotalBlocks - 1) * BlockSize + BlockSize
        BY <1>2, Geometry, ProductGrows, TotalBlocks - 1 \in Nat,
           (TotalBlocks - 1) + 1 = TotalBlocks
    <2> QED BY <2>1, Geometry DEF LastBytes
<1> QED BY <1>1, <1>2

\* The blocks recovered are numbered from the first that is needed.
LEMMA RecoveredBlocks ==
    ASSUME SessionType, HeldIsReal, NEW end \in 0 .. SliceCount, ReadyEnd(end),
           NEW c, c = BlocksBefore(end) - BlocksBefore(nextNeeded)
    PROVE  /\ Recovered(end) =
                  [i \in 1 .. c |-> BlocksBefore(nextNeeded) + i - 1]
           /\ Len(Recovered(end)) = c
<1> DEFINE m == BlocksBefore(nextNeeded)
           first == nextNeeded * BlocksPerSlice
           past == IF done THEN AtMost(end * BlocksPerSlice, TotalBlocks)
                           ELSE end * BlocksPerSlice
<1>1. /\ c \in Nat /\ m \in Nat /\ nextNeeded <= end
      /\ m + c = BlocksBefore(end)
      /\ c > 0 => nextNeeded < end
    BY TakenCount
<1>2. nextNeeded \in 0 .. SliceCount /\ first \in Nat
      /\ end * BlocksPerSlice \in Nat
    BY BeforeBounds DEF SessionType
<1>3. CASE c = 0
    <2>1. past - first <= 0
        <3>1. CASE nextNeeded = end
            BY <1>2, <3>1, Geometry DEF AtMost
        <3>2. CASE nextNeeded < end
            <4>1. nextNeeded < SliceCount
                BY <1>2, <3>2, Geometry
            <4>2. first = m
                BY <1>2, <4>1, BeforeBounds
            <4>3. past = BlocksBefore(end)
                BY <3>2, ReadyIsReal DEF BlocksBefore
            <4> HIDE DEF m, first, past
            <4> QED BY <1>1, <1>2, <1>3, <4>2, <4>3
        <3> QED BY <1>1, <1>2, <3>1, <3>2, Geometry
    <2>2. past - first \in Int
        BY <1>2, Geometry DEF AtMost
    <2>3. 1 .. (past - first) = 1 .. c
        BY <1>3, <2>1, <2>2
    <2>4. Recovered(end) = [i \in 1 .. c |-> m + i - 1]
        <3>1. Recovered(end) = [i \in 1 .. (past - first) |-> first + i - 1]
            BY DEF Recovered
        <3>2. 1 .. c = {}
            BY <1>3
        <3> HIDE DEF m, first, past
        <3> QED BY <2>3, <3>1, <3>2
    <2>5. Recovered(end) \in [1 .. c -> Int]
        BY <1>1, <2>4
    <2> QED BY <1>1, <2>4, <2>5, FunctionIsSeq
<1>4. CASE c > 0
    <2>1. nextNeeded < SliceCount
        BY <1>1, <1>2, <1>4, Geometry
    <2>2. first = m
        BY <1>2, <2>1, BeforeBounds
    <2>3. past = BlocksBefore(end)
        BY <1>1, <1>4, ReadyIsReal DEF BlocksBefore
    <2>4. past - first = c
        BY <1>1, <2>2, <2>3
    <2>5. Recovered(end) = [i \in 1 .. (past - first) |-> first + i - 1]
        BY DEF Recovered
    <2>6. Recovered(end) = [i \in 1 .. c |-> m + i - 1]
        <3> HIDE DEF m, first, past
        <3> QED BY <2>2, <2>4, <2>5
    <2>7. Recovered(end) \in [1 .. c -> Int]
        BY <1>1, <2>6
    <2> QED BY <1>1, <2>6, <2>7, FunctionIsSeq
<1> QED BY <1>1, <1>3, <1>4

\* And every one of them is kept, cut to what is left for it.
LEMMA TakenBlocks ==
    ASSUME SessionType, HeldIsReal, BytesFollowSlices,
           NEW end \in 0 .. SliceCount, ReadyEnd(end),
           NEW c, c = BlocksBefore(end) - BlocksBefore(nextNeeded)
    PROVE  WithinTotal(Recovered(end)) =
               Stretch(BlocksBefore(nextNeeded), c, LastBytes)
<1> DEFINE m == BlocksBefore(nextNeeded)
           blocks == Recovered(end)
           room(i) == TotalBytes - writtenBytes - (i - 1) * BlockSize
<1>1. /\ c \in Nat /\ m \in Nat /\ nextNeeded <= end
      /\ m + c = BlocksBefore(end)
      /\ c > 0 => nextNeeded < end
    BY TakenCount
<1>2. /\ blocks = [i \in 1 .. c |-> m + i - 1] /\ Len(blocks) = c
      /\ m + c <= TotalBlocks
    BY <1>1, RecoveredBlocks, BeforeBounds, Geometry
<1>3. ASSUME NEW i \in 1 .. c
      PROVE  /\ m + i - 1 \in Nat /\ m + i - 1 < TotalBlocks
             /\ room(i) = TotalBytes - (m + i - 1) * BlockSize
             /\ (m + i - 1) * BlockSize \in Nat
    <2>1. nextNeeded < SliceCount /\ nextNeeded \in 0 .. SliceCount
        BY <1>1, <1>3, Geometry DEF SessionType
    <2>2. m = nextNeeded * BlocksPerSlice
        BY <2>1, BeforeBounds
    <2>3. writtenBytes = m * BlockSize
        BY <2>1, <2>2 DEF BytesFollowSlices
    <2>4. m + i - 1 \in Nat /\ i - 1 \in Nat /\ m + i - 1 < TotalBlocks
        BY <1>1, <1>2, <1>3, Geometry
    <2>5. (m + i - 1) * BlockSize = m * BlockSize + (i - 1) * BlockSize
          /\ (m + i - 1) * BlockSize \in Nat
          /\ m * BlockSize \in Nat /\ (i - 1) * BlockSize \in Nat
        <3>1. \A x, y \in Nat : /\ (x + y) * BlockSize =
                                       x * BlockSize + y * BlockSize
                                /\ x * BlockSize \in Nat
            OBVIOUS
        <3>2. m + i - 1 = m + (i - 1)
            BY <1>1, <2>4
        <3> HIDE DEF m
        <3> QED BY <1>1, <2>4, <3>1, <3>2
    <2> HIDE DEF m
    <2> QED BY <2>3, <2>4, <2>5
<1>4. ASSUME NEW i \in 1 .. c
      PROVE  /\ done => /\ room(i) > 0
                        /\ AtMost(BlockSize, room(i)) =
                               IF m + i < TotalBlocks THEN BlockSize
                               ELSE LastBytes
             /\ ~done => BlockSize =
                             IF m + i < TotalBlocks THEN BlockSize
                             ELSE LastBytes
    <2> DEFINE j == m + i - 1
    <2>1. j \in Nat /\ j < TotalBlocks /\ j + 1 = m + i
          /\ room(i) = TotalBytes - j * BlockSize
          /\ j * BlockSize \in Nat
        BY <1>1, <1>3, <1>4
    <2> HIDE DEF m, room, j
    <2>2. /\ j * BlockSize < TotalBytes
          /\ j + 1 < TotalBlocks => (j + 1) * BlockSize < TotalBytes
          /\ (j + 1) * BlockSize = j * BlockSize + BlockSize
        BY <2>1, WholeBlocks
    <2>3. j + 1 < TotalBlocks \/ j = TotalBlocks - 1
        BY <2>1, Geometry
    <2>4. room(i) > 0
        BY <2>1, <2>2
    <2>5. CASE j + 1 < TotalBlocks
        <3>1. BlockSize < room(i)
            BY <2>1, <2>2, <2>5, Geometry
        <3>2. AtMost(BlockSize, room(i)) = BlockSize /\ m + i < TotalBlocks
            BY <2>1, <2>5, <3>1 DEF AtMost
        <3> QED BY <2>4, <3>2
    <2>6. CASE j = TotalBlocks - 1
        <3>1. ~(m + i < TotalBlocks)
            BY <2>1, <2>6, Geometry
        <3>2. done => LastBytes = room(i)
            BY <2>1, <2>6 DEF LastBytes
        <3>3. room(i) <= BlockSize /\ room(i) \in Int
            BY <2>1, <2>2, <2>6, Geometry
        <3> QED BY <2>4, <3>1, <3>2, <3>3 DEF AtMost, LastBytes
    <2> QED BY <2>3, <2>5, <2>6
<1>5. CASE done
    <2>1. {i \in 1 .. Len(blocks) : room(i) > 0} = 1 .. c
        BY <1>2, <1>4, <1>5
    <2>2. WithinTotal(blocks) =
              [i \in 1 .. c |->
                 [no |-> blocks[i], bytes |-> AtMost(BlockSize, room(i))]]
        BY <1>5, <2>1 DEF WithinTotal
    <2> HIDE DEF m, blocks, room
    <2>3. ASSUME NEW i \in 1 .. c
          PROVE  [no |-> blocks[i], bytes |-> AtMost(BlockSize, room(i))] =
                 [no |-> m + i - 1,
                  bytes |-> IF m + i < TotalBlocks THEN BlockSize
                            ELSE LastBytes]
        BY <1>2, <1>4, <1>5, <2>3
    <2> QED BY <2>2, <2>3 DEF Stretch, m, blocks
<1>6. CASE ~done
    <2>1. WithinTotal(blocks) =
              [i \in 1 .. c |-> [no |-> blocks[i], bytes |-> BlockSize]]
        BY <1>2, <1>6 DEF WithinTotal
    <2> HIDE DEF m, blocks, room
    <2>2. ASSUME NEW i \in 1 .. c
          PROVE  [no |-> blocks[i], bytes |-> BlockSize] =
                 [no |-> m + i - 1,
                  bytes |-> IF m + i < TotalBlocks THEN BlockSize
                            ELSE LastBytes]
        BY <1>2, <1>4, <1>6, <2>2
    <2> QED BY <2>1, <2>2 DEF Stretch, m, blocks
<1> QED BY <1>5, <1>6

-----------------------------------------------------------------------------
(* The steps.                                                               *)

\* The invariant holds at the start.
LEMMA StreamInvInit == Init => StreamInv
<1> SUFFICES ASSUME Init PROVE StreamInv
    OBVIOUS
<1> USE DEF Init, AssemblerInit
<1>1. /\ SessionType /\ SinkType /\ HeldIsReal /\ OkMeansAll
      /\ PendingIsBounded /\ OkMeansTheFile
    <2>1. MaxLiveSlices * BlocksPerSlice \in Nat
        BY ProductGrows
    <2>2. <<>> \in Seq(Block) /\ Len(<<>>) = 0
          /\ <<>> \in Seq(Emitted \cup [kind : {"done", "evicted"}])
        BY EmptySeq
    <2>3. SessionType
        <3>1. held \in [Slices -> SUBSET Slots]
            OBVIOUS
        <3>2. 0 <= MaxBatch /\ 0 \in 0 .. SliceCount
            BY Geometry
        <3> QED BY <2>2, <3>1, <3>2 DEF SessionType
    <2>4. SinkType
        BY <2>2 DEF SinkType
    <2>5. PendingIsBounded
        BY <2>1, <2>2 DEF PendingIsBounded
    <2> QED
        BY <2>3, <2>4, <2>5 DEF HeldIsReal, OkMeansAll, OkMeansTheFile
<1>2. BytesFollowSlices
    <2>1. 0 * BlocksPerSlice * BlockSize = 0 /\ 0 * BlockSize = 0
        OBVIOUS
    <2> QED BY <2>1, Geometry DEF BytesFollowSlices
<1>3. NothingIsLost
    <2>1. BlocksBefore(0) = 0
        BY Geometry DEF BlocksBefore, AtMost
    <2>2. Handed(0, 0) = <<>>
        BY <2>1 DEF Handed, Stretch
    <2> QED BY <2>2, ConcatEmptySeq, EmptySeq DEF NothingIsLost, HandedOver
<1> QED BY <1>1, <1>2, <1>3 DEF StreamInv

\* What a batch brings was emitted.
LEMMA BatchIsEmitted ==
    ASSUME SessionType, NEW batch \in Batches
    PROVE  /\ batch \in Seq(Emitted \cup [kind : {"done", "evicted"}])
           /\ Len(batch) <= MaxBatch
<1>1. ShardsEmitted \subseteq Emitted
    <2>1. WindowEnd \in Int /\ WindowEnd <= SliceCount
        BY Geometry DEF WindowEnd, AtMost, SessionType
    <2>2. 0 .. (WindowEnd - 1) \subseteq Slices
        BY <2>1, Geometry DEF Slices
    <2> QED BY <2>2 DEF ShardsEmitted, Emitted
<1>2. Control \subseteq [kind : {"done", "evicted"}]
    BY DEF Control
<1>3. PICK n \in 1 .. MaxBatch : batch \in [1 .. n -> ShardsEmitted \cup Control]
    BY DEF Batches
<1>4. batch \in [1 .. n -> Emitted \cup [kind : {"done", "evicted"}]]
    BY <1>1, <1>2, <1>3
<1>5. n \in Nat /\ n <= MaxBatch
    OBVIOUS
<1> HIDE DEF Emitted
<1> QED BY <1>4, <1>5, FunctionIsSeq

\* Steps that leave the assembler and the blocks alone.
LEMMA OtherSteps ==
    ASSUME StreamInv,
           UNCHANGED <<assemblerVars, pending, writtenBytes, sinkVars>>,
           \/ RecvBatch \/ Reserve \/ StatsTick \/ GoSilent \/ Return
           \/ UNCHANGED vars
    PROVE  StreamInv'
<1> USE DEF StreamInv
<1>1. SessionType'
    <2>1. CASE RecvBatch
        BY <2>1, BatchIsEmitted DEF RecvBatch, SessionType, assemblerVars
    <2>2. CASE Reserve \/ StatsTick \/ GoSilent \/ UNCHANGED vars
        BY <2>2 DEF Reserve, StatsTick, GoSilent, SessionType, assemblerVars,
                    vars
    <2>3. CASE Return
        BY <2>3 DEF Return, ByteTotal, SessionType, assemblerVars
    <2> QED BY <2>1, <2>2, <2>3
<1>2. /\ SinkType' /\ HeldIsReal' /\ BytesFollowSlices' /\ NothingIsLost'
      /\ PendingIsBounded' /\ OkMeansTheFile'
    BY DEF SinkType, HeldIsReal, BytesFollowSlices, NothingIsLost, HandedOver,
           PendingIsBounded, OkMeansTheFile, assemblerVars, sinkVars
<1>3. OkMeansAll'
    <2>1. CASE RecvBatch \/ Reserve \/ StatsTick \/ GoSilent
        BY <2>1 DEF RecvBatch, Reserve, StatsTick, GoSilent, Selecting, Active,
                    OkMeansAll
    <2>2. CASE UNCHANGED vars
        BY <2>2 DEF vars, assemblerVars, OkMeansAll
    <2>3. CASE Return
        <3>1. Finished /\ pending = <<>>
            BY <2>3 DEF Return, Active
        <3>2. nextNeeded = SliceCount
            BY <3>1, Geometry DEF Finished, SessionType
        <3>3. task' = "ok" => writtenBytes = TotalBytes
            BY <2>3 DEF Return, ByteTotal
        <3> QED BY <3>1, <3>2, <3>3 DEF OkMeansAll, assemblerVars
    <2> QED BY <2>1, <2>2, <2>3
<1> QED BY <1>1, <1>2, <1>3

\* An arrival adds at most one real shard of a slice in the window.
LEMMA ArrivalStep ==
    ASSUME StreamInv, OnArrival
    PROVE  StreamInv'
<1> USE DEF StreamInv
<1> DEFINE m == Head(arrivals)
<1>1. /\ m \in Emitted \cup [kind : {"done", "evicted"}]
      /\ arrivals' \in Seq(Emitted \cup [kind : {"done", "evicted"}])
      /\ Len(arrivals') <= MaxBatch
    <2>1. arrivals # <<>> /\ arrivals' = Tail(arrivals)
        BY DEF OnArrival
    <2> HIDE DEF Emitted
    <2>2. Len(arrivals) \in Nat /\ Len(Tail(arrivals)) = Len(arrivals) - 1
        BY <2>1, HeadTailProperties, LenProperties DEF SessionType
    <2>3. Len(arrivals) <= MaxBatch
        BY DEF SessionType
    <2> QED BY <2>1, <2>2, <2>3, HeadTailProperties DEF SessionType
<1>2. task = "running" /\ UNCHANGED <<at, nextNeeded, pending, writtenBytes,
                                       reported, sinkVars>>
    BY DEF OnArrival
<1>3. held' = held \/ \E s \in Slices, k \in Slots :
          /\ held' = [held EXCEPT ![s] = @ \cup {k}]
          /\ nextNeeded <= s /\ s < nextNeeded + MaxLiveSlices
          /\ k < BlocksPerSlice => k < BlocksIn(s)
    <2>1. CASE m.kind = "shard" /\ Insert(m)
        <3>1. m \in Emitted
            BY <1>1, <2>1
        <3>2. /\ m.slice \in Slices /\ m.slot \in Slots
              /\ m.slot < BlocksPerSlice => m.slot < BlocksIn(m.slice)
            BY <3>1 DEF Emitted
        <3> HIDE DEF m
        <3> QED BY <2>1, <3>2 DEF Insert
    <2> QED BY <2>1 DEF OnArrival
<1>4. task' \in {"running", "evicted"} /\ done' \in BOOLEAN
    BY <1>2 DEF OnArrival, SessionType
<1> HIDE DEF m
<1>5. SessionType'
    <2>1. held' \in [Slices -> SUBSET Slots]
        BY <1>3 DEF SessionType
    <2> QED BY <1>1, <1>2, <1>4, <2>1 DEF SessionType
<1>6. HeldIsReal'
    BY <1>2, <1>3 DEF HeldIsReal, SessionType
<1>7. /\ SinkType' /\ BytesFollowSlices' /\ NothingIsLost' /\ OkMeansAll'
      /\ PendingIsBounded' /\ OkMeansTheFile'
    BY <1>2, <1>4
       DEF SinkType, BytesFollowSlices, NothingIsLost, HandedOver, OkMeansAll,
           PendingIsBounded, OkMeansTheFile, sinkVars
<1> QED BY <1>5, <1>6, <1>7

\* What is taken goes on where the blocks on the way end, and counts what the
\* slices taken say.
LEMMA TakeReadyStep ==
    ASSUME StreamInv, TakeReady
    PROVE  StreamInv'
<1> USE DEF StreamInv
<1>1. /\ task = "running" /\ at' = "handover"
      /\ UNCHANGED <<arrivals, done, task, reported, sinkVars>>
    BY DEF TakeReady
<1>2. CASE UNCHANGED <<held, nextNeeded, pending, writtenBytes>>
    <2>1. SessionType' /\ SinkType'
        BY <1>1, <1>2 DEF SessionType, SinkType, sinkVars
    <2> QED
        BY <1>1, <1>2, <2>1
           DEF HeldIsReal, BytesFollowSlices, NothingIsLost, HandedOver,
               OkMeansAll, PendingIsBounded, OkMeansTheFile, sinkVars
<1>3. ASSUME pending = <<>>, NEW end \in 0 .. SliceCount, ReadyEnd(end),
             nextNeeded' = end,
             held' = [s \in Slices |-> IF s < end THEN {} ELSE held[s]],
             pending' = pending \o WithinTotal(Recovered(end)),
             writtenBytes' =
                 writtenBytes + Bytes(WithinTotal(Recovered(end)))
      PROVE  StreamInv'
    <2> DEFINE m == BlocksBefore(nextNeeded)
               c == BlocksBefore(end) - m
               taken == Stretch(m, c, LastBytes)
    <2>1. /\ m \in Nat /\ c \in Nat /\ c <= MaxLiveSlices * BlocksPerSlice
          /\ nextNeeded <= end /\ m + c = BlocksBefore(end)
          /\ c > 0 <=> nextNeeded < end
        BY <1>3, TakenCount
    <2>2. WithinTotal(Recovered(end)) = taken
        BY <1>3, TakenBlocks
    <2> HIDE DEF m, c
    <2>3. /\ taken \in Seq(Block) /\ Len(taken) = c
          /\ taken = <<>> <=> c = 0
          /\ Bytes(taken) \in Nat
          /\ Bytes(taken) = StretchTotal(m, c, LastBytes)
        <3>1. /\ taken \in Seq(Block) /\ Len(taken) = c
              /\ taken = <<>> <=> c = 0
            BY <2>1, LastBytesType, StretchType
        <3>2. Bytes(taken) = StretchTotal(m, c, LastBytes)
              /\ Bytes(taken) \in Nat
            BY <2>1, LastBytesType, StretchBytes
        <3> QED BY <3>1, <3>2
    <2> HIDE DEF taken
    <2>4. pending' = taken
        BY <1>3, <2>2, <2>3, ConcatEmptySeq
    <2>5. writtenBytes' = writtenBytes + Bytes(taken)
        BY <1>3, <2>2
    <2>6. SessionType'
        <3>1. held' \in [Slices -> SUBSET Slots]
            BY <1>3 DEF SessionType
        <3>2. writtenBytes' \in Nat
            BY <2>3, <2>5 DEF SessionType
        <3> QED BY <1>1, <1>3, <3>1, <3>2 DEF SessionType
    <2>7. SinkType'
        BY <1>1, <2>3, <2>4 DEF SinkType, sinkVars
    <2>8. HeldIsReal'
        <3> SUFFICES ASSUME NEW s \in Slices
                     PROVE  /\ \A k \in held'[s] :
                                   k < BlocksPerSlice => k < BlocksIn(s)
                            /\ held'[s] # {} =>
                                   end <= s /\ s < end + MaxLiveSlices
            BY <1>3 DEF HeldIsReal
        <3>1. held'[s] = IF s < end THEN {} ELSE held[s]
            BY <1>3
        <3>2. s \in Int /\ nextNeeded \in Int /\ end \in Int
            BY Geometry DEF Slices, SessionType
        <3> QED BY <2>1, <3>1, <3>2 DEF HeldIsReal
    <2>9. c > 0 => /\ m < TotalBlocks /\ writtenBytes = m * BlockSize
                   /\ m * BlockSize \in Nat
        <3> SUFFICES ASSUME c > 0
                     PROVE  /\ m < TotalBlocks
                            /\ writtenBytes = m * BlockSize
                            /\ m * BlockSize \in Nat
            OBVIOUS
        <3>1. nextNeeded \in 0 .. SliceCount /\ nextNeeded < SliceCount
            BY <2>1, Geometry DEF SessionType
        <3>2. m = nextNeeded * BlocksPerSlice /\ m < TotalBlocks
            BY <3>1, BeforeBounds DEF m
        <3> QED BY <2>1, <3>1, <3>2, ProductGrows DEF BytesFollowSlices
    <2>10. c > 0 /\ end < SliceCount =>
               /\ m + c < TotalBlocks
               /\ writtenBytes' = end * BlocksPerSlice * BlockSize
        <3> SUFFICES ASSUME c > 0, end < SliceCount
                     PROVE  /\ m + c < TotalBlocks
                            /\ writtenBytes' = end * BlocksPerSlice * BlockSize
            OBVIOUS
        <3>1. m + c = end * BlocksPerSlice /\ m + c < TotalBlocks
            BY <2>1, BeforeBounds
        <3>2. writtenBytes' = m * BlockSize + (c - 1) * BlockSize + BlockSize
            BY SMTT(30), <2>3, <2>5, <2>9, <3>1, (c - 1) * BlockSize \in Int
               DEF StretchTotal
        <3>3. m * BlockSize + (c - 1) * BlockSize + BlockSize =
                  (m + c) * BlockSize
            BY <2>1
        <3> QED BY <3>1, <3>2, <3>3
    <2>11. c > 0 /\ end = SliceCount =>
               /\ m + c = TotalBlocks
               /\ writtenBytes' = (TotalBlocks - 1) * BlockSize + LastBytes
        <3> SUFFICES ASSUME c > 0, end = SliceCount
                     PROVE  /\ m + c = TotalBlocks
                            /\ writtenBytes' =
                                   (TotalBlocks - 1) * BlockSize + LastBytes
            OBVIOUS
        <3>1. m + c = TotalBlocks
            BY <2>1, BeforeBounds
        <3>2. writtenBytes' = m * BlockSize + (c - 1) * BlockSize + LastBytes
            BY SMTT(30), <2>3, <2>5, <2>9, <3>1, Geometry, LastBytesType,
               (c - 1) * BlockSize \in Int DEF StretchTotal
        <3>3. m * BlockSize + (c - 1) * BlockSize = (m + c - 1) * BlockSize
            BY <2>1
        <3>4. m + c - 1 = TotalBlocks - 1
            BY <2>1, <3>1, Geometry
        <3>5. writtenBytes' = (m + c - 1) * BlockSize + LastBytes
            BY <3>2, <3>3, Zenon
        <3> QED BY <3>1, <3>4, <3>5, Zenon
    <2>12. c = 0 => UNCHANGED <<nextNeeded, pending, writtenBytes>>
        <3>1. nextNeeded \in Int /\ end \in Int /\ writtenBytes \in Nat
            BY Geometry DEF SessionType
        <3>2. c = 0 => Bytes(taken) = 0
            BY <2>3 DEF StretchTotal
        <3> QED BY <1>3, <2>1, <2>3, <2>4, <2>5, <3>1, <3>2
    <2>13. BytesFollowSlices'
        <3>1. CASE c = 0
            BY <2>12, <3>1 DEF BytesFollowSlices
        <3>2. CASE c > 0 /\ end < SliceCount
            BY <1>3, <2>10, <3>2 DEF BytesFollowSlices
        <3>3. CASE c > 0 /\ end = SliceCount
            <4>1. writtenBytes' \in {TotalBytes, TotalBlocks * BlockSize}
                <5>1. CASE done
                    BY <2>11, <3>3, <5>1, Geometry,
                       (TotalBlocks - 1) * BlockSize \in Int DEF LastBytes
                <5>2. CASE ~done
                    <6>1. (TotalBlocks - 1) * BlockSize + BlockSize =
                              TotalBlocks * BlockSize
                        BY Geometry
                    <6> QED BY <2>11, <3>3, <5>2, <6>1 DEF LastBytes
                <5> QED BY <5>1, <5>2
            <4> QED BY <1>3, <3>3, <4>1, Geometry DEF BytesFollowSlices
        <3>4. c = 0 \/ (c > 0 /\ end < SliceCount)
              \/ (c > 0 /\ end = SliceCount)
            BY <2>1, Geometry
        <3> QED BY <3>1, <3>2, <3>3, <3>4
    <2>14. NothingIsLost'
        <3> SUFFICES ASSUME caller = "pumping"
                     PROVE  HandedOver' = Handed(end, writtenBytes')
            BY <1>1, <1>3 DEF NothingIsLost, sinkVars
        <3>1. HandedOver = Handed(nextNeeded, writtenBytes)
              /\ file' = file /\ channel' = channel
            BY <1>1 DEF NothingIsLost, sinkVars
        <3>2. CASE c = 0
            BY <1>3, <2>12, <3>1, <3>2 DEF HandedOver
        <3>3. CASE c > 0
            <4>1. file \o channel = Handed(nextNeeded, writtenBytes)
                <5>1. file \o channel \in Seq(Block)
                    BY ConcatProperties DEF SinkType
                <5>2. HandedOver = file \o channel
                    BY <1>3, <5>1, ConcatEmptySeq DEF HandedOver
                <5> QED BY <3>1, <5>2
            <4>2. Handed(nextNeeded, writtenBytes) = Stretch(0, m, LastBytes)
                BY <2>1, <2>9, <3>3, StretchIsWhole, 0 + m = m DEF Handed, m
            <4>3. Stretch(0, m, LastBytes) \o taken =
                      Stretch(0, m + c, LastBytes)
                BY <2>1, LastBytesType, StretchJoin DEF taken
            <4>4. Stretch(0, m + c, LastBytes) =
                      Stretch(0, m + c,
                              writtenBytes' - (TotalBlocks - 1) * BlockSize)
                <5>1. CASE end < SliceCount
                    BY <2>1, <2>10, <3>3, <5>1, StretchIsWhole,
                       0 + (m + c) = m + c
                <5>2. CASE end = SliceCount
                    <6>1. writtenBytes' - (TotalBlocks - 1) * BlockSize =
                              LastBytes
                        BY <2>11, <3>3, <5>2, LastBytesType, Geometry,
                           (TotalBlocks - 1) * BlockSize \in Int
                    <6> QED BY <6>1
                <5> QED BY <5>1, <5>2, Geometry
            <4>5. HandedOver' = (file \o channel) \o taken
                BY <2>4, <3>1 DEF HandedOver
            <4> QED BY <2>1, <4>1, <4>2, <4>3, <4>4, <4>5 DEF Handed
        <3> QED BY <2>1, <3>2, <3>3
    <2>15. PendingIsBounded'
        BY <2>1, <2>3, <2>4 DEF PendingIsBounded
    <2>16. OkMeansAll' /\ OkMeansTheFile'
        BY <1>1 DEF OkMeansAll, OkMeansTheFile, sinkVars
    <2> QED BY <2>6, <2>7, <2>8, <2>13, <2>14, <2>15, <2>16
<1> QED BY <1>2, <1>3 DEF TakeReady, SinkBehind

\* Offering a block moves it, or puts it back, or ends the session.
LEMMA TrySendStep ==
    ASSUME StreamInv, TrySend
    PROVE  StreamInv'
<1> USE DEF StreamInv
<1>1. /\ task = "running" /\ task' \in {"running", "sinkClosed"}
      /\ at' \in {"select", "handover"}
      /\ UNCHANGED <<arrivals, assemblerVars, writtenBytes, reported, file,
                     caller>>
    BY DEF TrySend, SessionType
<1>2. \/ pending' = pending /\ channel' = channel
      \/ /\ pending # <<>> /\ ~SinkFull
         /\ channel' = Append(channel, Head(pending))
         /\ pending' = Tail(pending)
    <2>1. pending # <<>> => PutBack(Head(pending), Tail(pending)) = pending
        BY PutBackIsSame DEF SinkType
    <2> QED BY <2>1 DEF TrySend
<1>3. SessionType' /\ HeldIsReal' /\ BytesFollowSlices' /\ OkMeansAll'
      /\ OkMeansTheFile'
    BY <1>1 DEF SessionType, HeldIsReal, BytesFollowSlices, OkMeansAll,
                OkMeansTheFile, assemblerVars
<1>4. CASE pending' = pending /\ channel' = channel
    BY <1>1, <1>3, <1>4
       DEF SinkType, NothingIsLost, HandedOver, PendingIsBounded, assemblerVars
<1>5. CASE /\ pending # <<>> /\ ~SinkFull
           /\ channel' = Append(channel, Head(pending))
           /\ pending' = Tail(pending)
    <2>1. /\ Head(pending) \in Block /\ pending' \in Seq(Block)
          /\ Len(pending') = Len(pending) - 1 /\ Len(pending) \in Nat
        BY <1>5, HeadTailProperties, LenProperties DEF SinkType
    <2>2. /\ channel' \in Seq(Block) /\ Len(channel') = Len(channel) + 1
          /\ Len(channel) \in Nat
        BY <1>5, <2>1, AppendProperties, LenProperties DEF SinkType
    <2>3. SinkType'
        BY <1>1, <1>5, <2>1, <2>2 DEF SinkType, SinkFull
    <2>4. PendingIsBounded'
        <3>1. MaxLiveSlices * BlocksPerSlice \in Nat
            BY ProductGrows
        <3> QED BY <2>1, <3>1 DEF PendingIsBounded
    <2>5. HandedOver' = HandedOver
        <3>1. HandedOver' = (file \o channel') \o pending'
            BY <1>1 DEF HandedOver
        <3>2. (file \o channel') \o pending' = file \o (channel' \o pending')
            <4>1. file \in Seq(Block)
                BY DEF SinkType
            <4>2. \A s, t, u \in Seq(Block) : (s \o t) \o u = s \o (t \o u)
                BY ConcatAssociative
            <4> QED BY <2>1, <2>2, <4>1, <4>2, Zenon
        <3>3. channel' \o pending' = channel \o pending
            BY <1>5, MoveOne DEF SinkType
        <3>4. file \o (channel \o pending) = (file \o channel) \o pending
            <4>1. \A s, t, u \in Seq(Block) : (s \o t) \o u = s \o (t \o u)
                BY ConcatAssociative
            <4> QED BY <4>1, Zenon DEF SinkType
        <3> QED BY <3>1, <3>2, <3>3, <3>4 DEF HandedOver
    <2>6. NothingIsLost'
        BY <1>1, <2>5 DEF NothingIsLost, assemblerVars
    <2> QED BY <1>3, <2>3, <2>4, <2>6
<1> QED BY <1>2, <1>4, <1>5

\* The whole stream, counted in full, is the source.
LEMMA HandedIsSource ==
    Handed(SliceCount, TotalBytes) = Source
<1>1. BlocksBefore(SliceCount) = TotalBlocks
    BY BeforeBounds, Geometry
<1>2. ASSUME NEW i \in 1 .. TotalBlocks
      PROVE  AtMost(BlockSize, TotalBytes - (i - 1) * BlockSize) =
             IF i < TotalBlocks THEN BlockSize
             ELSE TotalBytes - (TotalBlocks - 1) * BlockSize
    <2> DEFINE j == i - 1
    <2>1. j \in Nat /\ j < TotalBlocks /\ j + 1 = i
        BY Geometry
    <2> HIDE DEF j
    <2>2. /\ j * BlockSize \in Nat /\ j * BlockSize < TotalBytes
          /\ j + 1 < TotalBlocks => (j + 1) * BlockSize < TotalBytes
          /\ (j + 1) * BlockSize = j * BlockSize + BlockSize
        BY <2>1, WholeBlocks
    <2>3. CASE i < TotalBlocks
        <3>1. BlockSize < TotalBytes - j * BlockSize
            BY <2>1, <2>2, <2>3
        <3> QED BY <2>3, <3>1 DEF AtMost, j
    <2>4. CASE i = TotalBlocks
        <3>1. ~(BlockSize < TotalBytes - j * BlockSize)
            BY <2>1, <2>2, <2>4, Geometry
        <3>2. TotalBytes - j * BlockSize =
                  TotalBytes - (TotalBlocks - 1) * BlockSize
            BY <2>4 DEF j
        <3>3. ~(i < TotalBlocks)
            BY <2>4, Geometry
        <3> QED BY <3>1, <3>2, <3>3 DEF AtMost, j
    <2> QED BY <2>1, <2>3, <2>4, Geometry
<1>3. Handed(SliceCount, TotalBytes) =
          [i \in 1 .. TotalBlocks |->
             [no |-> 0 + i - 1,
              bytes |-> IF 0 + i < TotalBlocks THEN BlockSize
                        ELSE TotalBytes - (TotalBlocks - 1) * BlockSize]]
    BY <1>1 DEF Handed, Stretch
<1>4. ASSUME NEW i \in 1 .. TotalBlocks
      PROVE  0 + i = i /\ 0 + i - 1 = i - 1
    BY Geometry
<1> QED BY <1>2, <1>3, <1>4 DEF Source

\* The pump moves blocks into the file; whoever else ends the transfer drops
\* them, and does not call it Ok.
LEMMA PumpStep ==
    ASSUME StreamInv, PumpNext
    PROVE  StreamInv'
<1> USE DEF StreamInv
<1>1. UNCHANGED <<at, arrivals, assemblerVars, pending, writtenBytes, task,
                  reported>>
    BY DEF PumpNext, PumpWrite, PumpFails, PumpEnds, FinishEarly, FinishEnds
<1>2. SessionType' /\ HeldIsReal' /\ BytesFollowSlices' /\ OkMeansAll'
      /\ PendingIsBounded'
    BY <1>1 DEF SessionType, HeldIsReal, BytesFollowSlices, OkMeansAll,
                PendingIsBounded, assemblerVars
<1>3. CASE PumpWrite
    <2>1. /\ caller = "pumping" /\ caller' = caller /\ channel # <<>>
          /\ file' = Append(file, Head(channel)) /\ channel' = Tail(channel)
        BY <1>3 DEF PumpWrite
    <2>2. /\ Head(channel) \in Block /\ channel' \in Seq(Block)
          /\ Len(channel') = Len(channel) - 1 /\ Len(channel) \in Nat
        BY <2>1, HeadTailProperties, LenProperties DEF SinkType
    <2>3. file' \in Seq(Block)
        BY <2>1, <2>2, AppendProperties DEF SinkType
    <2>4. SinkType'
        BY <1>1, <2>1, <2>2, <2>3 DEF SinkType
    <2>5. file' \o channel' = file \o channel
        BY <2>1, MoveOne DEF SinkType
    <2>6. NothingIsLost' /\ OkMeansTheFile'
        BY <1>1, <2>1, <2>5
           DEF NothingIsLost, HandedOver, OkMeansTheFile, assemblerVars
    <2> QED BY <1>2, <2>4, <2>6
<1>4. CASE PumpFails \/ FinishEarly \/ FinishEnds
    <2>1. /\ caller' \in {"fileError", "finishing", "finished"}
          /\ \/ channel' = <<>>
             \/ channel' = channel
          /\ file' = file
        BY <1>4 DEF PumpFails, FinishEarly, FinishEnds
    <2>2. SinkType'
        <3>1. channel' \in Seq(Block) /\ Len(channel') <= SinkCapacity
            <4>1. <<>> \in Seq(Block) /\ Len(<<>>) = 0 /\ 0 <= SinkCapacity
                BY EmptySeq
            <4> QED BY <2>1, <4>1 DEF SinkType
        <3> QED BY <1>1, <2>1, <3>1 DEF SinkType
    <2>3. NothingIsLost' /\ OkMeansTheFile'
        BY <2>1 DEF NothingIsLost, OkMeansTheFile
    <2> QED BY <1>2, <2>2, <2>3
<1>5. CASE PumpEnds
    <2>1. /\ caller = "pumping" /\ channel = <<>> /\ task # "running"
          /\ caller' = task /\ UNCHANGED <<channel, file>>
        BY <1>5 DEF PumpEnds
    <2>2. SinkType'
        BY <1>1, <2>1 DEF SinkType, SessionType
    <2>3. NothingIsLost'
        BY <2>1 DEF NothingIsLost, SessionType
    <2>4. OkMeansTheFile'
        <3> SUFFICES ASSUME task = "ok" PROVE file = Source
            BY <2>1 DEF OkMeansTheFile
        <3>1. /\ pending = <<>> /\ nextNeeded = SliceCount
              /\ writtenBytes = TotalBytes
            BY DEF OkMeansAll
        <3>2. HandedOver = Source
            BY <2>1, <3>1, HandedIsSource DEF NothingIsLost
        <3>3. HandedOver = file
            BY <2>1, <3>1, ConcatEmptySeq DEF HandedOver, SinkType
        <3> QED BY <3>2, <3>3
    <2> QED BY <1>2, <2>2, <2>3, <2>4
<1> QED BY <1>3, <1>4, <1>5 DEF PumpNext

\* Every step keeps the invariant.
LEMMA StreamInvNext == StreamInv /\ [Next]_vars => StreamInv'
<1> SUFFICES ASSUME StreamInv, [Next]_vars PROVE StreamInv'
    OBVIOUS
<1>1. CASE \/ RecvBatch \/ Reserve \/ StatsTick \/ GoSilent \/ Return
           \/ UNCHANGED vars
    <2>1. UNCHANGED <<assemblerVars, pending, writtenBytes, sinkVars>>
        BY <1>1 DEF RecvBatch, Reserve, StatsTick, GoSilent, Return, vars
    <2> QED BY <1>1, <2>1, OtherSteps
<1>2. CASE OnArrival
    BY <1>2, ArrivalStep
<1>3. CASE TakeReady
    BY <1>3, TakeReadyStep
<1>4. CASE TrySend
    BY <1>4, TrySendStep
<1>5. CASE PumpNext
    BY <1>5, PumpStep
<1> QED
    BY <1>1, <1>2, <1>3, <1>4, <1>5 DEF Next, SessionNext, Over

-----------------------------------------------------------------------------
(* The theorems.                                                            *)

\* The invariant of a receiver's stream, whatever arrives in whatever order,
\* however slow the sink is, and however the caller ends it.
THEOREM StreamInductive == Spec => []StreamInv
<1> QED BY StreamInvInit, StreamInvNext, PTL DEF Spec

\* TypeOK always holds: no queue outgrows its capacity.
THEOREM SessionTypeCorrect == Spec => []TypeOK
<1>1. StreamInv => TypeOK
    BY DEF StreamInv, SessionType, SinkType, TypeOK
<1> QED BY <1>1, StreamInductive, PTL

\* recv_to returns Ok only when the file is what was read: that every receiver
\* that reports success has the stream, byte for byte.
THEOREM OkIsTheSource == Spec => []OkMeansTheFile
<1>1. StreamInv => OkMeansTheFile
    BY DEF StreamInv
<1> QED BY <1>1, StreamInductive, PTL

\* A sink that is slow stops take_ready: beside the channel no more blocks wait in
\* pending than MaxLiveSlices whole slices have, a window's worth.
THEOREM PendingStaysBounded == Spec => []PendingIsBounded
<1>1. StreamInv => PendingIsBounded
    BY DEF StreamInv
<1> QED BY <1>1, StreamInductive, PTL

\* While the pump runs, file, channel and pending are the stream in order, and
\* written_bytes counts them.
THEOREM OrderIsKept == Spec => []HandedOverInOrder
<1>1. ASSUME StreamInv, caller = "pumping"
      PROVE  /\ \A i \in 1 .. Len(HandedOver) : HandedOver[i].no = i - 1
             /\ Bytes(HandedOver) = writtenBytes
    <2> USE DEF StreamInv
    <2> DEFINE n == BlocksBefore(nextNeeded)
               rest == writtenBytes - (TotalBlocks - 1) * BlockSize
               last == IF n < TotalBlocks \/ n = 0 THEN BlockSize ELSE rest
    <2>1. /\ n \in 0 .. TotalBlocks /\ nextNeeded \in 0 .. SliceCount
          /\ nextNeeded < SliceCount => /\ n = nextNeeded * BlocksPerSlice
                                        /\ n < TotalBlocks
          /\ nextNeeded = SliceCount => n = TotalBlocks
          /\ n \in Nat /\ n * BlockSize \in Nat
        <3>1. nextNeeded \in 0 .. SliceCount
            BY <1>1 DEF SessionType
        <3>2. n \in 0 .. TotalBlocks
            BY <3>1, BeforeBounds
        <3>3. n \in Nat
            BY <3>2, Geometry
        <3> QED BY <3>1, <3>2, <3>3, BeforeBounds, ProductGrows
    <2>2. HandedOver = Stretch(0, n, rest)
        BY <1>1 DEF NothingIsLost, Handed
    <2> HIDE DEF n, rest
    <2>3. n # 0 => (n - 1) * BlockSize + BlockSize = n * BlockSize
        BY <2>1
    <2>4. n = TotalBlocks => nextNeeded = SliceCount
        BY <2>1, Geometry
    <2>5. n = TotalBlocks /\ n # 0 =>
              /\ rest \in 0 .. BlockSize
              /\ (n - 1) * BlockSize + rest = writtenBytes
        <3> SUFFICES ASSUME n = TotalBlocks, n # 0
                     PROVE  /\ rest \in 0 .. BlockSize
                            /\ (n - 1) * BlockSize + rest = writtenBytes
            OBVIOUS
        <3>0. nextNeeded = SliceCount
            BY <2>4
        <3>1. writtenBytes \in {TotalBytes, TotalBlocks * BlockSize}
            BY <1>1, <3>0, Zenon DEF BytesFollowSlices
        <3>2. (TotalBlocks - 1) * BlockSize + BlockSize =
                  TotalBlocks * BlockSize
              /\ (TotalBlocks - 1) * BlockSize \in Nat
            BY <2>3, Geometry, ProductGrows, TotalBlocks - 1 \in Nat
        <3>3. rest = writtenBytes - (TotalBlocks - 1) * BlockSize
            BY DEF rest
        <3> QED BY <3>1, <3>2, <3>3, Geometry
    <2>6. HandedOver = Stretch(0, n, last) /\ last \in 0 .. BlockSize
        BY <2>1, <2>2, <2>5, StretchIsWhole, Geometry, 0 + n = n
    <2> HIDE DEF last
    <2>7. Len(HandedOver) = n
        BY <2>1, <2>6, StretchType
    <2>8. \A i \in 1 .. Len(HandedOver) : HandedOver[i].no = i - 1
        BY <2>1, <2>6, <2>7 DEF Stretch
    <2>9. Bytes(HandedOver) = writtenBytes
        <3>1. Bytes(HandedOver) = StretchTotal(0, n, last)
            BY <2>1, <2>6, StretchBytes
        <3>2. CASE n = 0
            <4>0. Bytes(HandedOver) = 0
                BY <3>1, <3>2 DEF StretchTotal
            <4>1. CASE nextNeeded < SliceCount
                <5>1. writtenBytes = n * BlockSize
                    BY <1>1, <2>1, <4>1, Zenon DEF BytesFollowSlices
                <5>2. n * BlockSize = 0
                    BY <3>2
                <5> QED BY <4>0, <5>1, <5>2
            <4>2. CASE nextNeeded = SliceCount
                <5>1. TotalBlocks = 0 /\ TotalBytes = 0
                    BY <2>1, <3>2, <4>2, Geometry
                <5>2. TotalBlocks * BlockSize = 0
                    BY <5>1
                <5>3. writtenBytes \in {TotalBytes, TotalBlocks * BlockSize}
                    BY <1>1, <4>2, Zenon DEF BytesFollowSlices
                <5> QED BY <4>0, <5>1, <5>2, <5>3
            <4> QED BY <2>1, <4>1, <4>2, Geometry
        <3>3. CASE n # 0 /\ n < TotalBlocks
            <4>1. nextNeeded < SliceCount
                BY <2>1, <3>3, Geometry
            <4>2. writtenBytes = n * BlockSize
                BY <1>1, <2>1, <4>1, Zenon DEF BytesFollowSlices
            <4>3. StretchTotal(0, n, last) = (n - 1) * BlockSize + BlockSize
                BY <2>1, <3>3, 0 + n = n DEF StretchTotal
            <4> QED BY <2>3, <3>1, <3>3, <4>2, <4>3
        <3>4. CASE n # 0 /\ n = TotalBlocks
            <4>1. last = rest
                BY <3>4, Geometry DEF last
            <4>2. StretchTotal(0, n, last) = (n - 1) * BlockSize + last
                BY <2>1, <3>4, 0 + n = n, Geometry DEF StretchTotal
            <4> QED BY <2>5, <3>1, <3>4, <4>1, <4>2
        <3> QED BY <2>1, <3>2, <3>3, <3>4, Geometry
    <2> QED BY <2>8, <2>9
<1>2. StreamInv => HandedOverInOrder
    BY <1>1 DEF HandedOverInOrder
<1> QED BY <1>2, StreamInductive, PTL

-----------------------------------------------------------------------------
(* What the caller sees.                                                    *)

\* The bytes of a block of the source: only the last can be short.
LEMMA SourceBytes ==
    ASSUME NEW i \in 1 .. TotalBlocks
    PROVE  Source[i] = [no |-> i - 1,
                        bytes |-> IF i < TotalBlocks THEN BlockSize
                                  ELSE TotalBytes - (TotalBlocks - 1) * BlockSize]
<1>1. Handed(SliceCount, TotalBytes) = Source
    BY HandedIsSource
<1>2. BlocksBefore(SliceCount) = TotalBlocks /\ TotalBlocks \in Nat
    BY BeforeBounds, Geometry
<1>3. Source = [j \in 1 .. TotalBlocks |->
                  [no |-> 0 + j - 1,
                   bytes |-> IF 0 + j < TotalBlocks THEN BlockSize
                             ELSE TotalBytes - (TotalBlocks - 1) * BlockSize]]
    BY <1>1, <1>2 DEF Handed, Stretch
<1>4. 0 + i = i /\ 0 + i - 1 = i - 1
    BY <1>2
<1> QED BY <1>3, <1>4

\* It has a block for each number.
LEMMA SourceLength ==
    Len(Source) = TotalBlocks /\ TotalBlocks \in Nat
<1>1. Source \in [1 .. TotalBlocks -> {Source[j] : j \in 1 .. TotalBlocks}]
    BY DEF Source
<1> QED BY <1>1, Geometry, FunctionIsSeq

\* Its blocks are whole, or what is left.
LEMMA SourceIsBlocks ==
    ASSUME NEW i \in 1 .. TotalBlocks
    PROVE  Source[i] \in Block
<1>1. (TotalBlocks - 1) * BlockSize + BlockSize = TotalBlocks * BlockSize
      /\ (TotalBlocks - 1) * BlockSize \in Nat /\ TotalBlocks \in Nat \ {0}
    BY Geometry, ProductGrows, TotalBlocks - 1 \in Nat
<1>2. TotalBytes - (TotalBlocks - 1) * BlockSize \in 0 .. BlockSize
    BY <1>1, Geometry
<1>3. i - 1 \in Nat
    BY <1>1
<1>4. Source[i] = [no |-> i - 1,
                   bytes |-> IF i < TotalBlocks THEN BlockSize
                             ELSE TotalBytes - (TotalBlocks - 1) * BlockSize]
    BY SourceBytes
<1>5. BlockSize \in 0 .. BlockSize
    OBVIOUS
<1> QED BY <1>2, <1>3, <1>4, <1>5 DEF Block

\* The session fails over the byte count only with everything handed over, and
\* over a closed sink only when nobody takes blocks any more.
FailuresFit ==
    /\ task = "byteCountMismatch" =>
           pending = <<>> /\ nextNeeded = SliceCount /\ writtenBytes # TotalBytes
    /\ task = "sinkClosed" => caller # "pumping"

LEMMA FailuresFitNext ==
    ASSUME StreamInv, FailuresFit, [Next]_vars
    PROVE  FailuresFit'
<1> USE DEF StreamInv, SessionType
<1>1. CASE \/ RecvBatch \/ Reserve \/ StatsTick \/ GoSilent \/ OnArrival
           \/ UNCHANGED vars \/ Over
    BY <1>1 DEF FailuresFit, RecvBatch, Reserve, StatsTick, GoSilent, OnArrival,
                Over, vars, assemblerVars, sinkVars
<1>2. CASE TakeReady \/ TrySend
    BY <1>2 DEF FailuresFit, TakeReady, TrySend, assemblerVars, sinkVars
<1>3. CASE Return
    <2>1. /\ Finished /\ pending = <<>>
          /\ task' = (IF writtenBytes = TotalBytes THEN "ok"
                      ELSE "byteCountMismatch")
          /\ UNCHANGED <<pending, nextNeeded, writtenBytes, caller>>
        BY <1>3 DEF Return, Active, ByteTotal, assemblerVars, sinkVars
    <2>2. nextNeeded = SliceCount
        BY <2>1, Geometry DEF Finished
    <2> QED BY <2>1, <2>2 DEF FailuresFit
<1>4. CASE PumpNext
    BY <1>4 DEF FailuresFit, PumpNext, PumpWrite, PumpFails, PumpEnds,
                FinishEarly, FinishEnds, assemblerVars
<1> QED BY <1>1, <1>2, <1>3, <1>4 DEF Next, SessionNext

\* What a session's error says is so.
THEOREM FailuresAlwaysFit == Spec => []FailuresFit
<1>1. Init => FailuresFit
    BY DEF Init, FailuresFit
<1>2. StreamInv /\ FailuresFit /\ [Next]_vars => FailuresFit'
    BY FailuresFitNext
<1> QED BY <1>1, <1>2, StreamInductive, PTL DEF Spec

\* A block that was handed over is the source's, or its padded last one.
LEMMA HandedBlock ==
    ASSUME StreamInv, caller = "pumping", NEW i \in 1 .. Len(HandedOver)
    PROVE  /\ i \in 1 .. TotalBlocks
           /\ \/ HandedOver[i] = Source[i]
              \/ i = TotalBlocks /\ HandedOver[i] = Caller!Padded[i]
<1> DEFINE n == BlocksBefore(nextNeeded)
           rest == writtenBytes - (TotalBlocks - 1) * BlockSize
<1>1. /\ n \in 0 .. TotalBlocks /\ nextNeeded \in 0 .. SliceCount
      /\ TotalBlocks \in Nat /\ SliceCount \in Nat
      /\ nextNeeded < SliceCount => n < TotalBlocks
    BY BeforeBounds, Geometry DEF StreamInv, SessionType
<1>2. HandedOver = Stretch(0, n, rest)
    BY DEF StreamInv, NothingIsLost, Handed
<1>3. HandedOver = [j \in 1 .. n |->
                     [no |-> 0 + j - 1,
                      bytes |-> IF 0 + j < TotalBlocks THEN BlockSize ELSE rest]]
    BY <1>2 DEF Stretch
<1> HIDE DEF n
<1>4. Len(HandedOver) = n
    BY <1>1, <1>3, FunctionIsSeq
<1>5. i \in 1 .. TotalBlocks /\ i \in 1 .. n /\ 0 + i = i /\ 0 + i - 1 = i - 1
    BY <1>1, <1>4
<1>6. HandedOver[i] = [no |-> i - 1,
                       bytes |-> IF i < TotalBlocks THEN BlockSize ELSE rest]
    BY <1>3, <1>5
<1>7. CASE i < TotalBlocks
    BY <1>5, <1>6, <1>7, SourceBytes
<1>8. CASE i = TotalBlocks
    <2>1. nextNeeded = SliceCount
        BY <1>1, <1>5, <1>8
    <2>2. writtenBytes \in {TotalBytes, TotalBlocks * BlockSize}
        BY <2>1, Zenon DEF StreamInv, BytesFollowSlices
    <2>3. (TotalBlocks - 1) * BlockSize + BlockSize = TotalBlocks * BlockSize
          /\ (TotalBlocks - 1) * BlockSize \in Nat
        BY <1>5, <1>8, Geometry, ProductGrows, TotalBlocks - 1 \in Nat
    <2>4. rest \in {TotalBytes - (TotalBlocks - 1) * BlockSize, BlockSize}
        BY <2>2, <2>3, Geometry
    <2>5. Caller!Padded[i] = [no |-> i - 1, bytes |-> BlockSize]
        BY <1>5, SourceLength DEF Caller!Padded
    <2> HIDE DEF rest
    <2> QED BY <1>5, <1>6, <1>8, <2>4, <2>5, SourceBytes
<1> QED BY <1>1, <1>5, <1>7, <1>8

\* The pump writes the next block of the source.
LEMMA PumpDelivers ==
    ASSUME StreamInv, PumpWrite
    PROVE  Caller!DeliverNext
<1>1. /\ caller = "pumping" /\ channel # <<>> /\ UNCHANGED caller
      /\ file' = Append(file, Head(channel))
    BY DEF PumpWrite
<1> DEFINE i == Len(file) + 1
<1>2. i \in 1 .. Len(HandedOver) /\ HandedOver[i] = Head(channel)
    <2>1. /\ file \in Seq(Block) /\ channel \in Seq(Block)
          /\ pending \in Seq(Block)
        BY DEF StreamInv, SinkType
    <2>2. /\ Head(channel) = channel[1] /\ Len(channel) \in Nat \ {0}
          /\ Len(file) \in Nat /\ Len(pending) \in Nat
        BY <1>1, <2>1, LenProperties, EmptySeq
    <2>3. /\ file \o channel \in Seq(Block)
          /\ Len(file \o channel) = Len(file) + Len(channel)
          /\ (file \o channel)[i] = channel[1]
        BY <2>1, <2>2, ConcatProperties
    <2>4. /\ Len(HandedOver) = Len(file) + Len(channel) + Len(pending)
          /\ HandedOver[i] = (file \o channel)[i]
        BY <2>1, <2>2, <2>3, ConcatProperties DEF HandedOver
    <2> QED BY <2>2, <2>3, <2>4
<1> HIDE DEF i
<1>3. /\ i \in 1 .. TotalBlocks
      /\ \/ Head(channel) = Source[i]
         \/ i = TotalBlocks /\ Head(channel) = Caller!Padded[i]
    BY <1>1, <1>2, HandedBlock
<1>4. Len(Source) = TotalBlocks /\ i <= Len(Source) /\ TotalBlocks \in Nat
    BY <1>3, SourceLength
<1> QED BY <1>1, <1>3, <1>4 DEF Caller!DeliverNext, i

\* The caller's answer is the session's, and fits what was written.
LEMMA PumpAnswers ==
    ASSUME StreamInv, FailuresFit, PumpEnds
    PROVE  Caller!Succeed \/ Caller!Mismatch \/ Caller!Fail
<1> USE DEF StreamInv
<1>1. /\ caller = "pumping" /\ channel = <<>> /\ task # "running"
      /\ caller' = task /\ UNCHANGED file
    BY DEF PumpEnds
<1>2. pending = <<>> => HandedOver = file
    BY <1>1, ConcatEmptySeq DEF HandedOver, SinkType
<1>3. CASE task = "ok"
    <2>1. /\ pending = <<>> /\ nextNeeded = SliceCount
          /\ writtenBytes = TotalBytes
        BY <1>3 DEF OkMeansAll
    <2>2. file = Source
        BY <1>1, <1>2, <2>1, HandedIsSource DEF NothingIsLost
    <2> QED BY <1>1, <1>3, <2>2 DEF Caller!Succeed
<1>4. CASE task = "byteCountMismatch"
    <2>1. /\ pending = <<>> /\ nextNeeded = SliceCount
          /\ writtenBytes # TotalBytes
        BY <1>4 DEF FailuresFit
    <2>2. writtenBytes = TotalBlocks * BlockSize
        BY <2>1, Zenon DEF BytesFollowSlices
    <2>3. TotalBlocks \in Nat /\ TotalBlocks # 0
        <3>1. TotalBlocks = 0 => TotalBlocks * BlockSize = 0
            OBVIOUS
        <3> QED BY <2>1, <2>2, <3>1, Geometry
    <2>4. BlocksBefore(SliceCount) = TotalBlocks
        BY BeforeBounds, Geometry
    <2>5. file = Stretch(0, TotalBlocks,
                         writtenBytes - (TotalBlocks - 1) * BlockSize)
        BY <1>1, <1>2, <2>1, <2>4 DEF NothingIsLost, Handed
    <2>6. (TotalBlocks - 1) * BlockSize + BlockSize = TotalBlocks * BlockSize
          /\ (TotalBlocks - 1) * BlockSize \in Nat
        BY <2>3, Geometry, ProductGrows, TotalBlocks - 1 \in Nat
    <2>7. writtenBytes - (TotalBlocks - 1) * BlockSize = BlockSize
        BY <2>2, <2>6, Geometry
    <2>8. Len(file) = TotalBlocks
        BY <2>3, <2>5, <2>7, StretchType
    <2>9. file # Source
        <3>1. file[TotalBlocks].bytes = BlockSize
            BY <2>3, <2>5, <2>7, 0 + TotalBlocks = TotalBlocks DEF Stretch
        <3>2. Source[TotalBlocks].bytes =
                  TotalBytes - (TotalBlocks - 1) * BlockSize
            <4>1. TotalBlocks \in 1 .. TotalBlocks /\ ~(TotalBlocks < TotalBlocks)
                BY <2>3
            <4>2. PICK i \in 1 .. TotalBlocks : i = TotalBlocks
                BY <4>1
            <4>3. Source[i] = [no |-> i - 1,
                               bytes |-> IF i < TotalBlocks THEN BlockSize
                                         ELSE TotalBytes - (TotalBlocks - 1) * BlockSize]
                BY SourceBytes
            <4>4. ~(i < TotalBlocks)
                BY <4>1, <4>2
            <4> QED BY <4>2, <4>3, <4>4
        <3>3. TotalBytes - (TotalBlocks - 1) * BlockSize # BlockSize
            BY <2>1, <2>2, <2>6, Geometry
        <3> QED BY <3>1, <3>2, <3>3
    <2>10. Len(Source) = TotalBlocks
        BY SourceLength
    <2> QED BY <1>1, <1>4, <2>8, <2>9, <2>10 DEF Caller!Mismatch
<1>5. CASE task \in {"senderSilent", "evicted"}
    BY <1>1, <1>5 DEF Caller!Fail
<1> QED BY <1>1, <1>3, <1>4, <1>5 DEF FailuresFit, SessionType

\* Whatever order shards arrive in, however slow the sink is, the file grows by
\* the blocks of the source, each answer says what the file holds, and no block
\* is written after it.
THEOREM KeepsDelivery == Spec => ImplementsDelivery
<1>1. Init => Caller!DeliveryInit
    BY DEF Init, Caller!DeliveryInit
<1>2. ASSUME StreamInv, FailuresFit, [Next]_vars
      PROVE  [Caller!DeliveryNext]_(Caller!deliveryVars)
    <2>1. CASE SessionNext \/ Over \/ UNCHANGED vars
        BY <2>1 DEF SessionNext, RecvBatch, Reserve, StatsTick, GoSilent,
                    OnArrival, TakeReady, TrySend, Return, Over, vars, sinkVars,
                    Caller!deliveryVars
    <2>2. CASE PumpWrite
        BY <1>2, <2>2, PumpDelivers DEF Caller!DeliveryNext
    <2>3. CASE PumpEnds
        BY <1>2, <2>3, PumpAnswers DEF Caller!DeliveryNext
    <2>4. CASE PumpFails
        <3>1. Caller!Fail
            BY <2>4 DEF PumpFails, Caller!Fail
        <3> QED BY <3>1 DEF Caller!DeliveryNext
    <2>5. CASE FinishEarly \/ FinishEnds
        <3>1. Caller!Finish
            BY <2>5 DEF FinishEarly, FinishEnds, Caller!Finish
        <3> QED BY <3>1 DEF Caller!DeliveryNext
    <2> QED BY <1>2, <2>1, <2>2, <2>3, <2>4, <2>5 DEF Next, PumpNext
<1> QED BY <1>1, <1>2, StreamInductive, FailuresAlwaysFit, PTL
        DEF Spec, ImplementsDelivery, Caller!DeliverySpec

\* However the call ends, the file holds the front of the source, but for
\* padding after its last byte.
THEOREM FileIsTheFront == Spec => []Caller!HoldsTheFront
<1> USE DEF Caller!HoldsTheFront
<1>1. Caller!DeliveryInit => Caller!HoldsTheFront
    BY SourceLength, EmptySeq DEF Caller!DeliveryInit
<1>2. ASSUME Caller!HoldsTheFront,
             [Caller!DeliveryNext]_(Caller!deliveryVars)
      PROVE  Caller!HoldsTheFront'
    <2>1. CASE Caller!DeliverNext
        <3> DEFINE n == Len(file) + 1
        <3>0. /\ n <= Len(Source)
              /\ \/ file' = Append(file, Source[n])
                 \/ /\ n = Len(Source)
                    /\ file' = Append(file, Caller!Padded[n])
            BY <2>1 DEF Caller!DeliverNext
        <3>1. PICK b : /\ file' = Append(file, b) /\ n <= Len(Source)
                       /\ \/ b = Source[n]
                          \/ n = Len(Source) /\ b = Caller!Padded[n]
            BY <3>0
        <3>2. Len(file) \in Nat /\ n \in 1 .. TotalBlocks /\ TotalBlocks \in Nat
            BY <1>2, <3>1, SourceLength, LenProperties
        <3>3. b \in [no : Nat, bytes : Nat]
            <4>1. Source[n] \in [no : Nat, bytes : Nat]
                BY <3>2, SourceIsBlocks DEF Block
            <4>2. Caller!Padded[n] \in [no : Nat, bytes : Nat]
                BY <3>2, SourceLength DEF Caller!Padded
            <4> QED BY <3>1, <4>1, <4>2
        <3>4. /\ file' \in Seq([no : Nat, bytes : Nat])
              /\ Len(file') = n /\ file'[n] = b
              /\ \A i \in 1 .. Len(file) : file'[i] = file[i]
            BY <1>2, <3>1, <3>3, AppendProperties
        <3> QED BY <1>2, <3>1, <3>2, <3>4
    <2>2. CASE UNCHANGED file
        BY <1>2, <2>2
    <2> QED BY <1>2, <2>1, <2>2
            DEF Caller!DeliveryNext, Caller!Succeed, Caller!Mismatch,
                Caller!Fail, Caller!Finish, Caller!deliveryVars
<1> QED BY <1>1, <1>2, KeepsDelivery, PTL
        DEF ImplementsDelivery, Caller!DeliverySpec
=============================================================================
