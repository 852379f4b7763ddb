--------------------------- MODULE TransferProofs ---------------------------
(* Proofs about Transfer for every value of its constants.                  *)
EXTENDS Transfer, FiniteSetTheorems, SequenceTheorems, TLAPS

-----------------------------------------------------------------------------
(* What each process leaves alone.                                          *)

\* The slicer changes only its own state and what it sends.
LEMMA SlicerFrame ==
    SlicerNext => UNCHANGED <<groupVars, resultVars, dones, evictions, upVars,
                              sessionVars, historyVars, boundVars>>
    BY DEF SlicerNext, Push, Drain, OnFeedback

\* The send loop changes neither the window nor any receiver.
LEMMA SendLoopFrame ==
    SendLoopNext => UNCHANGED <<windowVars, frames, sessionVars, joined,
                                crashed, losses>>
    BY DEF SendLoopNext, EndLoop, AwaitSlicer, TakeEof, DoneTick, HoldoffExpires,
           DrainDeadline, OnStats, OnNak, OnLeave, Evict, senderVars, downVars,
           upVars, historyVars, boundVars

\* A session changes nothing of the sender.
LEMMA SessionFrame ==
    ASSUME NEW r \in Receivers, SessionNext(r)
    PROVE  UNCHANGED <<senderVars, joined, left, evicted, losses>>
    <1> USE DEF historyVars, boundVars
    <1>1. ASSUME NEW f \in frames[r], NEW again \in BOOLEAN,
                 DeliverShard(r, f, again)
          PROVE  UNCHANGED <<senderVars, joined, left, evicted, losses>>
        BY <1>1 DEF DeliverShard
    <1>2. CASE DeliverDone(r)
        BY <1>2 DEF DeliverDone
    <1>3. CASE DeliverEvicted(r)
        BY <1>3 DEF DeliverEvicted
    <1>4. CASE RenakTick(r) \/ RenakExpires(r) \/ StatsTick(r) \/ SinkReady(r)
        BY <1>4 DEF RenakTick, RenakExpires, StatsTick, SinkReady
    <1>5. CASE Finish(r) \/ GoSilent(r) \/ Crash(r)
        BY <1>5 DEF Finish, GoSilent, Crash
    <1> QED
        BY <1>1, <1>2, <1>3, <1>4, <1>5 DEF SessionNext

\* A loss changes the network only.
LEMMA LoseFrame == Lose => UNCHANGED <<senderVars, sessionVars, historyVars>>
    BY DEF Lose

\* A step is the slicer's, the send loop's, a session's, a loss or none.
LEMMA NextCases ==
    [Next]_vars => \/ SlicerNext \/ SendLoopNext
                   \/ \E r \in Receivers : SessionNext(r)
                   \/ Lose \/ UNCHANGED vars
    BY DEF Next, Over

-----------------------------------------------------------------------------
(* Type correctness.                                                        *)

\* A slice has at least one block and at most BlocksPerSlice.
LEMMA BlocksInType ==
    \A s \in Slices : BlocksIn(s) \in 1 .. BlocksPerSlice
    BY TransferAssumption DEF BlocksIn

\* So has what the assembler waits for.
LEMMA TargetType ==
    \A d \in BOOLEAN, s \in Slices : Target(d, s) \in 1 .. BlocksPerSlice
    BY BlocksInType, TransferAssumption DEF Target

\* A transfer begins well typed.
LEMMA InitTypeOK == Init => TypeOK
    <1> SUFFICES ASSUME Init PROVE TypeOK
        OBVIOUS
    <1> USE TransferAssumption DEF Init
    <1>1. SlicerTypeOK
        BY EmptySeq DEF SlicerTypeOK
    <1>2. GroupTypeOK
        BY DEF GroupTypeOK
    <1>3. NetworkTypeOK
        BY DEF NetworkTypeOK
    <1>4. SessionTypeOK
        BY DEF SessionTypeOK
    <1>5. HistoryTypeOK
        BY DEF HistoryTypeOK
    <1> QED
        BY <1>1, <1>2, <1>3, <1>4, <1>5 DEF TypeOK

\* The head and the tail of the feedback channel are feedback.
LEMMA FeedbackHead ==
    ASSUME feedback \in Seq(Feedback), feedback # <<>>
    PROVE  /\ Head(feedback) \in Feedback
           /\ Tail(feedback) \in Seq(Feedback)
           /\ Head(feedback) = feedback[1]
           /\ Len(Tail(feedback)) = Len(feedback) - 1
           /\ \A i \in 1 .. Len(Tail(feedback)) :
                  Tail(feedback)[i] = feedback[i + 1]
    BY HeadTailProperties, LenProperties

\* What is appended to the feedback channel keeps its type.
LEMMA FeedbackAppend ==
    ASSUME feedback \in Seq(Feedback), NEW m \in Feedback
    PROVE  /\ Append(feedback, m) \in Seq(Feedback)
           /\ Len(Append(feedback, m)) = Len(feedback) + 1
           /\ \A i \in 1 .. Len(feedback) :
                  Append(feedback, m)[i] = feedback[i]
           /\ Append(feedback, m)[Len(feedback) + 1] = m
    BY AppendProperties, LenProperties

\* Every step keeps the types of the slicer's variables.
LEMMA SlicerTypeStep ==
    ASSUME TypeOK, WindowInv, [Next]_vars
    PROVE  SlicerTypeOK'
    <1> USE TransferAssumption
    <1>0. SlicerTypeOK /\ GroupTypeOK /\ NetworkTypeOK
        BY DEF TypeOK
    <1>1. CASE Push
        BY SMTT(30), <1>0, <1>1 DEF Push, SourceEmpty, SlicerTypeOK
    <1>2. CASE Drain
        BY SMTT(30), <1>0, <1>2 DEF Drain, SlicerTypeOK, WindowInv
    <1>3. CASE OnFeedback
        <2>1. firstLive' \in 0 .. SliceCount
            BY <1>0, <1>3, FeedbackHead
               DEF OnFeedback, RetainFrom, SlicerTypeOK, Feedback
        <2>2. feedback' \in Seq(Feedback)
            BY <1>0, <1>3, FeedbackHead DEF OnFeedback, SlicerTypeOK
        <2> QED
            BY <1>0, <1>3, <2>1, <2>2 DEF OnFeedback, SlicerTypeOK
    <1>4. CASE SendLoopNext
        <2>1. UNCHANGED windowVars
            BY <1>4, SendLoopFrame
        <2>2. ASSUME NEW m \in stats, NEW again \in BOOLEAN, OnStats(m, again)
              PROVE  feedback' \in Seq(Feedback)
            <3>1. m \in Stats
                BY <1>0 DEF NetworkTypeOK
            <3> DEFINE heard == [reported EXCEPT ![m.from] = m.next]
            <3>2. heard \in [Receivers -> 0 .. SliceCount]
                BY <1>0, <3>1 DEF GroupTypeOK, Stats
            <3>3. ASSUME NEW slowest \in {heard[r] : r \in members}
                  PROVE  [kind |-> "needed", slice |-> slowest, slots |-> {}]
                         \in Feedback
                BY <1>0, <3>2 DEF GroupTypeOK, Feedback
            <3>4. CASE feedback' = feedback
                BY <1>0, <3>4 DEF SlicerTypeOK
            <3>5. CASE Advance(heard)
                BY <1>0, <3>3, <3>5, FeedbackAppend DEF Advance, SlicerTypeOK
            <3> QED
                BY <2>2, <3>4, <3>5 DEF OnStats
        <2>3. ASSUME NEW m \in naks, NEW again \in BOOLEAN, OnNak(m, again)
              PROVE  feedback' \in Seq(Feedback)
            <3> DEFINE wanted ==
                    {slot \in m.missing : <<m.slice, slot>> \notin suppressed}
            <3>1. [kind |-> "resend", slice |-> m.slice, slots |-> wanted]
                  \in Feedback
                BY <1>0 DEF NetworkTypeOK, Nak, Feedback, Slices
            <3> QED
                BY <1>0, <2>3, <3>1, FeedbackAppend DEF OnNak, SlicerTypeOK
        <2>4. feedback' \in Seq(Feedback)
            BY <1>0, <1>4, <2>2, <2>3
               DEF SendLoopNext, EndLoop, AwaitSlicer, TakeEof, DoneTick, HoldoffExpires,
                   DrainDeadline, OnLeave, Evict, senderVars, SlicerTypeOK
        <2>5. eof' \in {"none", "queued", "taken"}
            BY <1>0, <1>4
               DEF SendLoopNext, EndLoop, AwaitSlicer, TakeEof, DoneTick, HoldoffExpires,
                   DrainDeadline, OnLeave, Evict, OnStats, OnNak, senderVars,
                   SlicerTypeOK
        <2> QED
            BY <1>0, <2>1, <2>4, <2>5 DEF windowVars, SlicerTypeOK
    <1>5. CASE UNCHANGED senderVars
        BY <1>0, <1>5 DEF senderVars, windowVars, SlicerTypeOK
    <1> QED
        BY <1>1, <1>2, <1>3, <1>4, <1>5, NextCases, SessionFrame, LoseFrame
           DEF SlicerNext, vars

\* Every step keeps the types of the group's variables.
LEMMA GroupTypeStep ==
    ASSUME TypeOK, [Next]_vars
    PROVE  GroupTypeOK'
    <1> USE TransferAssumption
    <1>0. GroupTypeOK /\ NetworkTypeOK
        BY DEF TypeOK
    <1>1. CASE UNCHANGED <<groupVars, resultVars>>
        BY <1>0, <1>1 DEF groupVars, resultVars, GroupTypeOK
    <1>2. CASE SendLoopNext
        <2>1. CASE EndLoop \/ AwaitSlicer
            BY <1>0, <2>1 DEF EndLoop, AwaitSlicer, groupVars, GroupTypeOK
        <2>2. CASE TakeEof
            BY <1>0, <2>2 DEF TakeEof, resultVars, GroupTypeOK
        <2>3. CASE DoneTick
            BY <1>1, <2>3 DEF DoneTick, senderVars
        <2>4. CASE HoldoffExpires
            BY <1>0, <2>4 DEF HoldoffExpires, resultVars, GroupTypeOK
        <2>5. CASE DrainDeadline
            <3>1. IsFiniteSet(members \cap reached)
                BY <1>0, FS_Subset DEF GroupTypeOK
            <3>2. Cardinality(members \cap reached) \in Nat
                BY <3>1, FS_CardinalityType
            <3> QED
                BY <1>0, <2>5, <3>2 DEF DrainDeadline, CompleteCount, groupVars, GroupTypeOK
        <2>6. ASSUME NEW m \in stats, NEW again \in BOOLEAN, OnStats(m, again)
              PROVE  GroupTypeOK'
            <3> DEFINE heard == [reported EXCEPT ![m.from] = m.next]
            <3>1. m.from \in Receivers /\ heard \in [Receivers -> 0 .. SliceCount]
                BY <1>0 DEF NetworkTypeOK, Stats, GroupTypeOK
            <3>2. CASE UNCHANGED groupVars
                BY <1>1, <2>6, <3>2 DEF OnStats
            <3>3. CASE /\ UNCHANGED members /\ reported' = heard
                       /\ reached' \in {reached \cup {m.from}, reached \ {m.from}}
                       /\ Advance(heard)
                <4>1. neededFrom' \in 0 .. SliceCount
                    BY <1>0, <3>1, <3>3 DEF Advance, GroupTypeOK
                <4>2. suppressed' \subseteq Slices \X DataSlots
                    BY <1>0, <3>3 DEF Advance, GroupTypeOK
                <4> QED
                    BY <1>0, <2>6, <3>1, <3>3, <4>1, <4>2
                       DEF OnStats, resultVars, GroupTypeOK
            <3> QED
                BY <2>6, <3>2, <3>3 DEF OnStats
        <2>7. ASSUME NEW m \in naks, NEW again \in BOOLEAN, OnNak(m, again)
              PROVE  GroupTypeOK'
            <3>1. m.slice \in Slices /\ m.missing \subseteq DataSlots
                BY <1>0 DEF NetworkTypeOK, Nak
            <3> DEFINE wanted ==
                    {slot \in m.missing : <<m.slice, slot>> \notin suppressed}
            <3>2. ({m.slice} \X wanted) \subseteq Slices \X DataSlots
                BY <3>1
            <3>3. suppressed' = suppressed
                  \/ suppressed' = suppressed \cup ({m.slice} \X wanted)
                BY <2>7 DEF OnNak
            <3>4. suppressed' \subseteq Slices \X DataSlots
                BY <1>0, <3>2, <3>3 DEF GroupTypeOK
            <3> QED
                BY <1>0, <2>7, <3>4 DEF OnNak, resultVars, GroupTypeOK
        <2>8. ASSUME NEW r \in leaves, OnLeave(r)
              PROVE  GroupTypeOK'
            BY <1>0, <2>8 DEF OnLeave, Remove, resultVars, GroupTypeOK
        <2>9. ASSUME NEW r \in members, Evict(r)
              PROVE  GroupTypeOK'
            BY <1>0, <2>9 DEF Evict, Remove, resultVars, GroupTypeOK
        <2> QED
            BY <1>2, <2>1, <2>2, <2>3, <2>4, <2>5, <2>6, <2>7, <2>8, <2>9
               DEF SendLoopNext
    <1> QED
        BY <1>1, <1>2, NextCases, SlicerFrame, SessionFrame, LoseFrame
           DEF senderVars, vars

\* Shards sent to every receiver are frames.
LEMMA MulticastType ==
    ASSUME NetworkTypeOK, NEW shards \in SUBSET Frame, Multicast(shards)
    PROVE  frames' \in [Receivers -> SUBSET Frame]
    BY DEF Multicast, NetworkTypeOK

\* Slots of a slice, under a floor, are frames.
LEMMA ShardsType ==
    ASSUME NEW s \in Slices, NEW slots \in SUBSET Slots,
           NEW floor \in 0 .. SliceCount
    PROVE  Shards(s, slots, floor) \in SUBSET Frame
    BY DEF Shards, Frame

\* What the window supplies of a slice are its data slots.
LEMMA WindowSlotsType ==
    ASSUME SlicerTypeOK, WindowInv, NEW s \in 0 .. SliceCount
    PROVE  /\ WindowSlots(s) \subseteq DataSlots
           /\ s \notin Slices => WindowSlots(s) = {}
           /\ \A slot \in WindowSlots(s) : slot < BlocksIn(s)
    <1>0. /\ firstLive \in Nat /\ sealed \in 0 .. SliceCount /\ filled \in Nat
          /\ filled > 0 => sealed < SliceCount /\ filled <= BlocksIn(sealed)
        BY TransferAssumption DEF SlicerTypeOK, WindowInv
    <1>1. CASE s = sealed
        <2>1. s \notin firstLive .. (sealed - 1)
            BY <1>0, <1>1
        <2>2. WindowSlots(s) = 0 .. (filled - 1)
            BY <1>1, <2>1 DEF WindowSlots
        <2>3. filled > 0 => s \in Slices
            BY <1>0, <1>1, TransferAssumption DEF Slices
        <2>4. filled > 0 => BlocksIn(s) \in 1 .. BlocksPerSlice
            BY <2>3, BlocksInType
        <2> QED
            BY <1>0, <1>1, <2>2, <2>3, <2>4, TransferAssumption DEF DataSlots
    <1>2. CASE s # sealed /\ s \in firstLive .. (sealed - 1)
        <2>1. WindowSlots(s) = 0 .. (BlocksIn(s) - 1)
            BY <1>2 DEF WindowSlots
        <2>2. s \in Slices
            BY <1>0, <1>2, TransferAssumption DEF Slices
        <2>3. BlocksIn(s) \in 1 .. BlocksPerSlice
            BY <2>2, BlocksInType
        <2> QED
            BY <2>1, <2>2, <2>3, TransferAssumption DEF DataSlots
    <1>3. CASE s # sealed /\ s \notin firstLive .. (sealed - 1)
        BY <1>3 DEF WindowSlots
    <1> QED
        BY <1>1, <1>2, <1>3

\* What a receiver asks for are Naks.
LEMMA NaksForType ==
    ASSUME NEW r \in Receivers, NEW h, NEW d \in BOOLEAN,
           NEW slices \in SUBSET Slices
    PROVE  NaksFor(r, h, d, slices) \subseteq Nak
    <1>1. ASSUME NEW s \in slices
          PROVE  Missing(h, d, s) \subseteq DataSlots
        BY TargetType, TransferAssumption DEF Missing, DataSlots
    <1> QED
        BY <1>1 DEF NaksFor, Nak

\* Gaps are slices.
LEMMA GapsType ==
    \A r \in Receivers : \A h, d, floor : Gaps(r, h, d, floor) \subseteq Slices
    BY DEF Gaps

\* Every step keeps the types of what is in flight.
LEMMA NetworkTypeStep ==
    ASSUME TypeOK, WindowInv, [Next]_vars
    PROVE  NetworkTypeOK'
    <1> USE TransferAssumption
    <1>0. SlicerTypeOK /\ NetworkTypeOK /\ SessionTypeOK
        BY DEF TypeOK
    <1>1. CASE UNCHANGED <<downVars, upVars>>
        BY <1>0, <1>1 DEF downVars, upVars, NetworkTypeOK
    <1>2. CASE SlicerNext
        <2>1. CASE Push
            <3>1. sealed \in Slices /\ emitFloor \in 0 .. SliceCount
                BY <1>0, <2>1 DEF Push, SourceEmpty, SlicerTypeOK, Slices
            <3>2. {filled} \subseteq Slots /\ {filled} \cup ParitySlots \subseteq Slots
                BY <1>0 DEF SlicerTypeOK, Slots, DataSlots
            <3>3. frames' \in [Receivers -> SUBSET Frame]
                BY <1>0, <2>1, <3>1, <3>2, ShardsType, MulticastType DEF Push
            <3> QED
                BY <1>0, <2>1, <3>3 DEF Push, upVars, NetworkTypeOK
        <2>2. CASE Drain
            <3>1. CASE filled > 0
                <4>1. sealed \in Slices /\ emitFloor \in 0 .. SliceCount
                    BY <1>0, <3>1 DEF WindowInv, SlicerTypeOK, Slices
                <4>2. ParitySlots \subseteq Slots
                    BY DEF Slots
                <4>3. frames' \in [Receivers -> SUBSET Frame]
                    BY <1>0, <2>2, <3>1, <4>1, <4>2, ShardsType, MulticastType
                       DEF Drain
                <4> QED
                    BY <1>0, <2>2, <4>3 DEF Drain, upVars, NetworkTypeOK
            <3>2. CASE ~(filled > 0)
                BY <1>0, <2>2, <3>2 DEF Drain, upVars, NetworkTypeOK
            <3> QED
                BY <3>1, <3>2
        <2>3. CASE OnFeedback
            <3> DEFINE m == Head(feedback)
            <3>1. m \in Feedback
                BY <1>0, <2>3, FeedbackHead DEF OnFeedback, SlicerTypeOK
            <3>2. m.slice \in 0 .. SliceCount
                BY <3>1 DEF Feedback
            <3> DEFINE resent == Shards(m.slice, m.slots \cap WindowSlots(m.slice),
                                        emitFloor)
            <3>3. resent \in SUBSET Frame
                <4>1. emitFloor \in 0 .. SliceCount
                    BY <1>0 DEF SlicerTypeOK
                <4>2. CASE m.slice \in Slices
                    <5>1. m.slots \cap WindowSlots(m.slice) \in SUBSET Slots
                        BY <1>0, <3>2, WindowSlotsType DEF Slots
                    <5> QED
                        BY <4>1, <4>2, <5>1, ShardsType
                <4>3. CASE m.slice \notin Slices
                    <5>1. WindowSlots(m.slice) = {}
                        BY <1>0, <3>2, <4>3, WindowSlotsType
                    <5> QED
                        BY <5>1 DEF Shards
                <4> QED
                    BY <4>2, <4>3
            <3>4. frames' = frames \/ Multicast(resent)
                BY <2>3 DEF OnFeedback
            <3>5. frames' \in [Receivers -> SUBSET Frame]
                BY <1>0, <3>3, <3>4, MulticastType DEF NetworkTypeOK
            <3> QED
                BY <1>0, <2>3, <3>5 DEF OnFeedback, upVars, NetworkTypeOK
        <2> QED
            BY <1>2, <2>1, <2>2, <2>3 DEF SlicerNext
    <1>3. CASE SendLoopNext
        <2>1. frames' = frames
            BY <1>3, SendLoopFrame
        <2>2. dones' \in {dones, Running} /\ evictions' \subseteq evictions \cup Running
            BY <1>3 DEF SendLoopNext, EndLoop, AwaitSlicer, TakeEof, DoneTick, HoldoffExpires,
               DrainDeadline, OnStats, OnNak, OnLeave, Evict, downVars
        <2>3. stats' \subseteq stats /\ naks' \subseteq naks
              /\ leaves' \subseteq leaves
            BY <1>3 DEF SendLoopNext, EndLoop, AwaitSlicer, TakeEof, DoneTick, HoldoffExpires,
               DrainDeadline, OnStats, OnNak, OnLeave, Evict, upVars, Receive
        <2> QED
            BY <1>0, <2>1, <2>2, <2>3 DEF NetworkTypeOK, Running
    <1>4. ASSUME NEW r \in Receivers, SessionNext(r)
          PROVE  NetworkTypeOK'
        <2>1. ASSUME NEW f \in frames[r], NEW again \in BOOLEAN,
                     DeliverShard(r, f, again)
              PROVE  NetworkTypeOK'
            <3>1. frames' \in [Receivers -> SUBSET Frame]
                BY <1>0, <2>1 DEF DeliverShard, Receive, NetworkTypeOK
            <3> DEFINE h == Insert(r, f)
                       asked == IF f.floor > recvFloor[r]
                                THEN Gaps(r, h, heardDone[r], f.floor) ELSE {}
            <3>2. asked \in SUBSET Slices
                BY GapsType
            <3>3. naks' = naks \cup NaksFor(r, h, heardDone[r], asked)
                BY <2>1 DEF DeliverShard
            <3>4. naks' \subseteq Nak
                <4> HIDE DEF h, asked
                <4> QED
                    BY <1>0, <3>2, <3>3, NaksForType
                       DEF NetworkTypeOK, SessionTypeOK
            <3> QED
                BY <1>0, <2>1, <3>1, <3>4 DEF DeliverShard, NetworkTypeOK
        <2>2. CASE DeliverDone(r)
            <3>1. naks' \subseteq Nak
                BY <1>0, <2>2, GapsType, NaksForType
                   DEF DeliverDone, NetworkTypeOK
            <3> QED
                BY <1>0, <2>2, <3>1 DEF DeliverDone, NetworkTypeOK
        <2>3. CASE RenakTick(r)
            <3>1. naks' \subseteq Nak
                BY <1>0, <2>3, GapsType, NaksForType
                   DEF RenakTick, NetworkTypeOK, SessionTypeOK
            <3> QED
                BY <1>0, <2>3, <3>1 DEF RenakTick, downVars, NetworkTypeOK
        <2>4. CASE StatsTick(r) \/ Finish(r)
            <3>1. [from |-> r, next |-> nextNeeded[r]] \in Stats
                BY <1>0 DEF Stats, SessionTypeOK
            <3> QED
                BY <1>0, <2>4, <3>1
                   DEF StatsTick, Finish, Stop, downVars, NetworkTypeOK
        <2>5. CASE RenakExpires(r) \/ SinkReady(r)
            BY <1>1, <2>5 DEF RenakExpires, SinkReady
        <2>6. CASE DeliverEvicted(r) \/ GoSilent(r) \/ Crash(r)
            BY <1>0, <2>6
               DEF DeliverEvicted, GoSilent, Crash, Stop, upVars, NetworkTypeOK
        <2> QED
            BY <1>4, <2>1, <2>2, <2>3, <2>4, <2>5, <2>6 DEF SessionNext
    <1>5. CASE Lose
        <2>1. frames' \in [Receivers -> SUBSET Frame]
            BY <1>0, <1>5 DEF Lose, downVars, NetworkTypeOK
        <2>2. /\ dones' \subseteq dones /\ evictions' \subseteq evictions
              /\ stats' \subseteq stats /\ naks' \subseteq naks
              /\ leaves' \subseteq leaves
            BY <1>5 DEF Lose, downVars, upVars
        <2> QED
            BY <1>0, <2>1, <2>2 DEF NetworkTypeOK
    <1> QED
        BY <1>1, <1>2, <1>3, <1>4, <1>5, NextCases DEF vars

\* Assembler::insert keeps a map of held slots.
LEMMA InsertType ==
    ASSUME SessionTypeOK, NEW r \in Receivers, NEW f \in Frame
    PROVE  Insert(r, f) \in [Slices -> SUBSET Slots]
    BY DEF Insert, SessionTypeOK, Frame

\* hand_over keeps the types of a session's variables.
LEMMA HandOverType ==
    ASSUME SessionTypeOK, NEW r \in Receivers,
           NEW h \in [Slices -> SUBSET Slots], NEW d \in BOOLEAN,
           NEW asked \in SUBSET Slices, HandOver(r, h, d, asked)
    PROVE  /\ nextNeeded' \in [Receivers -> 0 .. SliceCount]
           /\ held' \in [Receivers -> [Slices -> SUBSET Slots]]
           /\ output' \in [Receivers -> [Slices -> 0 .. BlocksPerSlice]]
           /\ nakked' \in [Receivers -> SUBSET Slices]
           /\ pending' \in [Receivers -> BOOLEAN]
    <1> USE DEF SessionTypeOK
    <1>1. CASE pending[r]
        <2>1. /\ held' = [held EXCEPT ![r] = h]
              /\ nakked' = [nakked EXCEPT ![r] = @ \cup asked]
              /\ UNCHANGED <<nextNeeded, output, pending>>
            BY <1>1 DEF HandOver
        <2>2. held' \in [Receivers -> [Slices -> SUBSET Slots]]
            BY <2>1
        <2>3. nakked' \in [Receivers -> SUBSET Slices]
            BY <2>1
        <2> QED
            BY <2>1, <2>2, <2>3
    <1>2. CASE ~pending[r]
        <2>1. PICK next \in nextNeeded[r] .. SliceCount :
                LET taken == nextNeeded[r] .. (next - 1) IN
                /\ nextNeeded' = [nextNeeded EXCEPT ![r] = next]
                /\ held' = [held EXCEPT ![r] =
                       [s \in Slices |-> IF s < next THEN {} ELSE h[s]]]
                /\ output' = [output EXCEPT ![r] =
                         [s \in Slices |-> IF s \in taken THEN Target(d, s)
                                           ELSE output[r][s]]]
                /\ nakked' = [nakked EXCEPT ![r] =
                                {s \in @ \cup asked : s >= next}]
                /\ \E stall \in BOOLEAN :
                      pending' = [pending EXCEPT ![r] = stall]
            BY <1>2 DEF HandOver
        <2>2. next \in 0 .. SliceCount
            BY TransferAssumption
        <2>3. output' \in [Receivers -> [Slices -> 0 .. BlocksPerSlice]]
            <3>1. \A s \in Slices : Target(d, s) \in 0 .. BlocksPerSlice
                BY TargetType, TransferAssumption
            <3> QED
                BY <2>1, <3>1
        <2> QED
            BY <2>1, <2>2, <2>3
    <1> QED
        BY <1>1, <1>2

\* What HandOver leaves, and what the handler of the arrival changes besides.
LEMMA TurnType ==
    ASSUME SessionTypeOK, NEW r \in Receivers,
           NEW h \in [Slices -> SUBSET Slots], NEW d \in BOOLEAN,
           NEW asked \in SUBSET Slices, HandOver(r, h, d, asked),
           recvFloor' \in [Receivers -> 0 .. SliceCount],
           heardDone' \in [Receivers -> BOOLEAN], UNCHANGED phase
    PROVE  SessionTypeOK'
    <1>1. /\ nextNeeded' \in [Receivers -> 0 .. SliceCount]
          /\ held' \in [Receivers -> [Slices -> SUBSET Slots]]
          /\ output' \in [Receivers -> [Slices -> 0 .. BlocksPerSlice]]
          /\ nakked' \in [Receivers -> SUBSET Slices]
          /\ pending' \in [Receivers -> BOOLEAN]
        BY HandOverType
    <1>2. phase' \in [Receivers -> {"running", "finished", "failed"}]
        BY DEF SessionTypeOK
    <1> QED
        BY <1>1, <1>2 DEF SessionTypeOK

\* So does a process that stops.
LEMMA StopType ==
    ASSUME SessionTypeOK, NEW r \in Receivers,
           NEW how \in {"finished", "failed"}, Stop(r, how)
    PROVE  SessionTypeOK'
    <1>1. phase' \in [Receivers -> {"running", "finished", "failed"}]
        BY DEF Stop, SessionTypeOK
    <1> QED
        BY <1>1 DEF Stop, SessionTypeOK

\* Every step keeps the types of the sessions' variables.
LEMMA SessionTypeStep ==
    ASSUME TypeOK, [Next]_vars
    PROVE  SessionTypeOK'
    <1>0. NetworkTypeOK /\ SessionTypeOK
        BY DEF TypeOK
    <1>1. CASE UNCHANGED sessionVars
        BY <1>0, <1>1 DEF sessionVars, SessionTypeOK
    <1>2. ASSUME NEW r \in Receivers, SessionNext(r)
          PROVE  SessionTypeOK'
        <2>1. ASSUME NEW f \in frames[r], NEW again \in BOOLEAN,
                     DeliverShard(r, f, again)
              PROVE  SessionTypeOK'
            <3>1. f \in Frame
                BY <1>0 DEF NetworkTypeOK
            <3> DEFINE h == Insert(r, f)
                       asked == IF f.floor > recvFloor[r]
                                THEN Gaps(r, h, heardDone[r], f.floor) ELSE {}
            <3>2. h \in [Slices -> SUBSET Slots]
                BY <1>0, <3>1, InsertType
            <3>3. asked \in SUBSET Slices
                BY GapsType
            <3>4. HandOver(r, h, heardDone[r], asked)
                BY <2>1 DEF DeliverShard
            <3>5. recvFloor' \in [Receivers -> 0 .. SliceCount]
                BY <1>0, <2>1, <3>1 DEF DeliverShard, Frame, SessionTypeOK
            <3>6. heardDone[r] \in BOOLEAN
                BY <1>0 DEF SessionTypeOK
            <3>7. UNCHANGED <<phase, heardDone>>
                BY <2>1 DEF DeliverShard
            <3>8. heardDone' \in [Receivers -> BOOLEAN] /\ UNCHANGED phase
                BY <1>0, <3>7 DEF SessionTypeOK
            <3> HIDE DEF h, asked
            <3> QED
                BY <1>0, <3>2, <3>3, <3>4, <3>5, <3>6, <3>8, TurnType
        <2>2. CASE DeliverDone(r)
            <3>1. /\ HandOver(r, held[r], TRUE,
                              Gaps(r, held[r], TRUE, recvFloor[r]))
                  /\ heardDone' \in [Receivers -> BOOLEAN]
                  /\ UNCHANGED <<phase, recvFloor>>
                BY <1>0, <2>2 DEF DeliverDone, SessionTypeOK
            <3>2. /\ recvFloor' \in [Receivers -> 0 .. SliceCount]
                  /\ held[r] \in [Slices -> SUBSET Slots]
                BY <1>0, <3>1 DEF SessionTypeOK
            <3>3. Gaps(r, held[r], TRUE, recvFloor[r]) \in SUBSET Slices
                BY GapsType
            <3> QED
                BY <1>0, <3>1, <3>2, <3>3, TurnType
        <2>3. CASE RenakTick(r)
            <3>1. /\ HandOver(r, held[r], heardDone[r],
                              Gaps(r, held[r], heardDone[r], recvFloor[r]))
                  /\ UNCHANGED <<phase, recvFloor, heardDone>>
                BY <2>3 DEF RenakTick
            <3>2. /\ heardDone[r] \in BOOLEAN
                  /\ held[r] \in [Slices -> SUBSET Slots]
                  /\ recvFloor' \in [Receivers -> 0 .. SliceCount]
                  /\ heardDone' \in [Receivers -> BOOLEAN]
                BY <1>0, <3>1 DEF SessionTypeOK
            <3>3. Gaps(r, held[r], heardDone[r], recvFloor[r]) \in SUBSET Slices
                BY GapsType
            <3> QED
                BY <1>0, <3>1, <3>2, <3>3, TurnType
        <2>4. CASE StatsTick(r)
            <3>1. /\ HandOver(r, held[r], heardDone[r], {})
                  /\ UNCHANGED <<phase, recvFloor, heardDone>>
                BY <2>4 DEF StatsTick
            <3>2. /\ heardDone[r] \in BOOLEAN
                  /\ held[r] \in [Slices -> SUBSET Slots]
                  /\ recvFloor' \in [Receivers -> 0 .. SliceCount]
                  /\ heardDone' \in [Receivers -> BOOLEAN]
                BY <1>0, <3>1 DEF SessionTypeOK
            <3>3. {} \in SUBSET Slices
                OBVIOUS
            <3> QED
                BY <1>0, <3>1, <3>2, <3>3, TurnType
        <2>5. CASE RenakExpires(r)
            <3>1. PICK s \in nakked[r] :
                      nakked' = [nakked EXCEPT ![r] = nakked[r] \ {s}]
                BY <2>5 DEF RenakExpires
            <3>2. nakked' \in [Receivers -> SUBSET Slices]
                BY <1>0, <3>1 DEF SessionTypeOK
            <3> QED
                BY <1>0, <2>5, <3>2 DEF RenakExpires, SessionTypeOK
        <2>6. CASE SinkReady(r)
            <3>1. pending' \in [Receivers -> BOOLEAN]
                BY <1>0, <2>6 DEF SinkReady, SessionTypeOK
            <3> QED
                BY <1>0, <2>6, <3>1 DEF SinkReady, SessionTypeOK
        <2>7. CASE Finish(r) \/ DeliverEvicted(r) \/ GoSilent(r) \/ Crash(r)
            BY <1>0, <2>7, StopType DEF Finish, DeliverEvicted, GoSilent, Crash
        <2> QED
            BY <1>2, <2>1, <2>2, <2>3, <2>4, <2>5, <2>6, <2>7 DEF SessionNext
    <1> QED
        BY <1>1, <1>2, NextCases, SlicerFrame, SendLoopFrame, LoseFrame
           DEF vars

\* Every step keeps the types of history and bounds.
LEMMA HistoryTypeStep ==
    ASSUME TypeOK, [Next]_vars
    PROVE  HistoryTypeOK'
    <1> USE DEF HistoryTypeOK, historyVars, boundVars, CountCopy, CountTimeout
    <1>0. HistoryTypeOK /\ GroupTypeOK /\ NetworkTypeOK
        BY DEF TypeOK
    <1>1. CASE SlicerNext \/ UNCHANGED vars
        BY <1>0, <1>1, SlicerFrame DEF vars
    <1>2. CASE SendLoopNext
        <2>1. CASE EndLoop \/ AwaitSlicer \/ TakeEof \/ DoneTick \/ HoldoffExpires
                   \/ DrainDeadline
            BY <1>0, <2>1
               DEF EndLoop, AwaitSlicer, TakeEof, DoneTick, HoldoffExpires,
                   DrainDeadline
        <2>2. ASSUME NEW again \in BOOLEAN,
                     \/ \E m \in stats : OnStats(m, again)
                     \/ \E m \in naks : OnNak(m, again)
              PROVE  HistoryTypeOK'
            <3>1. /\ CountCopy(again)
                  /\ UNCHANGED <<historyVars, losses, timeouts>>
                BY <2>2 DEF OnStats, OnNak
            <3> QED
                BY <1>0, <3>1
        <2>3. ASSUME NEW r \in leaves, OnLeave(r)
              PROVE  HistoryTypeOK'
            BY <1>0, <2>3 DEF OnLeave, NetworkTypeOK
        <2>4. ASSUME NEW r \in members, Evict(r)
              PROVE  HistoryTypeOK'
            <3>1. /\ evicted' = evicted \cup {r}
                  /\ timeouts' = timeouts \/ CountTimeout
                  /\ UNCHANGED <<joined, left, crashed, losses, copies>>
                BY <2>4 DEF Evict, Silent
            <3> QED
                BY <1>0, <3>1 DEF GroupTypeOK
        <2> QED
            BY <1>2, <2>1, <2>2, <2>3, <2>4 DEF SendLoopNext
    <1>3. ASSUME NEW r \in Receivers, SessionNext(r)
          PROVE  HistoryTypeOK'
        <2>1. UNCHANGED <<joined, left, evicted, losses>>
            BY <1>3, SessionFrame
        <2>2. crashed' \subseteq Receivers
            BY <1>0, <1>3 DEF SessionNext, DeliverShard, DeliverDone,
               DeliverEvicted, RenakTick, RenakExpires, StatsTick, SinkReady,
               Finish, GoSilent, Crash
        <2>3. \/ UNCHANGED boundVars
              \/ UNCHANGED copies /\ CountTimeout
              \/ (\E again \in BOOLEAN : CountCopy(again)) /\ UNCHANGED timeouts
            <3> HIDE DEF CountCopy, CountTimeout
            <3> QED
                BY <1>3 DEF SessionNext, DeliverShard, DeliverDone,
                   DeliverEvicted, RenakTick, RenakExpires, StatsTick,
                   SinkReady, Finish, GoSilent, Crash
        <2>4. copies' \in Nat /\ timeouts' \in Nat
            BY <1>0, <2>3
        <2> QED
            BY <1>0, <2>1, <2>2, <2>4
    <1>4. CASE Lose
        BY <1>0, <1>4 DEF Lose
    <1> QED
        BY <1>1, <1>2, <1>3, <1>4, NextCases

\* Every step keeps all types.
LEMMA TypeStep ==
    ASSUME TypeOK, WindowInv, [Next]_vars
    PROVE  TypeOK'
    BY SlicerTypeStep, GroupTypeStep, NetworkTypeStep, SessionTypeStep,
       HistoryTypeStep DEF TypeOK
-----------------------------------------------------------------------------
(* The window, and what is known of the receivers' progress.                *)

\* Every step keeps the window within its limits.
LEMMA WindowStep ==
    ASSUME TypeOK, WindowInv, [Next]_vars
    PROVE  /\ WindowInv'
           /\ firstLive <= firstLive' /\ sealed <= sealed'
    <1>0. /\ sealed \in Nat /\ filled \in Nat /\ firstLive \in Nat
          /\ emitFloor \in Nat /\ SlicerTypeOK
          /\ SliceCount \in Nat /\ MaxLiveSlices \in Nat /\ BlocksPerSlice \in Nat
        BY TransferAssumption DEF TypeOK, SlicerTypeOK
    <1>1. CASE Push
        <2>1. BlocksIn(sealed) \in Nat /\ filled < BlocksIn(sealed)
              /\ sealed < SliceCount
            BY <1>0, <1>1, TransferAssumption
               DEF Push, SourceEmpty, BlocksIn, WindowInv, SlicerTypeOK
        <2>2. sealed < firstLive + MaxLiveSlices
            BY <1>0, <1>1 DEF Push, Reading, WindowFull
        <2>3. CASE filled + 1 = BlocksPerSlice
            BY <1>0, <1>1, <2>1, <2>2, <2>3 DEF Push, WindowInv
        <2>4. CASE filled + 1 # BlocksPerSlice
            BY <1>0, <1>1, <2>1, <2>2, <2>4 DEF Push, WindowInv
        <2> QED
            BY <2>3, <2>4
    <1>2. CASE Drain
        BY <1>0, <1>2 DEF Drain, WindowInv
    <1>3. CASE OnFeedback
        <2>1. PICK n \in 0 .. SliceCount :
                  firstLive' \in {firstLive, RetainFrom(n)}
            BY <1>0, <1>3, FeedbackHead DEF OnFeedback, Feedback, SlicerTypeOK
        <2>2. RetainFrom(n) \in firstLive .. sealed
            BY <1>0 DEF RetainFrom, WindowInv
        <2>3. PICK next \in firstLive .. sealed : firstLive' = next
            BY <1>0, <2>1, <2>2 DEF WindowInv
        <2>4. UNCHANGED <<sealed, filled, emitFloor>>
            BY <1>3 DEF OnFeedback
        <2> QED
            BY <1>0, <2>3, <2>4 DEF WindowInv
    <1>4. CASE UNCHANGED windowVars
        BY <1>0, <1>4 DEF windowVars, WindowInv
    <1> QED
        BY <1>1, <1>2, <1>3, <1>4, NextCases, SendLoopFrame, SessionFrame,
           LoseFrame DEF SlicerNext, senderVars, vars

\* hand_over moves next_needed of its own receiver, and forward.
LEMMA HandOverProgress ==
    ASSUME SessionTypeOK, NEW r \in Receivers, NEW h, NEW d, NEW asked,
           HandOver(r, h, d, asked)
    PROVE  \A q \in Receivers : nextNeeded[q] <= nextNeeded'[q]
    <1> USE TransferAssumption DEF SessionTypeOK
    <1>1. CASE pending[r]
        BY <1>1 DEF HandOver
    <1>2. CASE ~pending[r]
        <2>1. PICK next \in nextNeeded[r] .. SliceCount :
                  nextNeeded' = [nextNeeded EXCEPT ![r] = next]
            BY <1>2 DEF HandOver
        <2> QED
            BY <2>1
    <1> QED
        BY <1>1, <1>2

\* Only its own session moves a receiver's next_needed, and only forward.
LEMMA ProgressStep ==
    ASSUME TypeOK, [Next]_vars
    PROVE  \A q \in Receivers : nextNeeded[q] <= nextNeeded'[q]
    <1>0. SessionTypeOK
        BY DEF TypeOK
    <1>1. CASE UNCHANGED nextNeeded
        BY <1>0, <1>1, TransferAssumption DEF SessionTypeOK
    <1>2. ASSUME NEW r \in Receivers, SessionNext(r)
          PROVE  UNCHANGED nextNeeded
                 \/ \E h, d, asked : HandOver(r, h, d, asked)
        <2>1. CASE \E f \in frames[r], again \in BOOLEAN :
                      DeliverShard(r, f, again)
            BY <2>1 DEF DeliverShard
        <2>2. CASE DeliverDone(r) \/ RenakTick(r) \/ StatsTick(r)
            BY <2>2 DEF DeliverDone, RenakTick, StatsTick
        <2>3. CASE RenakExpires(r) \/ SinkReady(r)
            BY <2>3 DEF RenakExpires, SinkReady
        <2>4. CASE DeliverEvicted(r) \/ Finish(r) \/ GoSilent(r) \/ Crash(r)
            BY <2>4 DEF DeliverEvicted, Finish, GoSilent, Crash, Stop
        <2> QED
            BY <1>2, <2>1, <2>2, <2>3, <2>4 DEF SessionNext
    <1> QED
        BY <1>0, <1>1, <1>2, HandOverProgress, NextCases, SlicerFrame,
           SendLoopFrame, LoseFrame DEF sessionVars, vars

\* A report a session sends is of slices it has written.
LEMMA StatsStep ==
    ASSUME TypeOK, ReportInv, [Next]_vars
    PROVE  \A m \in stats' : m.next <= nextNeeded'[m.from]
    <1> USE TransferAssumption DEF Stats, NetworkTypeOK, SessionTypeOK
    <1>0. NetworkTypeOK /\ SessionTypeOK
        BY DEF TypeOK
    <1>1. ASSUME stats' \subseteq stats
          PROVE  \A m \in stats' : m.next <= nextNeeded'[m.from]
        <2> SUFFICES ASSUME NEW m \in stats'
                     PROVE  m.next <= nextNeeded'[m.from]
            OBVIOUS
        <2>1. m \in Stats /\ m.next <= nextNeeded[m.from]
            BY <1>0, <1>1 DEF ReportInv
        <2>2. nextNeeded[m.from] <= nextNeeded'[m.from]
            BY <2>1, ProgressStep
        <2>3. nextNeeded[m.from] \in Int /\ nextNeeded'[m.from] \in Int
            BY <1>0, <2>1, SessionTypeStep
        <2> QED
            BY <2>1, <2>2, <2>3
    <1>2. ASSUME NEW r \in Receivers,
                 stats' = stats \cup {[from |-> r, next |-> nextNeeded[r]]}
          PROVE  \A m \in stats' : m.next <= nextNeeded'[m.from]
        <2> SUFFICES ASSUME NEW m \in stats'
                     PROVE  m.next <= nextNeeded'[m.from]
            OBVIOUS
        <2>1. m \in Stats /\ m.next <= nextNeeded[m.from]
            BY <1>0, <1>2 DEF ReportInv
        <2>2. nextNeeded[m.from] <= nextNeeded'[m.from]
            BY <2>1, ProgressStep
        <2>3. nextNeeded[m.from] \in Int /\ nextNeeded'[m.from] \in Int
            BY <1>0, <2>1, SessionTypeStep
        <2> QED
            BY <2>1, <2>2, <2>3
    <1>3. CASE SlicerNext \/ SendLoopNext \/ Lose \/ UNCHANGED vars
        <2>1. CASE SlicerNext \/ UNCHANGED vars
            BY <1>1, <2>1, SlicerFrame DEF upVars, vars
        <2>2. CASE SendLoopNext
            BY <1>1, <2>2 DEF SendLoopNext, EndLoop, AwaitSlicer, TakeEof, DoneTick,
               HoldoffExpires, DrainDeadline, OnStats, OnNak, OnLeave, Evict,
               upVars, Receive
        <2>3. CASE Lose
            BY <1>1, <2>3 DEF Lose, upVars
        <2> QED
            BY <1>3, <2>1, <2>2, <2>3
    <1>4. ASSUME NEW r \in Receivers, SessionNext(r)
          PROVE  \/ stats' = stats
                 \/ stats' = stats \cup {[from |-> r, next |-> nextNeeded[r]]}
        BY <1>4 DEF SessionNext, DeliverShard, DeliverDone, DeliverEvicted,
           RenakTick, RenakExpires, StatsTick, SinkReady, Finish, GoSilent,
           Crash, upVars
    <1> QED
        BY <1>1, <1>2, <1>3, <1>4, NextCases
\* next_needed as the sender knows it, and next_needed itself, are slices.
LEMMA ProgressBound ==
    ASSUME TypeOK, [Next]_vars, NEW q \in Receivers, NEW n \in Nat,
           n <= nextNeeded[q]
    PROVE  n <= nextNeeded'[q]
    <1>1. nextNeeded[q] \in Nat /\ nextNeeded'[q] \in Nat
        BY TransferAssumption, SessionTypeStep DEF TypeOK, SessionTypeOK
    <1>2. nextNeeded[q] <= nextNeeded'[q]
        BY ProgressStep
    <1> QED
        BY <1>1, <1>2

\* What the group has of a participant came with a report.
LEMMA ReportedStep ==
    ASSUME TypeOK, ReportInv, [Next]_vars
    PROVE  \A r \in Receivers : reported'[r] <= nextNeeded[r]
    <1>0. GroupTypeOK /\ NetworkTypeOK
        BY DEF TypeOK
    <1>1. CASE UNCHANGED reported
        BY <1>1 DEF ReportInv
    <1>2. ASSUME NEW m \in stats, reported' = [reported EXCEPT ![m.from] = m.next]
          PROVE  \A r \in Receivers : reported'[r] <= nextNeeded[r]
        <2>1. m.next <= nextNeeded[m.from]
            BY DEF ReportInv
        <2> QED
            BY <1>0, <1>2, <2>1 DEF GroupTypeOK, ReportInv
    <1>3. ASSUME SendLoopNext
          PROVE  \/ UNCHANGED reported
                 \/ \E m \in stats : reported' = [reported EXCEPT ![m.from] = m.next]
        BY <1>3 DEF SendLoopNext, EndLoop, AwaitSlicer, TakeEof, DoneTick, HoldoffExpires,
           DrainDeadline, OnStats, OnNak, OnLeave, Evict, senderVars, groupVars
    <1> QED
        BY <1>1, <1>2, <1>3, NextCases, SlicerFrame, SessionFrame, LoseFrame
           DEF senderVars, groupVars, vars

\* Group::advance moves to a slice every participant has reported.
LEMMA AdvanceBound ==
    ASSUME GroupTypeOK, NEW heard \in [Receivers -> 0 .. SliceCount],
           Advance(heard)
    PROVE  \/ UNCHANGED <<neededFrom, suppressed, feedback>>
           \/ \E slowest \in 0 .. SliceCount :
                 /\ \A r \in members : slowest <= heard[r]
                 /\ slowest > neededFrom /\ neededFrom' = slowest
                 /\ feedback' = Append(feedback, [kind |-> "needed",
                                     slice |-> slowest, slots |-> {}])
    BY DEF Advance, GroupTypeOK

\* Every step keeps reports and feedback behind what they report.
LEMMA ReportStep ==
    ASSUME TypeOK, ReportInv, [Next]_vars
    PROVE  ReportInv' /\ neededFrom <= neededFrom'
    <1> USE TransferAssumption
    <1>0. SlicerTypeOK /\ GroupTypeOK /\ NetworkTypeOK /\ SessionTypeOK
        BY DEF TypeOK
    <1>1. \A r \in Receivers : reported'[r] <= nextNeeded'[r]
        <2> SUFFICES ASSUME NEW r \in Receivers
                     PROVE  reported'[r] <= nextNeeded'[r]
            OBVIOUS
        <2>1. reported'[r] \in Nat
            BY GroupTypeStep DEF GroupTypeOK
        <2> QED
            BY <2>1, ReportedStep, ProgressBound
    <1>2. ASSUME \A r \in members' : neededFrom' <= nextNeeded[r],
                 members' \subseteq members
          PROVE  \A r \in members' : neededFrom' <= nextNeeded'[r]
        <2>1. neededFrom' \in Nat
            BY GroupTypeStep DEF GroupTypeOK
        <2> QED
            BY <1>0, <1>2, <2>1, ProgressBound DEF GroupTypeOK
    <1> DEFINE Told == \A i \in 1 .. Len(feedback) :
                  feedback[i].kind = "needed" => feedback[i].slice <= neededFrom
    <1>3. CASE UNCHANGED <<firstLive, feedback, neededFrom, members>>
        <2>1. firstLive' <= neededFrom' /\ Told'
            BY <1>3 DEF ReportInv
        <2>2. \A r \in members' : neededFrom' <= nextNeeded'[r]
            BY <1>2, <1>3 DEF ReportInv
        <2> QED
            BY <1>0, <1>1, <1>3, <2>1, <2>2, StatsStep DEF ReportInv, GroupTypeOK
    <1>4. CASE OnFeedback
        <2>1. UNCHANGED <<neededFrom, members>>
            BY <1>4 DEF OnFeedback, groupVars
        <2>2. firstLive' <= neededFrom'
            <3>1. \/ firstLive' = firstLive
                  \/ /\ Head(feedback).kind = "needed"
                     /\ firstLive' = RetainFrom(Head(feedback).slice)
                BY <1>4 DEF OnFeedback
            <3>2. Len(feedback) \in Nat /\ Len(feedback) > 0
                BY <1>0, <1>4 DEF OnFeedback, SlicerTypeOK
            <3>3. Head(feedback).kind = "needed" => Head(feedback).slice <= neededFrom
                BY <1>0, <1>4, <3>2, FeedbackHead
                   DEF OnFeedback, SlicerTypeOK, ReportInv
            <3>4. Head(feedback).slice \in Nat
                BY <1>0, <1>4, FeedbackHead DEF OnFeedback, SlicerTypeOK, Feedback
            <3> QED
                BY <1>0, <2>1, <3>1, <3>3, <3>4
                   DEF RetainFrom, SlicerTypeOK, GroupTypeOK, ReportInv
        <2>3. Told'
            <3>1. feedback' = Tail(feedback)
                BY <1>4 DEF OnFeedback
            <3>2. \A i \in 1 .. Len(Tail(feedback)) :
                      i + 1 \in 1 .. Len(feedback)
                      /\ Tail(feedback)[i] = feedback[i + 1]
                BY <1>0, <1>4, FeedbackHead, LenProperties
                   DEF OnFeedback, SlicerTypeOK
            <3> QED
                BY <2>1, <3>1, <3>2 DEF ReportInv
        <2>4. \A r \in members' : neededFrom' <= nextNeeded'[r]
            BY <1>2, <2>1 DEF ReportInv
        <2> QED
            BY <1>0, <1>1, <2>1, <2>2, <2>3, <2>4, StatsStep
               DEF ReportInv, GroupTypeOK
    <1>5. ASSUME NEW m \in stats, NEW again \in BOOLEAN, OnStats(m, again)
          PROVE  ReportInv' /\ neededFrom <= neededFrom'
        <2> DEFINE heard == [reported EXCEPT ![m.from] = m.next]
        <2>1. m.from \in Receivers /\ heard \in [Receivers -> 0 .. SliceCount]
            BY <1>0 DEF NetworkTypeOK, Stats, GroupTypeOK
        <2>2. CASE UNCHANGED <<groupVars, feedback>>
            BY <1>3, <1>5, <2>2 DEF OnStats, windowVars, groupVars
        <2>3. CASE reported' = heard /\ Advance(heard) /\ UNCHANGED members
            <3>1. UNCHANGED firstLive
                BY <1>5 DEF OnStats, windowVars
            <3>2. CASE UNCHANGED <<neededFrom, suppressed, feedback>>
                BY <1>3, <2>3, <3>1, <3>2
            <3>3. ASSUME NEW slowest \in 0 .. SliceCount,
                         \A r \in members : slowest <= heard[r],
                         slowest > neededFrom, neededFrom' = slowest,
                         feedback' = Append(feedback, [kind |-> "needed",
                                         slice |-> slowest, slots |-> {}])
                  PROVE  ReportInv' /\ neededFrom <= neededFrom'
                <4>1. \A r \in members' : neededFrom' <= nextNeeded[r]
                    BY <1>0, <2>1, <2>3, <3>3, ReportedStep
                       DEF GroupTypeOK, SessionTypeOK
                <4>2. \A r \in members' : neededFrom' <= nextNeeded'[r]
                    BY <1>2, <2>3, <4>1
                <4>3. firstLive' <= neededFrom'
                    BY <1>0, <3>1, <3>3 DEF ReportInv, SlicerTypeOK, GroupTypeOK
                <4> DEFINE note == [kind |-> "needed", slice |-> slowest,
                                    slots |-> {}]
                <4>4. note \in Feedback
                    BY DEF Feedback
                <4>5. \A i \in 1 .. Len(feedback) : feedback[i] \in Feedback
                    BY <1>0 DEF SlicerTypeOK
                <4>6. Told'
                    <5> SUFFICES ASSUME NEW i \in 1 .. Len(feedback'),
                                        feedback'[i].kind = "needed"
                                 PROVE  feedback'[i].slice <= neededFrom'
                        OBVIOUS
                    <5>1. CASE i \in 1 .. Len(feedback)
                        <6>1. feedback'[i] = feedback[i]
                            BY <1>0, <3>3, <4>4, <5>1, FeedbackAppend
                               DEF SlicerTypeOK
                        <6>2. feedback[i].slice <= neededFrom
                              /\ feedback[i].slice \in Nat
                            BY <4>5, <5>1, <6>1 DEF ReportInv, Feedback
                        <6> QED
                            BY <1>0, <3>3, <6>1, <6>2 DEF GroupTypeOK
                    <5>2. CASE i = Len(feedback) + 1
                        <6>1. feedback'[i] = note
                            BY <1>0, <3>3, <4>4, <5>2, FeedbackAppend
                               DEF SlicerTypeOK
                        <6> QED
                            BY <3>3, <6>1
                    <5> QED
                        BY <1>0, <3>3, <4>4, <5>1, <5>2, FeedbackAppend,
                           LenProperties DEF SlicerTypeOK
                <4> QED
                    BY <1>0, <1>1, <3>3, <4>2, <4>3, <4>6, StatsStep
                       DEF ReportInv, GroupTypeOK
            <3> QED
                BY <1>0, <2>1, <2>3, <3>2, <3>3, AdvanceBound
        <2> QED
            BY <1>5, <2>2, <2>3 DEF OnStats
    <1>6. ASSUME NEW m \in naks, NEW again \in BOOLEAN, OnNak(m, again)
          PROVE  ReportInv' /\ neededFrom <= neededFrom'
        <2>1. UNCHANGED <<firstLive, neededFrom, members>>
            BY <1>6 DEF OnNak, windowVars
        <2> DEFINE wanted ==
                {slot \in m.missing : <<m.slice, slot>> \notin suppressed}
                   note == [kind |-> "resend", slice |-> m.slice,
                            slots |-> wanted]
        <2>2. note \in Feedback
            BY <1>0 DEF NetworkTypeOK, Nak, Feedback, Slices
        <2>3. feedback' = feedback \/ feedback' = Append(feedback, note)
            BY <1>6 DEF OnNak
        <2>4. CASE feedback' = feedback
            BY <1>3, <2>1, <2>4
        <2>5. CASE feedback' = Append(feedback, note)
            <3>1. \A i \in 1 .. Len(feedback') :
                      \/ i \in 1 .. Len(feedback) /\ feedback'[i] = feedback[i]
                      \/ feedback'[i] = note
                <4> HIDE DEF note
                <4> QED
                    BY <1>0, <2>2, <2>5, FeedbackAppend, LenProperties
                       DEF SlicerTypeOK
            <3>2. Told'
                <4>1. note.kind # "needed"
                    OBVIOUS
                <4>2. Told
                    BY DEF ReportInv
                <4> HIDE DEF note
                <4> QED
                    BY <2>1, <3>1, <4>1, <4>2
            <3>3. \A r \in members' : neededFrom' <= nextNeeded'[r]
                BY <1>2, <2>1 DEF ReportInv
            <3> QED
                BY SMTT(30), <1>0, <1>1, <2>1, <3>2, <3>3, StatsStep
                   DEF ReportInv, GroupTypeOK
        <2> QED
            BY <2>3, <2>4, <2>5
    <1>7. ASSUME NEW r \in Receivers, Remove(r),
                 UNCHANGED <<firstLive, feedback, neededFrom>>
          PROVE  ReportInv' /\ neededFrom <= neededFrom'
        <2>1. \A q \in members' : neededFrom' <= nextNeeded'[q]
            BY <1>2, <1>7 DEF Remove, ReportInv
        <2>2. firstLive' <= neededFrom' /\ Told'
            BY <1>7 DEF ReportInv
        <2> QED
            BY <1>0, <1>1, <1>7, <2>1, <2>2, StatsStep DEF ReportInv, GroupTypeOK
    <1>8. CASE SendLoopNext
        <2>1. CASE (\E r \in leaves : OnLeave(r)) \/ (\E r \in members : Evict(r))
            BY <1>0, <1>7, <2>1
               DEF OnLeave, Evict, windowVars, GroupTypeOK, NetworkTypeOK
        <2>2. CASE EndLoop \/ AwaitSlicer \/ TakeEof \/ DoneTick \/ HoldoffExpires
                   \/ DrainDeadline
            BY <1>3, <2>2 DEF EndLoop, AwaitSlicer, TakeEof, DoneTick, HoldoffExpires,
               DrainDeadline, windowVars, groupVars, senderVars
        <2> QED
            BY <1>5, <1>6, <1>8, <2>1, <2>2 DEF SendLoopNext
    <1>9. CASE Push \/ Drain
        BY <1>3, <1>9 DEF Push, Drain, groupVars
    <1> QED
        BY <1>3, <1>4, <1>8, <1>9, NextCases, SessionFrame, LoseFrame
           DEF SlicerNext, senderVars, windowVars, groupVars, vars
-----------------------------------------------------------------------------
(* Shards in flight.                                                        *)

\* What is said of a shard, when the window starts at first and ends at last.
FitsWindow(f, first, last) ==
    /\ f.slice < first + MaxLiveSlices
    /\ f.floor <= last
    /\ f.slot < BlocksPerSlice => f.slot < BlocksIn(f.slice)

\* A shard that fits the window still fits after any step.
LEMMA FitsStep ==
    ASSUME TypeOK, WindowInv, [Next]_vars,
           NEW f \in Frame, FitsWindow(f, firstLive, sealed)
    PROVE  FitsWindow(f, firstLive, sealed)'
    <1>1. PICK first \in Nat, last \in Nat :
            /\ firstLive' = first /\ firstLive <= first
            /\ sealed' = last /\ sealed <= last
        BY WindowStep, SlicerTypeStep, TransferAssumption DEF SlicerTypeOK
    <1>2. FitsWindow(f, first, last)
        <2>1. /\ f.slice \in Nat /\ f.floor \in Nat /\ firstLive \in Nat
              /\ sealed \in Nat /\ MaxLiveSlices \in Nat
            BY TransferAssumption DEF TypeOK, SlicerTypeOK, Frame, Slices
        <2> QED
            BY <1>1, <2>1 DEF FitsWindow
    <1> QED
        BY <1>1, <1>2 DEF FitsWindow

\* A block of the current slice, a recovery shard, a shard out of the window.
LEMMA PushFits ==
    ASSUME TypeOK, WindowInv, ~WindowFull, NEW slots \in SUBSET Slots,
           sealed < SliceCount,
           \A slot \in slots : slot < BlocksPerSlice => slot < BlocksIn(sealed)
    PROVE  \A f \in Shards(sealed, slots, emitFloor) :
               FitsWindow(f, firstLive, sealed)
    BY TransferAssumption
       DEF TypeOK, SlicerTypeOK, WindowInv, WindowFull, Shards, FitsWindow

\* A shard resent is one the window holds.
LEMMA ResendFits ==
    ASSUME TypeOK, WindowInv, NEW s \in 0 .. SliceCount, NEW slots
    PROVE  \A f \in Shards(s, slots \cap WindowSlots(s), emitFloor) :
               FitsWindow(f, firstLive, sealed)
    <1>0. SlicerTypeOK /\ sealed \in Nat /\ firstLive \in Nat /\ emitFloor \in Nat
          /\ filled \in Nat /\ MaxLiveSlices \in Nat
        BY TransferAssumption DEF TypeOK, SlicerTypeOK
    <1> SUFFICES ASSUME NEW slot \in WindowSlots(s)
                 PROVE  /\ s < firstLive + MaxLiveSlices
                        /\ emitFloor <= sealed /\ slot < BlocksIn(s)
        BY DEF Shards, FitsWindow
    <1>1. slot < BlocksIn(s)
        BY <1>0, WindowSlotsType
    <1>2. CASE s = sealed
        BY <1>0, <1>1, <1>2 DEF WindowSlots, WindowInv
    <1>3. CASE s # sealed
        BY <1>0, <1>1, <1>3 DEF WindowSlots, WindowInv
    <1> QED
        BY <1>2, <1>3

\* Every step keeps all shards in flight within the window.
LEMMA FlightStep ==
    ASSUME TypeOK, WindowInv, FlightInv, [Next]_vars
    PROVE  FlightInv'
    <1> USE TransferAssumption
    <1>0. /\ SlicerTypeOK /\ NetworkTypeOK
          /\ sealed \in Nat /\ filled \in Nat /\ emitFloor \in Nat
          /\ BlocksPerSlice \in Nat /\ SliceCount \in Nat
        BY DEF TypeOK, SlicerTypeOK
    <1>1. SUFFICES ASSUME NEW r \in Receivers, NEW f \in frames'[r],
                          f \notin frames[r]
                   PROVE  f \in Frame /\ FitsWindow(f, firstLive, sealed)
        <2>1. \A r \in Receivers : \A f \in frames'[r] :
                  f \in Frame /\ FitsWindow(f, firstLive, sealed)
            BY <1>0, <1>1 DEF FlightInv, FitsWindow, NetworkTypeOK
        <2>2. \A r \in Receivers : \A f \in frames'[r] :
                  FitsWindow(f, firstLive, sealed)'
            BY <2>1, FitsStep
        <2> QED
            BY <2>2 DEF FlightInv, FitsWindow
    <1>2. ASSUME NEW shards \in SUBSET Frame, Multicast(shards)
          PROVE  f \in shards
        BY <1>1, <1>2 DEF Multicast
    <1>3. CASE Push
        <2> DEFINE slots == IF filled + 1 = BlocksPerSlice
                            THEN {filled} \cup ParitySlots ELSE {filled}
        <2>1. sealed \in Slices /\ sealed < SliceCount
              /\ filled < BlocksIn(sealed)
            BY SMTT(30), <1>0, <1>3 DEF Push, SourceEmpty, SlicerTypeOK, Slices,
               BlocksIn, WindowInv
        <2>2. slots \in SUBSET Slots
            BY <1>0 DEF SlicerTypeOK, Slots, DataSlots
        <2>3. \A slot \in slots : slot < BlocksPerSlice => slot < BlocksIn(sealed)
            BY <1>0, <2>1 DEF ParitySlots
        <2>4. Shards(sealed, slots, emitFloor) \in SUBSET Frame
            BY <1>0, <2>1, <2>2, ShardsType DEF SlicerTypeOK
        <2>5. Multicast(Shards(sealed, slots, emitFloor))
            BY <1>3 DEF Push
        <2>6. ~WindowFull
            BY <1>3 DEF Push, Reading
        <2> HIDE DEF slots
        <2> QED
            BY <1>2, <2>1, <2>2, <2>3, <2>4, <2>5, <2>6, PushFits
    <1>4. CASE Drain
        <2>1. CASE filled > 0
            <3>1. sealed \in Slices /\ sealed < SliceCount
                BY <1>0, <2>1 DEF WindowInv, Slices
            <3>2. ParitySlots \in SUBSET Slots
                BY DEF Slots
            <3>3. \A slot \in ParitySlots : ~(slot < BlocksPerSlice)
                BY <1>0 DEF ParitySlots
            <3>4. Shards(sealed, ParitySlots, emitFloor) \in SUBSET Frame
                BY <1>0, <3>1, <3>2, ShardsType DEF SlicerTypeOK
            <3>5. Multicast(Shards(sealed, ParitySlots, emitFloor))
                BY <1>4, <2>1 DEF Drain
            <3>6. ~WindowFull
                BY <1>4 DEF Drain, Reading
            <3> QED
                BY <1>2, <3>1, <3>2, <3>3, <3>4, <3>5, <3>6, PushFits
        <2>2. CASE ~(filled > 0)
            BY <1>1, <1>4, <2>2 DEF Drain
        <2> QED
            BY <2>1, <2>2
    <1>5. CASE OnFeedback
        <2> DEFINE m == Head(feedback)
                   shards == Shards(m.slice, m.slots \cap WindowSlots(m.slice),
                                    emitFloor)
        <2>1. m.slice \in 0 .. SliceCount
            BY <1>0, <1>5, FeedbackHead DEF OnFeedback, SlicerTypeOK, Feedback
        <2>2. UNCHANGED frames \/ Multicast(shards)
            BY <1>5 DEF OnFeedback
        <2>3. f \in shards
            BY <1>1, <2>2 DEF Multicast
        <2>4. FitsWindow(f, firstLive, sealed)
            BY <2>1, <2>3, ResendFits
        <2>5. f \in Frame
            BY <1>0, <1>1, NetworkTypeStep DEF NetworkTypeOK
        <2> QED
            BY <2>4, <2>5
    <1>6. ASSUME NEW q \in Receivers, SessionNext(q)
          PROVE  \A p \in Receivers : frames'[p] \subseteq frames[p]
        <2>1. CASE \E g \in frames[q], again \in BOOLEAN :
                       DeliverShard(q, g, again)
            BY <1>0, <2>1 DEF DeliverShard, Receive, NetworkTypeOK
        <2>2. CASE DeliverDone(q) \/ RenakTick(q) \/ StatsTick(q)
                   \/ RenakExpires(q) \/ SinkReady(q)
            BY <2>2 DEF DeliverDone, RenakTick, StatsTick, RenakExpires,
               SinkReady, downVars
        <2>3. CASE DeliverEvicted(q) \/ Finish(q) \/ GoSilent(q) \/ Crash(q)
            BY <1>0, <2>3
               DEF DeliverEvicted, Finish, GoSilent, Crash, Stop, NetworkTypeOK
        <2> QED
            BY <1>6, <2>1, <2>2, <2>3 DEF SessionNext
    <1>7. CASE Lose
        BY <1>0, <1>1, <1>7 DEF Lose, downVars, NetworkTypeOK
    <1>8. CASE UNCHANGED frames
        BY <1>1, <1>8
    <1> QED
        BY <1>1, <1>3, <1>4, <1>5, <1>6, <1>7, <1>8, NextCases, SendLoopFrame
           DEF SlicerNext, downVars, vars
-----------------------------------------------------------------------------
(* Floors, Done and Naks announce only what was emitted.                    *)

\* The end is queued only when every slice is sealed.
LEMMA EofStep ==
    ASSUME TypeOK, WindowInv, EmissionInv, [Next]_vars
    PROVE  /\ eof' # "none" => sealed' = SliceCount
           /\ eof = "taken" => eof' = "taken"
    <1>0. /\ SlicerTypeOK /\ sealed \in Nat /\ filled \in Nat
          /\ SliceCount \in Nat /\ LastBlocks \in Nat /\ LastBlocks > 0
        BY TransferAssumption DEF TypeOK, SlicerTypeOK
    <1>1. CASE Push \/ OnFeedback
        BY <1>1 DEF Push, OnFeedback, Reading, EmissionInv
    <1>2. CASE Drain
        BY <1>0, <1>2 DEF Drain, Reading, SourceEmpty, WindowInv
    <1>3. CASE SendLoopNext
        <2>1. UNCHANGED sealed
            BY <1>3, SendLoopFrame DEF windowVars
        <2>2. eof' = eof \/ (eof = "queued" /\ eof' = "taken")
            BY <1>3 DEF SendLoopNext, EndLoop, AwaitSlicer, TakeEof, DoneTick, HoldoffExpires,
               DrainDeadline, OnStats, OnNak, OnLeave, Evict, senderVars
        <2> QED
            BY <2>1, <2>2 DEF EmissionInv
    <1>4. CASE UNCHANGED senderVars
        BY <1>4 DEF senderVars, windowVars, EmissionInv
    <1> QED
        BY <1>1, <1>2, <1>3, <1>4, NextCases, SessionFrame, LoseFrame
           DEF SlicerNext, vars

\* No receiver sees a floor above what was sealed.
LEMMA FloorStep ==
    ASSUME TypeOK, FlightInv, EmissionInv, [Next]_vars
    PROVE  \A r \in Receivers : recvFloor'[r] <= sealed
    <1>1. CASE UNCHANGED recvFloor
        BY <1>1 DEF EmissionInv
    <1>2. ASSUME NEW q \in Receivers, SessionNext(q)
          PROVE  \/ UNCHANGED recvFloor
                 \/ \E f \in frames[q] :
                       recvFloor' = [recvFloor EXCEPT ![q] = f.floor]
        <2>1. ASSUME NEW f \in frames[q], NEW again \in BOOLEAN,
                     DeliverShard(q, f, again)
              PROVE  \/ UNCHANGED recvFloor
                     \/ recvFloor' = [recvFloor EXCEPT ![q] = f.floor]
            <3>1. CASE f.floor > recvFloor[q]
                BY <2>1, <3>1 DEF DeliverShard
            <3>2. CASE ~(f.floor > recvFloor[q])
                BY <2>1, <3>2 DEF DeliverShard, TypeOK, SessionTypeOK
            <3> QED
                BY <3>1, <3>2
        <2>2. CASE DeliverDone(q) \/ RenakTick(q) \/ StatsTick(q)
                   \/ RenakExpires(q) \/ SinkReady(q)
            BY <2>2 DEF DeliverDone, RenakTick, StatsTick, RenakExpires,
               SinkReady
        <2>3. CASE DeliverEvicted(q) \/ Finish(q) \/ GoSilent(q) \/ Crash(q)
            BY <2>3 DEF DeliverEvicted, Finish, GoSilent, Crash, Stop
        <2> QED
            BY <1>2, <2>1, <2>2, <2>3 DEF SessionNext
    <1>3. ASSUME NEW q \in Receivers, NEW f \in frames[q],
                 recvFloor' = [recvFloor EXCEPT ![q] = f.floor]
          PROVE  \A r \in Receivers : recvFloor'[r] <= sealed
        BY <1>3 DEF TypeOK, SessionTypeOK, FlightInv, EmissionInv
    <1> QED
        BY <1>1, <1>2, <1>3, NextCases, SlicerFrame, SendLoopFrame, LoseFrame
           DEF sessionVars, vars

\* Below the floor, or after Done, every slice was sealed.
LEMMA GapsEmitted ==
    ASSUME TypeOK, EmissionInv, NEW r, NEW h, NEW d \in BOOLEAN,
           NEW floor \in 0 .. SliceCount, floor <= sealed, d => eof = "taken",
           NEW s \in Gaps(r, h, d, floor)
    PROVE  s < sealed
    <1>1. s \in Slices /\ s < GapFloor(d, floor)
        BY DEF Gaps
    <1>2. s \in Nat /\ sealed \in Nat /\ SliceCount \in Nat
        BY <1>1, TransferAssumption DEF TypeOK, SlicerTypeOK, Slices
    <1>3. CASE d
        <2>1. GapFloor(d, floor) = SliceCount /\ sealed = SliceCount
            BY <1>3 DEF GapFloor, EmissionInv
        <2> QED
            BY <1>1, <2>1
    <1>4. CASE ~d
        <2>1. GapFloor(d, floor) = floor
            BY <1>4 DEF GapFloor
        <2> QED
            BY <1>1, <1>2, <2>1
    <1> QED
        BY <1>3, <1>4

\* So the Naks for gaps name sealed slices.
LEMMA NaksEmitted ==
    ASSUME NEW r, NEW h, NEW d, NEW slices, NEW m \in NaksFor(r, h, d, slices)
    PROVE  m.slice \in slices
    BY DEF NaksFor

\* Every step keeps all Naks to sealed slices.
LEMMA NaksStep ==
    ASSUME TypeOK, FlightInv, EmissionInv, [Next]_vars
    PROVE  \A m \in naks' : m.slice < sealed
    <1> USE DEF EmissionInv, NaksFollowEmission
    <1>0. SessionTypeOK /\ NetworkTypeOK
        BY DEF TypeOK
    <1>1. ASSUME NEW r \in Receivers, SessionNext(r)
          PROVE  \A m \in naks' : m.slice < sealed
        <2>0. heardDone[r] \in BOOLEAN /\ (heardDone[r] => eof = "taken")
              /\ recvFloor[r] \in 0 .. SliceCount /\ recvFloor[r] <= sealed
            BY <1>0 DEF SessionTypeOK
        <2>1. ASSUME NEW f \in frames[r], NEW again \in BOOLEAN,
                     DeliverShard(r, f, again)
              PROVE  \A m \in naks' : m.slice < sealed
            <3> DEFINE h == Insert(r, f)
                       asked == IF f.floor > recvFloor[r]
                                THEN Gaps(r, h, heardDone[r], f.floor) ELSE {}
            <3>1. f.floor \in 0 .. SliceCount /\ f.floor <= sealed
                BY <1>0 DEF FlightInv, NetworkTypeOK, Frame
            <3>2. naks' = naks \cup NaksFor(r, h, heardDone[r], asked)
                BY <2>1 DEF DeliverShard
            <3>3. \A s \in asked : s < sealed
                BY <2>0, <3>1, GapsEmitted
            <3> HIDE DEF h, asked
            <3> QED
                BY <3>2, <3>3, NaksEmitted
        <2>2. CASE DeliverDone(r)
            <3> DEFINE asked == Gaps(r, held[r], TRUE, recvFloor[r])
            <3>1. naks' = naks \cup NaksFor(r, held[r], TRUE, asked)
                BY <2>2 DEF DeliverDone
            <3>2. eof = "taken"
                BY <2>2 DEF DeliverDone
            <3>3. \A s \in asked : s < sealed
                BY <2>0, <3>2, GapsEmitted
            <3> HIDE DEF asked
            <3> QED
                BY <3>1, <3>3, NaksEmitted
        <2>3. CASE RenakTick(r)
            <3> DEFINE asked == Gaps(r, held[r], heardDone[r], recvFloor[r])
            <3>1. naks' = naks \cup NaksFor(r, held[r], heardDone[r], asked)
                BY <2>3 DEF RenakTick
            <3>2. \A s \in asked : s < sealed
                BY <2>0, GapsEmitted
            <3> HIDE DEF asked
            <3> QED
                BY <3>1, <3>2, NaksEmitted
        <2>4. CASE RenakExpires(r) \/ StatsTick(r) \/ SinkReady(r) \/ Finish(r)
                   \/ DeliverEvicted(r) \/ GoSilent(r) \/ Crash(r)
            BY <2>4 DEF RenakExpires, StatsTick, SinkReady, Finish,
               DeliverEvicted, GoSilent, Crash, upVars
        <2> QED
            BY <1>1, <2>1, <2>2, <2>3, <2>4 DEF SessionNext
    <1>2. CASE SendLoopNext
        BY <1>2 DEF SendLoopNext, EndLoop, AwaitSlicer, TakeEof, DoneTick, HoldoffExpires,
           DrainDeadline, OnStats, OnNak, OnLeave, Evict, upVars, Receive
    <1>3. CASE Lose
        BY <1>3 DEF Lose, upVars
    <1>4. CASE UNCHANGED upVars
        BY <1>4 DEF upVars
    <1> QED
        BY <1>1, <1>2, <1>3, <1>4, NextCases, SlicerFrame DEF vars

\* Done is sent and heard only after the end was taken.
LEMMA DoneStep ==
    ASSUME TypeOK, EmissionInv, [Next]_vars
    PROVE  /\ dones' # {} => eof' = "taken" \/ eof = "taken"
           /\ \A r \in Receivers : heardDone'[r] => eof = "taken"
    <1> USE DEF EmissionInv
    <1>0. SessionTypeOK
        BY DEF TypeOK
    <1>1. ASSUME NEW r \in Receivers, SessionNext(r)
          PROVE  /\ dones' \subseteq dones
                 /\ \/ UNCHANGED heardDone
                    \/ /\ r \in dones
                       /\ heardDone' = [heardDone EXCEPT ![r] = TRUE]
        <2>1. CASE \E g \in frames[r], again \in BOOLEAN :
                       DeliverShard(r, g, again)
            BY <2>1 DEF DeliverShard
        <2>2. CASE DeliverDone(r)
            BY <2>2 DEF DeliverDone
        <2>3. CASE RenakTick(r) \/ StatsTick(r) \/ RenakExpires(r)
                   \/ SinkReady(r)
            BY <2>3 DEF RenakTick, StatsTick, RenakExpires, SinkReady, downVars
        <2>4. CASE DeliverEvicted(r) \/ Finish(r) \/ GoSilent(r) \/ Crash(r)
            BY <2>4 DEF DeliverEvicted, Finish, GoSilent, Crash, Stop
        <2> QED
            BY <1>1, <2>1, <2>2, <2>3, <2>4 DEF SessionNext
    <1>2. CASE SendLoopNext
        <2>1. dones' = dones \/ eof' = "taken" \/ eof = "taken"
            BY <1>2 DEF SendLoopNext, EndLoop, AwaitSlicer, TakeEof, DoneTick, HoldoffExpires,
               DrainDeadline, OnStats, OnNak, OnLeave, Evict, downVars, Draining
        <2> QED
            BY <1>2, <2>1, SendLoopFrame DEF sessionVars
    <1>3. CASE Lose
        BY <1>3 DEF Lose, downVars, sessionVars
    <1>4. CASE UNCHANGED <<dones, heardDone>>
        BY <1>4
    <1>5. ASSUME NEW r \in Receivers, SessionNext(r)
          PROVE  /\ dones' # {} => eof = "taken"
                 /\ \A q \in Receivers : heardDone'[q] => eof = "taken"
        BY <1>0, <1>1, <1>5 DEF SessionTypeOK
    <1> QED
        BY <1>2, <1>3, <1>4, <1>5, NextCases, SlicerFrame
           DEF sessionVars, downVars, vars

\* Every step keeps announcements behind emission.
LEMMA EmissionStep ==
    ASSUME TypeOK, WindowInv, FlightInv, EmissionInv, [Next]_vars
    PROVE  EmissionInv'
    <1>1. PICK last \in Nat : sealed' = last /\ sealed <= last
        BY WindowStep, SlicerTypeStep, TransferAssumption DEF SlicerTypeOK
    <1>2. sealed \in Nat
        BY TransferAssumption DEF TypeOK, SlicerTypeOK
    <1>3. \A r \in Receivers : recvFloor'[r] <= last
        <2> SUFFICES ASSUME NEW r \in Receivers
                     PROVE  recvFloor'[r] <= last
            OBVIOUS
        <2>1. recvFloor'[r] \in Nat
            BY SessionTypeStep, TransferAssumption DEF SessionTypeOK
        <2> QED
            BY <1>1, <1>2, <2>1, FloorStep
    <1>4. \A m \in naks' : m.slice < last
        <2> SUFFICES ASSUME NEW m \in naks'
                     PROVE  m.slice < last
            OBVIOUS
        <2>1. m.slice \in Nat
            BY NetworkTypeStep, TransferAssumption
               DEF NetworkTypeOK, Nak, Slices
        <2> QED
            BY <1>1, <1>2, <2>1, NaksStep
    <1> QED
        BY <1>1, <1>3, <1>4, EofStep, DoneStep
           DEF EmissionInv, NaksFollowEmission
-----------------------------------------------------------------------------
(* Completion: who is counted complete, or left, has written everything.    *)

\* The end, once reached, stays reached.
LEMMA EndStep ==
    ASSUME TypeOK, [Next]_vars, NEW r \in Receivers,
           nextNeeded[r] = SliceCount
    PROVE  nextNeeded'[r] = SliceCount
    <1>1. nextNeeded'[r] \in 0 .. SliceCount
        BY SessionTypeStep DEF SessionTypeOK
    <1>2. SliceCount <= nextNeeded'[r]
        BY ProgressStep
    <1> QED
        BY <1>1, <1>2, TransferAssumption

\* Who counts as complete has written everything.
LEMMA ReachedStep ==
    ASSUME TypeOK, ReportInv, CompletionInv, [Next]_vars
    PROVE  \A r \in reached' : r \in Receivers /\ nextNeeded[r] = SliceCount
    <1>0. GroupTypeOK /\ NetworkTypeOK /\ SessionTypeOK
        BY DEF TypeOK
    <1>1. CASE reached' \subseteq reached
        BY <1>0, <1>1 DEF CompletionInv, GroupTypeOK
    <1>2. ASSUME NEW m \in stats, NEW again \in BOOLEAN, OnStats(m, again)
          PROVE  \A r \in reached' : r \in Receivers /\ nextNeeded[r] = SliceCount
        <2>1. \/ reached' \subseteq reached
              \/ m.next >= SliceCount /\ reached' = reached \cup {m.from}
            BY <1>2 DEF OnStats, groupVars
        <2>2. CASE m.next >= SliceCount /\ reached' = reached \cup {m.from}
            <3>1. m.from \in Receivers /\ m.next <= nextNeeded[m.from]
                  /\ m.next \in 0 .. SliceCount
                BY <1>0 DEF NetworkTypeOK, Stats, ReportInv
            <3>2. nextNeeded[m.from] \in 0 .. SliceCount
                BY <1>0, <3>1 DEF SessionTypeOK
            <3>3. nextNeeded[m.from] = SliceCount
                BY <2>2, <3>1, <3>2, TransferAssumption
            <3> QED
                BY <1>0, <2>2, <3>1, <3>3 DEF CompletionInv, GroupTypeOK
        <2> QED
            BY <1>1, <2>1, <2>2
    <1>3. CASE SendLoopNext /\ ~\E m \in stats, again \in BOOLEAN : OnStats(m, again)
        BY <1>1, <1>3 DEF SendLoopNext, EndLoop, AwaitSlicer, TakeEof, DoneTick,
           HoldoffExpires, DrainDeadline, OnNak, OnLeave, Evict, Remove,
           senderVars, groupVars
    <1> QED
        BY <1>1, <1>2, <1>3, NextCases, SlicerFrame, SessionFrame, LoseFrame
           DEF senderVars, groupVars, vars

\* A process that stops has written everything or has failed.
LEMMA PhaseStep ==
    ASSUME TypeOK, [Next]_vars
    PROVE  /\ \A r \in Receivers : phase'[r] = "finished" =>
                  \/ phase[r] = "finished" \/ nextNeeded'[r] = SliceCount
           /\ \A r \in Receivers : phase[r] = "finished" => phase'[r] = "finished"
           /\ \A r \in leaves' : r \in leaves \/ phase'[r] = "finished"
           /\ \A r \in Receivers : phase'[r] = "running" => phase[r] = "running"
           /\ \A r \in Receivers :
                  nextNeeded'[r] # nextNeeded[r] => phase[r] = "running"
    <1>0. SessionTypeOK /\ NetworkTypeOK
        BY DEF TypeOK
    <1>1. CASE UNCHANGED <<phase, nextNeeded>> /\ leaves' \subseteq leaves
        BY <1>1
    <1>2. ASSUME NEW r \in Receivers, Finish(r)
          PROVE  /\ r \in Running /\ nextNeeded[r] = SliceCount
                 /\ UNCHANGED nextNeeded /\ leaves' = leaves \cup {r}
                 /\ phase' = [phase EXCEPT ![r] = "finished"]
        <2>1. /\ r \in Running /\ nextNeeded[r] >= SliceCount
              /\ UNCHANGED nextNeeded /\ leaves' = leaves \cup {r}
              /\ phase' = [phase EXCEPT ![r] = "finished"]
            BY <1>2 DEF Finish, Active, Complete, Stop
        <2>2. nextNeeded[r] \in 0 .. SliceCount
            BY <1>0 DEF SessionTypeOK
        <2> QED
            BY <2>1, <2>2, TransferAssumption
    <1>3. ASSUME NEW r \in Receivers, DeliverEvicted(r) \/ GoSilent(r) \/ Crash(r)
          PROVE  /\ r \in Running /\ UNCHANGED <<nextNeeded, leaves>>
                 /\ phase' = [phase EXCEPT ![r] = "failed"]
        BY <1>3 DEF DeliverEvicted, GoSilent, Crash, Active, Stop, upVars
    <1>4. ASSUME NEW r \in Receivers, NEW h, NEW d, NEW asked,
                 HandOver(r, h, d, asked)
          PROVE  \A q \in Receivers : nextNeeded'[q] # nextNeeded[q] => q = r
        BY <1>0, <1>4 DEF HandOver, SessionTypeOK
    <1>5. ASSUME NEW r \in Receivers, SessionNext(r),
                 ~(Finish(r) \/ DeliverEvicted(r) \/ GoSilent(r) \/ Crash(r))
          PROVE  /\ r \in Running /\ UNCHANGED <<phase, leaves>>
                 /\ \A q \in Receivers : nextNeeded'[q] # nextNeeded[q] => q = r
        <2>1. CASE \E f \in frames[r], again \in BOOLEAN :
                       DeliverShard(r, f, again)
            BY <1>4, <2>1 DEF DeliverShard, Active
        <2>2. CASE DeliverDone(r) \/ RenakTick(r) \/ StatsTick(r)
            BY <1>4, <2>2 DEF DeliverDone, RenakTick, StatsTick, Active
        <2>3. CASE RenakExpires(r) \/ SinkReady(r)
            BY <2>3 DEF RenakExpires, SinkReady, Active, upVars
        <2> QED
            BY <1>5, <2>1, <2>2, <2>3 DEF SessionNext
    <1>6. ASSUME NEW r \in Receivers, SessionNext(r)
          PROVE  /\ \A q \in Receivers : phase'[q] = "finished" =>
                        \/ phase[q] = "finished" \/ nextNeeded'[q] = SliceCount
                 /\ \A q \in Receivers : phase[q] = "finished" => phase'[q] = "finished"
                 /\ \A q \in leaves' : q \in leaves \/ phase'[q] = "finished"
                 /\ \A q \in Receivers : phase'[q] = "running" => phase[q] = "running"
                 /\ \A q \in Receivers :
                        nextNeeded'[q] # nextNeeded[q] => phase[q] = "running"
        <2>1. CASE Finish(r)
            BY <1>0, <1>2, <2>1 DEF Running, SessionTypeOK
        <2>2. CASE DeliverEvicted(r) \/ GoSilent(r) \/ Crash(r)
            BY <1>0, <1>3, <2>2 DEF Running, SessionTypeOK
        <2>3. CASE ~(Finish(r) \/ DeliverEvicted(r) \/ GoSilent(r) \/ Crash(r))
            BY <1>5, <1>6, <2>3 DEF Running
        <2> QED
            BY <2>1, <2>2, <2>3
    <1>7. CASE SendLoopNext
        <2>1. leaves' \subseteq leaves
            BY <1>7 DEF SendLoopNext, EndLoop, AwaitSlicer, TakeEof, DoneTick, HoldoffExpires,
               DrainDeadline, OnStats, OnNak, OnLeave, Evict, upVars
        <2> QED
            BY <1>1, <1>7, <2>1, SendLoopFrame DEF sessionVars
    <1>8. CASE Lose
        BY <1>1, <1>8 DEF Lose, upVars, sessionVars
    <1> QED
        BY <1>1, <1>6, <1>7, <1>8, NextCases, SlicerFrame
           DEF sessionVars, upVars, vars

\* Who took leave of the group, or was dropped, and what the sender returns.
LEMMA MembersStep ==
    ASSUME TypeOK, CompletionInv, [Next]_vars
    PROVE  /\ UNCHANGED joined
           /\ \A r \in left' : r \in left \/ r \in leaves
           /\ joined' \subseteq members' \cup left' \cup evicted'
           /\ members' \subseteq joined' \ evicted' /\ evicted' \subseteq joined'
           /\ evicted \subseteq evicted'
           /\ outcome' = "ok" /\ outcome # "ok" =>
                 /\ members \subseteq reached
                 /\ UNCHANGED <<members, left, evicted>>
           /\ outcome = "ok" => UNCHANGED <<outcome, evicted>>
    <1>1. CASE UNCHANGED <<members, historyVars, outcome>>
        BY <1>1 DEF historyVars, CompletionInv
    <1>2. CASE EndLoop
        BY <1>2 DEF EndLoop, Looping, AllComplete, groupVars, historyVars,
           CompletionInv
    <1>3. CASE DrainDeadline
        BY <1>3 DEF DrainDeadline, Looping, groupVars, historyVars,
           CompletionInv
    <1>4. ASSUME NEW r \in leaves, OnLeave(r)
          PROVE  /\ members' = members \ {r} /\ left' = left \cup ({r} \cap members)
                 /\ UNCHANGED <<joined, evicted, outcome>> /\ outcome = "sending"
        BY <1>4 DEF OnLeave, Remove, Looping, resultVars
    <1>5. ASSUME NEW r \in members, Evict(r)
          PROVE  /\ members' = members \ {r} /\ evicted' = evicted \cup {r}
                 /\ UNCHANGED <<joined, left, outcome>> /\ outcome = "sending"
        BY <1>5 DEF Evict, Remove, Looping, resultVars
    <1>6. CASE \E r \in leaves : OnLeave(r)
        BY <1>4, <1>6 DEF CompletionInv
    <1>7. CASE \E r \in members : Evict(r)
        BY <1>5, <1>7 DEF CompletionInv
    <1>8. CASE \/ AwaitSlicer \/ TakeEof \/ DoneTick \/ HoldoffExpires
               \/ \E m \in stats, again \in BOOLEAN : OnStats(m, again)
               \/ \E m \in naks, again \in BOOLEAN : OnNak(m, again)
        <2>1. CASE AwaitSlicer \/ TakeEof \/ DoneTick \/ HoldoffExpires
            BY <1>1, <2>1 DEF AwaitSlicer, TakeEof, DoneTick, HoldoffExpires,
               senderVars, groupVars, resultVars
        <2>2. ASSUME NEW m \in stats, NEW again \in BOOLEAN, OnStats(m, again)
              PROVE  UNCHANGED <<members, historyVars, outcome>>
            BY <2>2 DEF OnStats, groupVars, resultVars
        <2>3. ASSUME NEW m \in naks, NEW again \in BOOLEAN, OnNak(m, again)
              PROVE  UNCHANGED <<members, historyVars, outcome>>
            BY <2>3 DEF OnNak, resultVars
        <2> QED
            BY <1>1, <1>8, <2>1, <2>2, <2>3
    <1>9. CASE UNCHANGED <<senderVars, joined, left, evicted>>
        BY <1>9 DEF senderVars, groupVars, resultVars, CompletionInv
    <1>10. CASE SlicerNext
        BY <1>1, <1>10, SlicerFrame DEF groupVars, resultVars
    <1> QED
        BY <1>2, <1>3, <1>6, <1>7, <1>8, <1>9, <1>10, NextCases, SessionFrame,
           LoseFrame DEF SendLoopNext, historyVars, vars

\* Every step keeps what the sender knows of completion true.
LEMMA CompletionStep ==
    ASSUME TypeOK, ReportInv, CompletionInv, [Next]_vars
    PROVE  CompletionInv'
    <1>0. GroupTypeOK /\ NetworkTypeOK /\ HistoryTypeOK
        BY DEF TypeOK
    <1>1. \A r \in reached' : nextNeeded'[r] = SliceCount
        BY ReachedStep, EndStep
    <1>2. \A r \in Receivers :
              phase'[r] = "finished" => nextNeeded'[r] = SliceCount
        BY PhaseStep, EndStep DEF CompletionInv
    <1>3. \A r \in leaves' : phase'[r] = "finished"
        BY <1>0, PhaseStep DEF CompletionInv, NetworkTypeOK
    <1>4. \A r \in left' : nextNeeded'[r] = SliceCount
        <2>1. \A r \in left' : r \in Receivers /\ nextNeeded[r] = SliceCount
            BY <1>0, MembersStep
               DEF CompletionInv, NetworkTypeOK, HistoryTypeOK
        <2> QED
            BY <2>1, EndStep
    <1>5. /\ joined' \subseteq members' \cup left' \cup evicted'
          /\ members' \subseteq joined' \ evicted' /\ evicted' \subseteq joined'
        BY MembersStep
    <1>6. outcome' = "ok" =>
              \A r \in joined' \ evicted' : nextNeeded'[r] = SliceCount
        <2>1. CASE outcome = "ok"
            <3>1. \A r \in joined \ evicted : nextNeeded[r] = SliceCount
                BY <2>1 DEF CompletionInv, OkMeansEveryoneHasAll
            <3>2. joined' \ evicted' \subseteq joined \ evicted
                BY MembersStep
            <3> QED
                BY <1>0, <3>1, <3>2, EndStep DEF HistoryTypeOK
        <2>2. CASE outcome # "ok" /\ outcome' = "ok"
            <3>1. members \subseteq reached /\ UNCHANGED <<joined, members, left, evicted>>
                BY <2>2, MembersStep
            <3>2. \A r \in joined \ evicted : nextNeeded[r] = SliceCount
                BY <3>1 DEF CompletionInv
            <3> QED
                BY <1>0, <3>1, <3>2, EndStep DEF HistoryTypeOK
        <2> QED
            BY <2>1, <2>2
    <1> QED
        BY <1>1, <1>2, <1>3, <1>4, <1>5, <1>6
           DEF CompletionInv, OkMeansEveryoneHasAll
-----------------------------------------------------------------------------
(* The output: a slice is only written as long as the source made it.       *)

HeldFits(h) ==
    \A s \in Slices : \A slot \in h[s] :
        slot < BlocksPerSlice => slot < BlocksIn(s)

\* Without Done a ready slice is not a short last one: a later slice was seen,
\* or the data slot a short slice lacks is there.
LEMMA ReadyTarget ==
    ASSUME NEW h \in [Slices -> SUBSET Slots], HeldFits(h),
           NEW d \in BOOLEAN, NEW s \in Slices, Ready(h, d, s)
    PROVE  Target(d, s) = BlocksIn(s)
    <1> USE TransferAssumption
    <1>1. CASE d
        BY <1>1 DEF Target
    <1>2. CASE ~d /\ \E t \in Slices : t > s /\ h[t] # {}
        <2>1. s # SliceCount - 1
            BY <1>2 DEF Slices
        <2> QED
            BY <1>2, <2>1 DEF Target, BlocksIn
    <1>3. CASE ~d /\ DataSlots \subseteq h[s]
        <2>1. BlocksPerSlice - 1 \in h[s]
            BY <1>3 DEF DataSlots
        <2>2. BlocksPerSlice - 1 < BlocksIn(s)
            BY <2>1 DEF HeldFits
        <2>3. BlocksIn(s) \in 1 .. BlocksPerSlice
            BY BlocksInType
        <2> QED
            BY <1>3, <2>2, <2>3 DEF Target
    <1> QED
        BY <1>1, <1>2, <1>3 DEF Ready, CanWrite

\* hand_over writes the source's blocks of the slices it takes.
LEMMA HandOverOutput ==
    ASSUME SessionTypeOK, OutputInv, NEW r \in Receivers,
           NEW h \in [Slices -> SUBSET Slots], HeldFits(h),
           NEW d \in BOOLEAN, NEW asked, HandOver(r, h, d, asked)
    PROVE  OutputInv'
    <1> USE DEF SessionTypeOK
    <1>1. CASE pending[r]
        <2>1. held' = [held EXCEPT ![r] = h] /\ UNCHANGED <<nextNeeded, output>>
            BY <1>1 DEF HandOver
        <2> QED
            BY <2>1 DEF OutputInv, OutputIsPrefix, HeldFits
    <1>2. CASE ~pending[r]
        <2>1. PICK next \in nextNeeded[r] .. SliceCount :
                /\ \A s \in nextNeeded[r] .. (next - 1) : Ready(h, d, s)
                /\ nextNeeded' = [nextNeeded EXCEPT ![r] = next]
                /\ held' = [held EXCEPT ![r] =
                       [s \in Slices |-> IF s < next THEN {} ELSE h[s]]]
                /\ output' = [output EXCEPT ![r] =
                       [s \in Slices |->
                          IF s \in nextNeeded[r] .. (next - 1)
                          THEN Target(d, s) ELSE output[r][s]]]
            BY <1>2 DEF HandOver
        <2>2. nextNeeded[r] \in Nat /\ next \in Nat /\ next <= SliceCount
              /\ nextNeeded[r] <= next
            BY TransferAssumption
        <2>3. \A q \in Receivers, s \in Slices : \A slot \in held'[q][s] :
                  slot < BlocksPerSlice => slot < BlocksIn(s)
            BY <2>1 DEF OutputInv, HeldFits
        <2>4. \A q \in Receivers, s \in Slices :
                  output'[q][s] = IF s < nextNeeded'[q] THEN BlocksIn(s) ELSE 0
            <3> SUFFICES ASSUME NEW q \in Receivers, NEW s \in Slices
                         PROVE  output'[q][s] =
                                  IF s < nextNeeded'[q] THEN BlocksIn(s) ELSE 0
                OBVIOUS
            <3>1. output[q][s] = IF s < nextNeeded[q] THEN BlocksIn(s) ELSE 0
                BY DEF OutputInv, OutputIsPrefix
            <3>2. CASE q # r
                BY <2>1, <3>1, <3>2
            <3>3. CASE q = r
                <4>1. nextNeeded'[q] = next
                    BY <2>1, <3>3
                <4>2. CASE s \in nextNeeded[r] .. (next - 1)
                    <5>1. output'[q][s] = Target(d, s)
                        BY <2>1, <3>3, <4>2
                    <5>2. s < next
                        BY <2>2, <4>2
                    <5> QED
                        BY <2>1, <4>1, <4>2, <5>1, <5>2, ReadyTarget
                <4>3. CASE s \notin nextNeeded[r] .. (next - 1)
                    <5>1. output'[q][s] = output[q][s]
                        BY <2>1, <3>3, <4>3
                    <5>2. s < nextNeeded[r] <=> s < next
                        BY <2>2, <4>3, TransferAssumption DEF Slices
                    <5> QED
                        BY <3>1, <3>3, <4>1, <5>1, <5>2
                <4> QED
                    BY <4>2, <4>3
            <3> QED
                BY <3>2, <3>3
        <2> QED
            BY <2>3, <2>4 DEF OutputInv, OutputIsPrefix
    <1> QED
        BY <1>1, <1>2

\* Every step keeps every output a prefix of the source.
LEMMA OutputStep ==
    ASSUME TypeOK, FlightInv, OutputInv, [Next]_vars
    PROVE  OutputInv'
    <1>0. SessionTypeOK /\ NetworkTypeOK
        BY DEF TypeOK
    <1>1. CASE UNCHANGED <<nextNeeded, held, output>>
        BY <1>1 DEF OutputInv, OutputIsPrefix
    <1>2. ASSUME NEW r \in Receivers, SessionNext(r)
          PROVE  OutputInv'
        <2>0. /\ held[r] \in [Slices -> SUBSET Slots] /\ HeldFits(held[r])
              /\ heardDone[r] \in BOOLEAN
            BY <1>0 DEF SessionTypeOK, OutputInv, HeldFits
        <2>1. ASSUME NEW f \in frames[r], NEW again \in BOOLEAN,
                     DeliverShard(r, f, again)
              PROVE  OutputInv'
            <3>1. f \in Frame
                BY <1>0 DEF NetworkTypeOK
            <3>2. Insert(r, f) \in [Slices -> SUBSET Slots]
                BY <1>0, <3>1, InsertType
            <3>3. f.slot < BlocksPerSlice => f.slot < BlocksIn(f.slice)
                BY DEF FlightInv
            <3>4. HeldFits(Insert(r, f))
                BY <1>0, <2>0, <3>1, <3>3
                   DEF HeldFits, Insert, SessionTypeOK, Frame
            <3>5. \E asked : HandOver(r, Insert(r, f), heardDone[r], asked)
                BY <2>1 DEF DeliverShard
            <3> QED
                BY <1>0, <2>0, <3>2, <3>4, <3>5, HandOverOutput
        <2>2. CASE DeliverDone(r)
            <3>1. \E asked : HandOver(r, held[r], TRUE, asked)
                BY <2>2 DEF DeliverDone
            <3> QED
                BY <1>0, <2>0, <3>1, HandOverOutput
        <2>3. CASE RenakTick(r) \/ StatsTick(r)
            <3>1. \E asked : HandOver(r, held[r], heardDone[r], asked)
                BY <2>3 DEF RenakTick, StatsTick
            <3> QED
                BY <1>0, <2>0, <3>1, HandOverOutput
        <2>4. CASE RenakExpires(r) \/ SinkReady(r)
            BY <1>1, <2>4 DEF RenakExpires, SinkReady
        <2>5. CASE DeliverEvicted(r) \/ Finish(r) \/ GoSilent(r) \/ Crash(r)
            BY <1>1, <2>5 DEF DeliverEvicted, Finish, GoSilent, Crash, Stop
        <2> QED
            BY <1>2, <2>1, <2>2, <2>3, <2>4, <2>5 DEF SessionNext
    <1> QED
        BY <1>1, <1>2, NextCases, SlicerFrame, SendLoopFrame, LoseFrame
           DEF sessionVars, vars

-----------------------------------------------------------------------------
(* The inductive invariant, and what follows from it.                       *)

\* The inductive invariant holds at the start.
LEMMA InitInd == Init => IndInv
    <1> SUFFICES ASSUME Init PROVE IndInv
        OBVIOUS
    <1> USE TransferAssumption DEF Init
    <1>1. TypeOK
        BY InitTypeOK
    <1>2. WindowInv
        BY DEF WindowInv
    <1>3. ReportInv
        <2>1. Len(feedback) = 0
            BY EmptySeq
        <2> QED
            BY <2>1 DEF ReportInv
    <1>4. FlightInv
        BY DEF FlightInv
    <1>5. EmissionInv
        BY DEF EmissionInv, NaksFollowEmission
    <1>6. CompletionInv
        BY DEF CompletionInv, OkMeansEveryoneHasAll
    <1>7. OutputInv
        BY DEF OutputInv, OutputIsPrefix, Slices
    <1> QED
        BY <1>1, <1>2, <1>3, <1>4, <1>5, <1>6, <1>7 DEF IndInv

\* The inductive invariant is inductive.
LEMMA IndStep == IndInv /\ [Next]_vars => IndInv'
    BY TypeStep, WindowStep, ReportStep, FlightStep, EmissionStep,
       CompletionStep, OutputStep DEF IndInv

\* The conjunction of the parts is an invariant of every transfer, whatever
\* the group, the stream, the code and the network's losses.
THEOREM Inductive == Spec => []IndInv
    BY InitInd, IndStep, PTL DEF Spec

\* Every variable keeps its type: TypeOK.
THEOREM TypeCorrect == Spec => []TypeOK
    <1>1. IndInv => TypeOK
        BY DEF IndInv
    <1> QED
        BY <1>1, Inductive, PTL

\* The slicer's window never drops a slice a participant still needs.
THEOREM WindowIsKept == Spec => []WindowRetains
    <1>1. IndInv => WindowRetains
        <2> SUFFICES ASSUME IndInv, NEW r \in members
                     PROVE  firstLive <= nextNeeded[r]
            BY DEF WindowRetains
        <2>1. neededFrom <= nextNeeded[r] /\ firstLive <= neededFrom
            BY DEF IndInv, ReportInv
        <2>2. firstLive \in Int /\ neededFrom \in Int /\ nextNeeded[r] \in Int
            BY TransferAssumption
               DEF IndInv, TypeOK, SlicerTypeOK, GroupTypeOK, SessionTypeOK
        <2> QED
            BY <2>1, <2>2
    <1> QED
        BY <1>1, Inductive, PTL

\* No shard on its way to a participant is beyond its Assembler's window.
THEOREM WindowsAgree == Spec => []NeverTooFarAhead
    <1>1. IndInv => NeverTooFarAhead
        <2> SUFFICES ASSUME IndInv, NEW r \in members \cap Running,
                            NEW f \in frames[r]
                     PROVE  f.slice < nextNeeded[r] + MaxLiveSlices
            BY DEF NeverTooFarAhead
        <2>1. r \in Receivers /\ r \in members
            BY DEF IndInv, TypeOK, GroupTypeOK
        <2>2. f.slice < firstLive + MaxLiveSlices
            BY <2>1 DEF IndInv, FlightInv
        <2>3. neededFrom <= nextNeeded[r] /\ firstLive <= neededFrom
            BY <2>1 DEF IndInv, ReportInv
        <2>4. firstLive \in Int /\ neededFrom \in Int /\ nextNeeded[r] \in Int
              /\ f.slice \in Int /\ MaxLiveSlices \in Int
            BY <2>1, TransferAssumption
               DEF IndInv, TypeOK, SlicerTypeOK, GroupTypeOK, SessionTypeOK,
                   NetworkTypeOK, Frame, Slices
        <2> QED
            BY <2>2, <2>3, <2>4
    <1> QED
        BY <1>1, Inductive, PTL

\* What a receiver writes is the source, slice by slice, without padding.
THEOREM OutputCorrect == Spec => []OutputIsPrefix
    <1>1. IndInv => OutputIsPrefix
        BY DEF IndInv, OutputInv
    <1> QED
        BY <1>1, Inductive, PTL

\* A receiver never asks for a slice the slicer has not emitted to its end.
THEOREM NaksAreTimely == Spec => []NaksFollowEmission
    <1>1. IndInv => NaksFollowEmission
        BY DEF IndInv, EmissionInv
    <1> QED
        BY <1>1, Inductive, PTL

\* Success of the sender is success of every participant it did not evict.
THEOREM OkIsHonest == Spec => []OkMeansEveryoneHasAll
    <1>1. IndInv => OkMeansEveryoneHasAll
        BY DEF IndInv, CompletionInv
    <1> QED
        BY <1>1, Inductive, PTL

\* The group's oldest needed slice, and the window's first, never go back.
THEOREM NeededMonotone == Spec => NeededNeverRetreats
    <1>1. IndInv /\ [Next]_vars =>
              [neededFrom' >= neededFrom /\ firstLive' >= firstLive]_vars
        <2> SUFFICES ASSUME IndInv, [Next]_vars
                     PROVE  neededFrom' >= neededFrom /\ firstLive' >= firstLive
            OBVIOUS
        <2>1. neededFrom <= neededFrom' /\ firstLive <= firstLive'
            BY ReportStep, WindowStep DEF IndInv
        <2> QED
            BY <2>1
    <1> QED
        BY <1>1, Inductive, PTL DEF Spec, NeededNeverRetreats
-----------------------------------------------------------------------------
(* The protocol implements the abstract promise.                            *)

promiseVars == <<joined, evicted, nextNeeded, phase, outcome, completed>>

\* The promise counts as the transfer does.
LEMMA PromiseCounts ==
    ASSUME NEW S
    PROVE  /\ Promise!Cardinality(S) = Cardinality(S)
           /\ Promise!IsFiniteSet(S) <=> IsFiniteSet(S)
    <1>1. Promise!Cardinality(S) = Cardinality(S)
        BY DEF Promise!Cardinality, Cardinality
    <1>2. Promise!IsFiniteSet(S) <=> IsFiniteSet(S)
        BY DEF Promise!IsFiniteSet, IsFiniteSet
    <1> QED
        BY <1>1, <1>2

\* hand_over is a WriteMore of the abstract specification, or nothing.
LEMMA HandOverWrites ==
    ASSUME SessionTypeOK, NEW r \in Receivers, phase[r] = "running",
           NEW h, NEW d, NEW asked, HandOver(r, h, d, asked),
           UNCHANGED <<joined, evicted, phase, resultVars>>
    PROVE  Promise!WriteMore(r) \/ UNCHANGED promiseVars
    <1>1. CASE pending[r]
        BY <1>1 DEF HandOver, promiseVars, resultVars
    <1>2. CASE ~pending[r]
        <2>1. \E next \in nextNeeded[r] .. SliceCount :
                  nextNeeded' = [nextNeeded EXCEPT ![r] = next]
            BY <1>2 DEF HandOver
        <2> QED
            BY <2>1 DEF Promise!WriteMore, resultVars
    <1> QED
        BY <1>1, <1>2

\* A session's step is a step of the promise, or a stutter.
LEMMA SessionPromise ==
    ASSUME TypeOK, NEW r \in Receivers, SessionNext(r)
    PROVE  Promise!AbsNext \/ UNCHANGED promiseVars
    <1>0. SessionTypeOK
        BY DEF TypeOK
    <1>1. UNCHANGED <<joined, evicted, resultVars, outcome, completed>>
        BY SessionFrame DEF senderVars, resultVars
    <1>2. CASE \E f \in frames[r], again \in BOOLEAN : DeliverShard(r, f, again)
        <2>1. phase[r] = "running" /\ UNCHANGED phase
              /\ \E h, d, asked : HandOver(r, h, d, asked)
            BY <1>2 DEF DeliverShard, Active, Running
        <2> QED
            BY <1>0, <1>1, <2>1, HandOverWrites DEF Promise!AbsNext
    <1>3. CASE DeliverDone(r) \/ RenakTick(r) \/ StatsTick(r)
        <2>1. phase[r] = "running" /\ UNCHANGED phase
              /\ \E h, d, asked : HandOver(r, h, d, asked)
            BY <1>3 DEF DeliverDone, RenakTick, StatsTick, Active, Running
        <2> QED
            BY <1>0, <1>1, <2>1, HandOverWrites DEF Promise!AbsNext
    <1>4. CASE RenakExpires(r) \/ SinkReady(r)
        BY <1>1, <1>4 DEF RenakExpires, SinkReady, promiseVars
    <1>5. CASE Finish(r)
        <2>1. /\ phase[r] = "running" /\ nextNeeded[r] >= SliceCount
              /\ phase' = [phase EXCEPT ![r] = "finished"]
              /\ UNCHANGED nextNeeded
            BY <1>5 DEF Finish, Active, Complete, Running, Stop
        <2>2. nextNeeded[r] \in 0 .. SliceCount
            BY <1>0 DEF SessionTypeOK
        <2>3. nextNeeded[r] = SliceCount
            BY <2>1, <2>2, TransferAssumption
        <2> QED
            BY <1>1, <2>1, <2>3 DEF Promise!StopFinished, Promise!AbsNext
    <1>6. CASE DeliverEvicted(r) \/ GoSilent(r) \/ Crash(r)
        <2>1. /\ phase[r] = "running" /\ UNCHANGED nextNeeded
              /\ phase' = [phase EXCEPT ![r] = "failed"]
            BY <1>6 DEF DeliverEvicted, GoSilent, Crash, Active, Running, Stop
        <2> QED
            BY <1>1, <2>1 DEF Promise!StopFailed, Promise!AbsNext
    <1> QED
        BY <1>2, <1>3, <1>4, <1>5, <1>6 DEF SessionNext

\* So is a step of the send loop.
LEMMA SendLoopPromise ==
    ASSUME IndInv, SendLoopNext
    PROVE  Promise!AbsNext \/ UNCHANGED promiseVars
    <1>0. UNCHANGED <<joined, nextNeeded, phase>>
        BY SendLoopFrame DEF sessionVars
    <1>1. CASE EndLoop
        <2>1. /\ outcome = "sending" /\ outcome' \in {"ok", "noParticipants"}
              /\ UNCHANGED <<evicted, completed>>
            BY <1>1 DEF EndLoop, historyVars
        <2>2. members \subseteq reached
            BY <1>1 DEF EndLoop, Looping, AllComplete
        <2>3. \A r \in joined \ evicted : nextNeeded[r] = SliceCount
            BY <2>2 DEF IndInv, CompletionInv
        <2>4. joined \ evicted \subseteq Promise!HaveAll
            BY <2>3 DEF Promise!HaveAll
        <2> QED
            BY <1>0, <2>1, <2>4 DEF Promise!Return, Promise!AbsNext
    <1>2. CASE DrainDeadline
        <2>1. /\ outcome = "sending" /\ outcome' = "incomplete"
              /\ completed' = Cardinality(members \cap reached)
              /\ UNCHANGED evicted
            BY <1>2 DEF DrainDeadline, CompleteCount, Looping, historyVars
        <2>2. members \cap reached \subseteq Promise!HaveAll \ evicted
            BY DEF IndInv, CompletionInv, Promise!HaveAll
        <2>3. IsFiniteSet(Promise!HaveAll \ evicted)
            <3>1. Promise!HaveAll \ evicted \subseteq Receivers
                BY DEF IndInv, TypeOK, HistoryTypeOK, Promise!HaveAll
            <3> QED
                BY <3>1, FS_Subset, TransferAssumption
        <2>4. completed' \in 0 .. Promise!Cardinality(Promise!HaveAll \ evicted)
            BY <2>1, <2>2, <2>3, FS_Subset, FS_CardinalityType, PromiseCounts
        <2> QED
            BY <1>0, <2>1, <2>4 DEF Promise!GiveUp, Promise!AbsNext
    <1>3. ASSUME NEW r \in members, Evict(r)
          PROVE  Promise!AbsNext
        <2>1. r \in Receivers /\ r \in joined
            BY DEF IndInv, TypeOK, GroupTypeOK, CompletionInv
        <2>2. Promise!Drop(r)
            BY <1>0, <1>3, <2>1 DEF Evict, Looping, resultVars, Promise!Drop
        <2> QED
            BY <2>1, <2>2 DEF Promise!AbsNext
    <1>4. CASE AwaitSlicer \/ TakeEof \/ DoneTick \/ HoldoffExpires
        BY <1>0, <1>4 DEF AwaitSlicer, TakeEof, DoneTick, HoldoffExpires, senderVars,
           resultVars, historyVars, promiseVars
    <1>5. CASE \E m \in stats, again \in BOOLEAN : OnStats(m, again)
        BY <1>0, <1>5 DEF OnStats, resultVars, historyVars, promiseVars
    <1>6. CASE \E m \in naks, again \in BOOLEAN : OnNak(m, again)
        BY <1>0, <1>6 DEF OnNak, resultVars, historyVars, promiseVars
    <1>7. CASE \E r \in leaves : OnLeave(r)
        BY <1>0, <1>7 DEF OnLeave, resultVars, promiseVars
    <1> QED
        BY <1>1, <1>2, <1>3, <1>4, <1>5, <1>6, <1>7 DEF SendLoopNext

\* A transfer does nothing that the abstract promise forbids.
THEOREM KeepsPromise == Spec => ImplementsPromise
    <1>1. Init => Promise!AbsInit
        BY DEF Init, Promise!AbsInit
    <1>2. IndInv /\ [Next]_vars => [Promise!AbsNext]_(Promise!absVars)
        <2> SUFFICES ASSUME IndInv, [Next]_vars
                     PROVE  Promise!AbsNext \/ UNCHANGED promiseVars
            BY DEF Promise!absVars, promiseVars, resultVars
        <2>1. CASE SlicerNext \/ Lose \/ UNCHANGED vars
            BY <2>1, SlicerFrame, LoseFrame DEF senderVars, resultVars,
               sessionVars, historyVars, vars, promiseVars
        <2> QED
            BY <2>1, NextCases, SessionPromise, SendLoopPromise
               DEF IndInv
    <1> QED
        BY <1>1, <1>2, Inductive, PTL DEF Spec, ImplementsPromise, Promise!AbsSpec

\* So what follows from the promise is true of a transfer: each of its errors
\* is honest about the participants it did not evict (FailuresAreHonest).
THEOREM ErrorsAreHonest == Spec => []FailuresAreHonest
    <1>1. Promise!AbsSpec => []Promise!ResultIsHonest
        <2>1. Promise!IsFiniteSet(Receivers) /\ SliceCount \in Nat
            BY TransferAssumption, PromiseCounts
        <2> QED
            BY <2>1, Promise!Honest
    <1>2. Promise!ResultIsHonest => FailuresAreHonest
        <2>1. Promise!HaveAll \ evicted =
                  {r \in joined \ evicted : nextNeeded[r] = SliceCount}
            BY DEF Promise!HaveAll
        <2> QED
            BY <2>1, PromiseCounts
               DEF Promise!ResultIsHonest, FailuresAreHonest, Promise!HaveAll
    <1> QED
        BY <1>1, <1>2, KeepsPromise, PTL DEF ImplementsPromise

\* And what was written or returned is final: no report, repair or late Done
\* makes a receiver write a slice twice, or a process that has returned go on.
THEOREM TransferIsFinal == Spec => Promise!NothingIsTakenBack
    <1>1. Promise!AbsSpec => Promise!NothingIsTakenBack
        <2>1. Promise!IsFiniteSet(Receivers) /\ SliceCount \in Nat
            BY TransferAssumption, PromiseCounts
        <2> QED
            BY <2>1, Promise!Final
    <1> QED
        BY <1>1, KeepsPromise, PTL DEF ImplementsPromise

-----------------------------------------------------------------------------
(* The window between slicer and send loop is the abstract one.             *)

\* All that the abstract window is made of.
sharedVars == <<sealed, filled, firstLive, eof, emitFloor, neededFrom>>

\* A block that is read fills the window, and the floor moves with the seal.
LEMMA PushFills ==
    ASSUME TypeOK, WindowInv, Push
    PROVE  Window!Fill
    <1>0. /\ sealed \in Nat /\ firstLive \in Nat /\ MaxLiveSlices \in Nat
          /\ emitFloor \in Nat
        BY TransferAssumption DEF TypeOK, SlicerTypeOK
    <1>1. Window!Room
        BY <1>0 DEF Push, Reading, WindowFull, Window!Room
    <1>2. UNCHANGED <<firstLive, eof, neededFrom>>
        BY DEF Push, groupVars
    <1>3. emitFloor' = emitFloor \/ emitFloor' = sealed'
        BY DEF Push
    <1>4. sealed' = sealed \/ sealed' = sealed + 1
        BY DEF Push
    <1>5. emitFloor' \in emitFloor .. sealed'
        BY <1>0, <1>3, <1>4 DEF WindowInv
    <1> QED
        BY <1>1, <1>2, <1>5 DEF Push, Window!Fill, Window!Announce

\* The end of the source ends the window, a short slice sealed with it.
LEMMA DrainEnds ==
    ASSUME TypeOK, WindowInv, Drain
    PROVE  Window!End
    <1>0. /\ sealed \in Nat /\ firstLive \in Nat /\ MaxLiveSlices \in Nat
          /\ emitFloor \in Nat /\ filled \in Nat
        BY TransferAssumption DEF TypeOK, SlicerTypeOK
    <1>1. Window!Room
        BY <1>0 DEF Drain, Reading, WindowFull, Window!Room
    <1>2. UNCHANGED <<firstLive, neededFrom>>
        BY DEF Drain, groupVars
    <1>3. (eof' # "none") = TRUE
        BY DEF Drain
    <1>4. /\ sealed' = IF filled > 0 THEN sealed + 1 ELSE sealed
          /\ filled' = 0
          /\ emitFloor' = IF filled > 0 THEN sealed + 1 ELSE emitFloor
        BY <1>0 DEF Drain
    <1>5. emitFloor' \in emitFloor .. sealed'
        BY <1>0, <1>4 DEF WindowInv
    <1> QED
        BY <1>1, <1>2, <1>3, <1>4, <1>5 DEF Window!End, Window!Announce

\* What the loop tells the slicer is never ahead of it, so retain_from drops
\* nothing that is needed.
LEMMA FeedbackDrops ==
    ASSUME TypeOK, WindowInv, ReportInv, OnFeedback
    PROVE  Window!Drop
    <1>0. SlicerTypeOK /\ GroupTypeOK
        BY DEF TypeOK
    <1>1. \/ firstLive' = firstLive
          \/ /\ Head(feedback).kind = "needed"
             /\ firstLive' = RetainFrom(Head(feedback).slice)
        BY DEF OnFeedback
    <1>2. Len(feedback) \in Nat /\ Len(feedback) > 0
          /\ Head(feedback) = feedback[1] /\ Head(feedback) \in Feedback
        BY <1>0, FeedbackHead DEF OnFeedback, SlicerTypeOK
    <1>3. Head(feedback).kind = "needed" => Head(feedback).slice <= neededFrom
        BY <1>2 DEF ReportInv
    <1>4. /\ sealed \in Nat /\ firstLive \in 0 .. sealed /\ neededFrom \in Nat
          /\ Head(feedback).slice \in Nat
        BY <1>0, <1>2, TransferAssumption
           DEF SlicerTypeOK, GroupTypeOK, WindowInv, Feedback
    <1>5. /\ firstLive' \in firstLive .. sealed
          /\ firstLive' > firstLive => firstLive' <= neededFrom
        BY <1>1, <1>3, <1>4 DEF RetainFrom
    <1>6. UNCHANGED <<sealed, filled, eof, emitFloor, neededFrom>>
        BY DEF OnFeedback, groupVars
    <1> QED
        BY <1>5, <1>6 DEF Window!Drop

\* The send loop only learns what is needed, and takes Eof.
LEMMA SendLoopLearns ==
    ASSUME TypeOK, ReportInv, EmissionInv, [Next]_vars, SendLoopNext
    PROVE  Window!Learn
    <1>1. neededFrom' \in Nat /\ neededFrom' >= neededFrom
        BY ReportStep, GroupTypeStep, TransferAssumption
           DEF GroupTypeOK, TypeOK
    <1>2. UNCHANGED <<sealed, filled, firstLive, emitFloor>>
        BY SendLoopFrame DEF windowVars
    <1>3. eof' = eof \/ (eof = "queued" /\ eof' = "taken")
        BY DEF SendLoopNext, EndLoop, AwaitSlicer, TakeEof, DoneTick, HoldoffExpires,
           DrainDeadline, OnStats, OnNak, OnLeave, Evict, senderVars
    <1>4. UNCHANGED (eof # "none")
        BY <1>3
    <1> QED
        BY <1>1, <1>2, <1>4 DEF Window!Learn

\* The window of a transfer is the abstract one (ImplementsWindow).
THEOREM KeepsWindow == Spec => ImplementsWindow
    <1>1. Init => Window!WindowInit
        BY DEF Init, Window!WindowInit
    <1>2. IndInv /\ [Next]_vars => [Window!WindowNext]_(Window!windowVars)
        <2> SUFFICES ASSUME IndInv, [Next]_vars
                     PROVE  Window!WindowNext \/ UNCHANGED sharedVars
            BY DEF Window!windowVars, sharedVars
        <2>1. CASE SlicerNext
            BY <2>1, PushFills, DrainEnds, FeedbackDrops
               DEF IndInv, SlicerNext, Window!WindowNext
        <2>2. CASE SendLoopNext
            BY <2>2, SendLoopLearns DEF IndInv, Window!WindowNext
        <2>3. CASE UNCHANGED senderVars
            BY <2>3 DEF senderVars, windowVars, groupVars, sharedVars
        <2> QED
            BY <2>1, <2>2, <2>3, NextCases, SessionFrame, LoseFrame DEF vars
    <1> QED
        BY <1>1, <1>2, Inductive, PTL
           DEF Spec, ImplementsWindow, Window!WindowSpec

\* So nothing sealed, dropped, announced or learned to be needed is ever taken
\* back, and the end of the source is final (Window!WindowMovesOn): reports that
\* come late or twice move neither the group nor the slicer.
THEOREM WindowNeverReturns == Spec => Window!WindowMovesOn
    <1>1. ImplementsWindow => Window!WindowMovesOn
        BY TransferAssumption, Window!WindowIsMonotone DEF ImplementsWindow
    <1> QED
        BY <1>1, KeepsWindow, PTL
=============================================================================
