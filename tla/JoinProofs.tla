----------------------------- MODULE JoinProofs -----------------------------
(* Proofs about Join for every set of receivers and every bound.            *)
EXTENDS Join, FiniteSetTheorems, TLAPS

-----------------------------------------------------------------------------
(* The inductive invariant: MembersJoinedThis rests on where Joins come      *)
(* from, EvictedAreOut on when an Evicted can be on its way.                 *)

\* A receiver has a transfer from its first Hello on, and none before.
HasTransfer ==
    \A r \in Receivers :
        /\ role[r] \in {"absent", "listening"} => session[r] = 0
        /\ role[r] = "session" => session[r] # 0

\* What a receiver says is said of the transfer it joined.
SaidOfSession ==
    \A m \in net : m.kind \in Up => session[m.receiver] = m.transfer

\* Nobody is evicted from a group that is still gathered, and nobody who is
\* being told so is a member.
EvictionIsFinal ==
    /\ \A m \in net : m.kind = "evicted" /\ m.transfer = transfer
           => phase # "gathering" /\ m.receiver \notin participants
    /\ \A r \in Receivers : role[r] = "evicted" /\ session[r] = transfer
           => phase # "gathering" /\ r \notin participants

\* Nobody is seen before the group is complete.
NobodySeenYet == phase = "gathering" => seen = {}

JoinInv ==
    TypeOK /\ NobodySeenYet /\ HasTransfer /\ SaidOfSession /\ MembersJoinedThis
        /\ EvictionIsFinal

-----------------------------------------------------------------------------
(* Messages.                                                                *)

\* The fields of a message that is made.
LEMMA MsgFields ==
    ASSUME NEW k, NEW t, NEW r
    PROVE  /\ Msg(k, t, r).kind = k /\ Msg(k, t, r).transfer = t
           /\ Msg(k, t, r).receiver = r
           /\ k \in Down \cup Up /\ t \in Transfers /\ r \in Receivers
                 => Msg(k, t, r) \in Message
    BY DEF Msg, Message

\* What the network still holds, and what is added to it.
LEMMA TakeNet ==
    ASSUME NEW m, NEW sent, NEW again \in BOOLEAN, Take(m, sent, again)
    PROVE  net' \subseteq net \cup sent
    BY DEF Take

\* What send_to_group adds.
LEMMA ToGroupNet ==
    ASSUME NEW k, NEW m \in ToGroup(k)
    PROVE  \E r \in Receivers : m = Msg(k, transfer, r)
    BY DEF ToGroup, Open

\* Faults are counted up to their bound.
LEMMA FaultType ==
    ASSUME faults \in 0 .. MaxFaults, NEW n \in Nat, Fault(n)
    PROVE  faults' \in 0 .. MaxFaults
    BY JoinAssumption DEF Fault

\* Taking a message off counts at most one fault.
LEMMA TakeFaults ==
    ASSUME faults \in 0 .. MaxFaults, NEW m, NEW sent, NEW again \in BOOLEAN,
           Take(m, sent, again)
    PROVE  faults' \in 0 .. MaxFaults
    BY FaultType DEF Take

\* The group begins with whom it has.
LEMMA BeginSeen ==
    ASSUME NEW p, NobodySeenYet, phase = "gathering",
           Begin(p) \/ BeginIfEnough(p)
    PROVE  /\ phase' \in {"gathering", "looping"} \cup Ended
           /\ seen' \subseteq p /\ NobodySeenYet'
    BY DEF Begin, BeginIfEnough, MarkAllSeen, NobodySeenYet, Ended

-----------------------------------------------------------------------------
(* The sender's steps.                                                      *)

\* A Hello or a shard is put on its way.
LEMMA HelloStep ==
    ASSUME JoinInv, GatherHello \/ LoopHello \/ SendShard
    PROVE  JoinInv'
<1> USE DEF JoinInv
<1>1. /\ \A m \in net' \ net : /\ m.kind \in {"hello", "shard"}
                               /\ m \in Message /\ m.transfer = transfer
      /\ net' \ net \subseteq {m \in Message : m.transfer <= transfer'}
      /\ UNCHANGED <<transfer, participants, receiverVars, faults>>
    BY MsgFields, ToGroupNet
       DEF GatherHello, LoopHello, SendShard, TypeOK, senderVars, Transfers, Down
<1>2. /\ phase' \in {"gathering", "looping"} \cup Ended
      /\ seen' \subseteq participants /\ NobodySeenYet'
      /\ phase # "gathering" => phase' # "gathering"
    <2>1. CASE GatherHello
        BY <2>1, BeginSeen DEF GatherHello
    <2>2. CASE LoopHello \/ SendShard
        BY <2>2 DEF LoopHello, SendShard, TypeOK, senderVars, NobodySeenYet
    <2> QED BY <2>1, <2>2
<1>3. TypeOK'
    BY <1>1, <1>2 DEF TypeOK, receiverVars, Message
<1>4. HasTransfer' /\ MembersJoinedThis'
    BY <1>1 DEF HasTransfer, MembersJoinedThis, receiverVars
<1>5. SaidOfSession'
    BY <1>1 DEF SaidOfSession, receiverVars, Up
<1>6. EvictionIsFinal'
    BY <1>1, <1>2 DEF EvictionIsFinal, receiverVars
<1> QED BY <1>2, <1>3, <1>4, <1>5, <1>6

\* A message is read while the group is gathered.
LEMMA GatherReceiveStep ==
    ASSUME JoinInv, NEW m \in UpMessages, NEW again \in BOOLEAN,
           GatherReceive(m, again)
    PROVE  JoinInv'
<1> USE DEF JoinInv
<1>1. /\ net' \subseteq net /\ faults' \in 0 .. MaxFaults
      /\ UNCHANGED <<transfer, receiverVars>> /\ phase = "gathering"
    BY TakeNet, TakeFaults DEF GatherReceive, TypeOK
<1>2. /\ m.kind \in Up /\ m.receiver \in Receivers
      /\ session[m.receiver] = m.transfer
    BY DEF UpMessages, SaidOfSession, TypeOK, Message
<1>3. /\ participants' \subseteq Receivers
      /\ \A r \in participants' : session[r] = transfer
      /\ phase' \in {"gathering", "looping"} \cup Ended
      /\ seen' \subseteq participants' /\ NobodySeenYet'
    <2>1. CASE BelongsTo(m, transfer)
        <3>1. /\ participants' \in {participants, Joining(m), Leaving(m)}
              /\ BeginIfEnough(participants')
            BY <2>1 DEF GatherReceive
        <3>2. /\ participants' \subseteq Receivers
              /\ \A r \in participants' : session[r] = transfer
            BY <1>2, <2>1, <3>1
               DEF Joining, Leaving, BelongsTo, TypeOK, MembersJoinedThis
        <3> QED BY <1>1, <3>1, <3>2, BeginSeen
    <2>2. CASE ~BelongsTo(m, transfer)
        BY <2>2 DEF GatherReceive, TypeOK, MembersJoinedThis, NobodySeenYet
    <2> QED BY <2>1, <2>2
<1>4. TypeOK' /\ HasTransfer' /\ SaidOfSession' /\ MembersJoinedThis'
    BY <1>1, <1>3
       DEF TypeOK, HasTransfer, SaidOfSession, MembersJoinedThis, receiverVars
<1>5. EvictionIsFinal'
    BY <1>1 DEF EvictionIsFinal, receiverVars
<1> QED BY <1>3, <1>4, <1>5

\* The steps of the sender that put nothing on the network and admit nobody.
LEMMA ShrinkStep ==
    ASSUME JoinInv, participants' \subseteq participants,
           seen' \subseteq participants', net' \subseteq net,
           faults' \in 0 .. MaxFaults, UNCHANGED <<transfer, receiverVars>>,
           phase' \in {"gathering", "looping"} \cup Ended,
           phase' = "gathering" => phase = "gathering" /\ seen' = {}
    PROVE  JoinInv'
<1> USE DEF JoinInv
<1>1. TypeOK'
    BY DEF TypeOK, receiverVars
<1>2. NobodySeenYet' /\ HasTransfer' /\ SaidOfSession' /\ MembersJoinedThis'
    BY DEF NobodySeenYet, HasTransfer, SaidOfSession, MembersJoinedThis,
           receiverVars
<1>3. EvictionIsFinal'
    BY DEF EvictionIsFinal, receiverVars
<1> QED BY <1>1, <1>2, <1>3

LEMMA ShrinkSteps ==
    ASSUME JoinInv,
           \/ GatherDeadline \/ LoopEmpty \/ SenderReturns
           \/ \E r \in Receivers : OnStats(r)
           \/ \E m \in UpMessages, again \in BOOLEAN : LoopReceive(m, again)
    PROVE  JoinInv'
<1> USE DEF JoinInv
<1>1. CASE GatherDeadline
    <2>1. faults' \in 0 .. MaxFaults
        BY <1>1, FaultType, 0 \in Nat, 1 \in Nat DEF GatherDeadline, TypeOK
    <2>2. /\ phase' \in {"looping"} \cup Ended /\ seen' \subseteq participants
          /\ UNCHANGED <<transfer, participants, receiverVars, net>>
        BY <1>1 DEF GatherDeadline, Begin, MarkAllSeen, Ended, TypeOK
    <2> QED BY <2>1, <2>2, ShrinkStep DEF Ended
<1>2. CASE LoopEmpty \/ SenderReturns
    <2>1. /\ phase' \in Ended
          /\ UNCHANGED <<transfer, participants, seen, receiverVars, net, faults>>
        BY <1>2 DEF LoopEmpty, SenderReturns, Ended
    <2> QED BY <2>1, ShrinkStep DEF TypeOK, Ended
<1>3. ASSUME NEW r \in Receivers, OnStats(r) PROVE JoinInv'
    <2>1. /\ seen' \subseteq participants /\ phase = "looping"
          /\ UNCHANGED <<transfer, phase, participants, receiverVars, net, faults>>
        BY <1>3 DEF OnStats, Looping, TypeOK
    <2> QED BY <2>1, ShrinkStep DEF TypeOK
<1>4. ASSUME NEW m \in UpMessages, NEW again \in BOOLEAN, LoopReceive(m, again)
      PROVE  JoinInv'
    <2>1. net' \subseteq net /\ faults' \in 0 .. MaxFaults
        BY <1>4, TakeNet, TakeFaults DEF LoopReceive, TypeOK
    <2>2. /\ participants' \subseteq participants
          /\ seen' \subseteq participants'
        BY <1>4 DEF LoopReceive, AfterMessage, Leaving, TypeOK
    <2>3. /\ phase = "looping" /\ UNCHANGED <<transfer, phase, receiverVars>>
        BY <1>4 DEF LoopReceive, Looping
    <2> QED BY <2>1, <2>2, <2>3, ShrinkStep
<1> QED BY <1>1, <1>2, <1>3, <1>4

\* Those reaped are told so, and are out.
LEMMA ReapStep ==
    ASSUME JoinInv, NEW gone \in SUBSET Receivers, Reap(gone)
    PROVE  JoinInv'
<1> USE DEF JoinInv
<1>1. /\ participants' = participants \ gone /\ seen' \subseteq participants'
      /\ phase = "looping" /\ UNCHANGED <<transfer, phase, receiverVars>>
      /\ gone \subseteq participants
    BY DEF Reap, Reaped, Looping
<1>2. faults' \in 0 .. MaxFaults
    <2>1. Cardinality({r \in gone : ~Quiet(r)}) \in Nat
        BY JoinAssumption, FS_Subset, FS_CardinalityType
    <2> QED BY <2>1, FaultType DEF Reap, TypeOK
<1>3. \A m \in net' : \/ m \in net
                      \/ /\ m.kind = "evicted" /\ m.transfer = transfer
                         /\ m.receiver \in gone /\ m \in Message
    BY MsgFields DEF Reap, Open, TypeOK, Down
<1>4. TypeOK'
    BY <1>1, <1>2, <1>3 DEF TypeOK, receiverVars, Message, Transfers
<1>5. NobodySeenYet' /\ HasTransfer' /\ MembersJoinedThis'
    BY <1>1 DEF NobodySeenYet, HasTransfer, MembersJoinedThis, receiverVars
<1>6. SaidOfSession'
    BY <1>1, <1>3 DEF SaidOfSession, receiverVars, Up
<1>7. EvictionIsFinal'
    BY <1>1, <1>3 DEF EvictionIsFinal, receiverVars
<1> QED BY <1>4, <1>5, <1>6, <1>7

\* A new run has an empty group, and nothing was ever said of it.
LEMMA SendAgainStep ==
    ASSUME JoinInv, SendAgain
    PROVE  JoinInv'
<1> USE DEF JoinInv
<1>1. /\ transfer' = transfer + 1 /\ transfer' \in Transfers
      /\ phase' = "gathering" /\ participants' = {} /\ seen' = {}
      /\ UNCHANGED <<receiverVars, net, faults>>
    BY JoinAssumption DEF SendAgain, EmptyGroup, TypeOK, Transfers
<1>2. /\ \A r \in Receivers : session[r] \in 0 .. transfer
      /\ \A m \in net : m \in Message /\ m.transfer \in Nat
                        /\ m.transfer <= transfer
    BY DEF TypeOK, Message, Transfers
<1>3. TypeOK'
    <2>1. session \in [Receivers -> 0 .. transfer + 1]
        BY DEF TypeOK, Transfers
    <2>2. net \subseteq {m \in Message : m.transfer <= transfer + 1}
        BY <1>2 DEF TypeOK, Transfers
    <2> QED BY <1>1, <2>1, <2>2 DEF TypeOK, receiverVars
<1>4. NobodySeenYet' /\ HasTransfer' /\ SaidOfSession' /\ MembersJoinedThis'
    BY <1>1 DEF NobodySeenYet, HasTransfer, SaidOfSession, MembersJoinedThis,
                receiverVars
<1>5. EvictionIsFinal'
    <2>1. \A m \in net : m.transfer # transfer'
        BY <1>1, <1>2 DEF TypeOK, Transfers
    <2>2. \A r \in Receivers : session[r] # transfer'
        BY <1>1, <1>2 DEF TypeOK, Transfers
    <2> QED BY <1>1, <2>1, <2>2 DEF EvictionIsFinal, receiverVars
<1> QED BY <1>3, <1>4, <1>5

-----------------------------------------------------------------------------
(* The receivers' steps and the network's.                                  *)

\* A session is of a transfer there has been.
LEMMA SessionTransfer ==
    ASSUME JoinInv, NEW r \in Receivers, role[r] = "session"
    PROVE  session[r] \in Transfers /\ session[r] <= transfer
<1>1. session[r] \in 0 .. transfer /\ transfer \in 1 .. MaxTransfers
    BY DEF JoinInv, TypeOK, Transfers
<1>2. session[r] # 0
    BY DEF JoinInv, HasTransfer
<1> QED BY <1>1, <1>2, JoinAssumption DEF Transfers

\* The run of r ends, and what it says is said of its transfer.
LEMMA EndStep ==
    ASSUME JoinInv, NEW r \in Receivers, NEW how \in Over, NEW said,
           End(r, how, said), UNCHANGED senderVars, faults' \in 0 .. MaxFaults,
           \A m \in said : m.kind = "leave" /\ m \in Message /\ m.receiver = r
                           /\ m.transfer = session[r],
           how = "evicted" /\ session[r] = transfer =>
               phase # "gathering" /\ r \notin participants
    PROVE  JoinInv'
<1> USE DEF JoinInv
<1>1. /\ \A m \in net' : m \in net \/ m \in said
      /\ role' = [role EXCEPT ![r] = how]
      /\ UNCHANGED <<session, received>>
    BY DEF End
<1>2. session[r] \in 0 .. transfer /\ transfer \in Transfers
    BY DEF TypeOK
<1>3. TypeOK'
    <2>1. role' \in [Receivers -> {"absent", "listening", "session"} \cup Over]
        BY <1>1 DEF TypeOK
    <2>2. net' \subseteq {m \in Message : m.transfer <= transfer}
        BY <1>1, <1>2 DEF TypeOK, Transfers
    <2> QED BY <1>1, <2>1, <2>2 DEF TypeOK, senderVars
<1>4. NobodySeenYet' /\ MembersJoinedThis'
    BY <1>1 DEF NobodySeenYet, MembersJoinedThis, senderVars
<1>5. HasTransfer'
    BY <1>1 DEF HasTransfer, Over, TypeOK
<1>6. SaidOfSession'
    BY <1>1 DEF SaidOfSession
<1>7. EvictionIsFinal'
    BY <1>1 DEF EvictionIsFinal, senderVars, TypeOK
<1> QED BY <1>3, <1>4, <1>5, <1>6, <1>7

LEMMA EndSteps ==
    ASSUME JoinInv, NEW r \in Receivers,
           \/ ListenDeadline(r) \/ Finish(r) \/ GoSilent(r) \/ ReceiverCrashes(r)
           \/ \E m \in ToReceiver(r) : OnEvicted(r, m)
    PROVE  JoinInv'
<1> USE DEF JoinInv
<1>1. CASE ListenDeadline(r)
    BY <1>1, EndStep, FaultType, 0 \in Nat, 1 \in Nat
       DEF ListenDeadline, TypeOK, Over
<1>2. CASE Finish(r)
    <2>1. session[r] \in Transfers
        BY <1>2, SessionTransfer DEF Finish
    <2>2. \A m \in {Msg("leave", session[r], r)} :
              m.kind = "leave" /\ m \in Message /\ m.receiver = r
                /\ m.transfer = session[r]
        BY <2>1, MsgFields DEF Up
    <2> QED BY <1>2, <2>2, EndStep DEF Finish, TypeOK, Over
<1>3. CASE GoSilent(r)
    BY <1>3, EndStep, FaultType, 0 \in Nat, 1 \in Nat DEF GoSilent, TypeOK, Over
<1>4. CASE ReceiverCrashes(r)
    BY <1>4, EndStep, FaultType, 1 \in Nat DEF ReceiverCrashes, TypeOK, Over
<1>5. ASSUME NEW m \in ToReceiver(r), OnEvicted(r, m) PROVE JoinInv'
    <2>1. session[r] = transfer => phase # "gathering" /\ r \notin participants
        BY <1>5 DEF OnEvicted, ToReceiver, BelongsTo, EvictionIsFinal
    <2> QED BY <1>5, <2>1, EndStep DEF OnEvicted, TypeOK, Over
<1> QED BY <1>1, <1>2, <1>3, <1>4, <1>5

\* A receiver begins to listen.
LEMMA StartStep ==
    ASSUME JoinInv, NEW r \in Receivers, Start(r)
    PROVE  JoinInv'
<1> USE DEF JoinInv
<1>1. /\ role' = [role EXCEPT ![r] = "listening"] /\ role[r] = "absent"
      /\ UNCHANGED <<senderVars, session, received, net, faults>>
    BY DEF Start
<1>2. TypeOK' /\ NobodySeenYet' /\ MembersJoinedThis'
    BY <1>1 DEF TypeOK, NobodySeenYet, MembersJoinedThis, senderVars
<1>3. HasTransfer' /\ SaidOfSession' /\ EvictionIsFinal'
    BY <1>1 DEF HasTransfer, SaidOfSession, EvictionIsFinal, senderVars, TypeOK
<1> QED BY <1>2, <1>3

\* A listener joins the transfer of the first Hello.
LEMMA ListenStep ==
    ASSUME JoinInv, NEW r \in Receivers, NEW m \in ToReceiver(r),
           NEW again \in BOOLEAN, Listen(r, m, again)
    PROVE  JoinInv'
<1> USE DEF JoinInv
<1> DEFINE join == Msg("join", m.transfer, r)
<1>1. /\ m \in Message /\ m.transfer \in Transfers /\ m.transfer <= transfer
      /\ session[r] = 0 /\ transfer \in Transfers /\ r \notin participants
      /\ \A n \in net : n.kind \in Up => n.receiver # r
    BY DEF ToReceiver, TypeOK, Message, Listen, HasTransfer, SaidOfSession,
           MembersJoinedThis, Transfers
<1>2. /\ join.kind = "join" /\ join.transfer = m.transfer /\ join.receiver = r
      /\ join \in Message
    BY <1>1, MsgFields DEF Up
<1>3. faults' \in 0 .. MaxFaults /\ UNCHANGED <<senderVars, received>>
    BY TakeFaults DEF Listen, TypeOK
<1>4. CASE m.kind = "hello"
    <2> HIDE DEF join
    <2>1. /\ role' = [role EXCEPT ![r] = "session"]
          /\ session' = [session EXCEPT ![r] = m.transfer]
          /\ \A n \in net' : n \in net \/ n = join
        BY <1>4, TakeNet DEF Listen, join
    <2>2. TypeOK'
        <3>1. session' \in [Receivers -> 0 .. transfer]
            BY <1>1, <2>1 DEF TypeOK, Transfers
        <3>2. received \subseteq {q \in Receivers : session'[q] # 0}
            BY <1>1, <2>1 DEF TypeOK, Transfers
        <3>3. net' \subseteq {n \in Message : n.transfer <= transfer}
            BY <1>1, <1>2, <2>1 DEF TypeOK
        <3> QED BY <1>3, <2>1, <3>1, <3>2, <3>3 DEF TypeOK, senderVars
    <2>3. NobodySeenYet' /\ MembersJoinedThis'
        BY <1>1, <1>3, <2>1
           DEF NobodySeenYet, MembersJoinedThis, senderVars, TypeOK
    <2>4. HasTransfer'
        BY <1>1, <2>1 DEF HasTransfer, TypeOK, Transfers
    <2>5. SaidOfSession'
        BY <1>1, <1>2, <2>1 DEF SaidOfSession, TypeOK, Message
    <2>6. EvictionIsFinal'
        BY <1>1, <1>2, <1>3, <2>1 DEF EvictionIsFinal, senderVars, TypeOK
    <2> QED BY <2>2, <2>3, <2>4, <2>5, <2>6
<1>5. CASE m.kind # "hello"
    <2>1. net' \subseteq net /\ UNCHANGED <<role, session>>
        BY <1>5, TakeNet DEF Listen
    <2> QED BY <1>3, <2>1
            DEF TypeOK, NobodySeenYet, HasTransfer, SaidOfSession,
                MembersJoinedThis, EvictionIsFinal, senderVars
<1> QED BY <1>4, <1>5

\* A session hears something, and answers a Hello while it has received nothing.
LEMMA ArrivalStep ==
    ASSUME JoinInv, NEW r \in Receivers, NEW m \in ToReceiver(r),
           NEW again \in BOOLEAN, OnArrival(r, m, again)
    PROVE  JoinInv'
<1> USE DEF JoinInv
<1>1. /\ session[r] \in Transfers /\ session[r] <= transfer
      /\ transfer \in Transfers
    BY SessionTransfer DEF OnArrival, TypeOK
<1>2. \A n \in net' : \/ n \in net
                      \/ /\ n.kind = "join" /\ n.transfer = session[r]
                         /\ n.receiver = r /\ n \in Message
    BY <1>1, TakeNet, MsgFields DEF OnArrival, Answer, Up
<1>3. faults' \in 0 .. MaxFaults /\ UNCHANGED <<senderVars, role, session>>
    BY TakeFaults DEF OnArrival, TypeOK
<1>4. received' \subseteq received \cup {r}
    BY DEF OnArrival
<1>5. TypeOK'
    <2>1. received' \subseteq {q \in Receivers : session[q] # 0}
        BY <1>1, <1>4 DEF TypeOK, Transfers
    <2>2. net' \subseteq {n \in Message : n.transfer <= transfer}
        BY <1>1, <1>2 DEF TypeOK
    <2> QED BY <1>3, <2>1, <2>2 DEF TypeOK, senderVars
<1>6. NobodySeenYet' /\ HasTransfer' /\ MembersJoinedThis'
    BY <1>3 DEF NobodySeenYet, HasTransfer, MembersJoinedThis, senderVars
<1>7. SaidOfSession' /\ EvictionIsFinal'
    BY <1>2, <1>3 DEF SaidOfSession, EvictionIsFinal, senderVars
<1> QED BY <1>5, <1>6, <1>7

\* A datagram is lost.
LEMMA LoseStep ==
    ASSUME JoinInv, NEW m \in net, Lose(m)
    PROVE  JoinInv'
<1> USE DEF JoinInv
<1>1. /\ net' \subseteq net /\ UNCHANGED <<senderVars, receiverVars>>
      /\ faults' \in 0 .. MaxFaults
    BY FaultType, 1 \in Nat DEF Lose, TypeOK
<1> QED BY <1>1, ShrinkStep DEF TypeOK, NobodySeenYet, senderVars

-----------------------------------------------------------------------------
(* The theorems.                                                            *)

LEMMA JoinInvInit == Init => JoinInv
<1> SUFFICES ASSUME Init PROVE JoinInv
    OBVIOUS
<1>1. TypeOK
    BY JoinAssumption DEF Init, TypeOK, Transfers, Message
<1>2. NobodySeenYet /\ HasTransfer /\ SaidOfSession
    BY DEF Init, NobodySeenYet, HasTransfer, SaidOfSession
<1>3. MembersJoinedThis /\ EvictionIsFinal
    BY DEF Init, MembersJoinedThis, EvictionIsFinal
<1> QED BY <1>1, <1>2, <1>3 DEF JoinInv

LEMMA JoinInvNext == JoinInv /\ [Next]_vars => JoinInv'
<1> SUFFICES ASSUME JoinInv, [Next]_vars PROVE JoinInv'
    OBVIOUS
<1>1. CASE GatherNext
    BY <1>1, HelloStep, ShrinkSteps, GatherReceiveStep DEF GatherNext
<1>2. CASE LoopNext
    BY <1>2, HelloStep, ShrinkSteps, ReapStep DEF LoopNext
<1>3. CASE SenderReturns \/ SendAgain
    BY <1>3, ShrinkSteps, SendAgainStep
<1>4. ASSUME NEW r \in Receivers, ReceiverNext(r) PROVE JoinInv'
    BY <1>4, StartStep, EndSteps, ListenStep, ArrivalStep DEF ReceiverNext
<1>5. ASSUME NEW m \in net, Lose(m) PROVE JoinInv'
    BY <1>5, LoseStep
<1>6. CASE UNCHANGED vars
    BY <1>6 DEF JoinInv, TypeOK, NobodySeenYet, HasTransfer, SaidOfSession,
                MembersJoinedThis, EvictionIsFinal, vars, senderVars,
                receiverVars
<1> QED BY <1>1, <1>2, <1>3, <1>4, <1>5, <1>6 DEF Next

\* The invariant holds in every behaviour.
THEOREM JoinInductive == Spec => []JoinInv
    BY JoinInvInit, JoinInvNext, PTL DEF Spec

\* Every variable keeps its type.
THEOREM JoinTypeCorrect == Spec => []TypeOK
    BY JoinInductive, PTL DEF JoinInv

\* Whoever is in the group has joined this very transfer (transport.rs:139).
THEOREM MembersAreOfThis == Spec => []MembersJoinedThis
    BY JoinInductive, PTL DEF JoinInv

\* An evicted receiver is no member, and stays none (group.rs:110).
THEOREM EvictionIsKept == Spec => []EvictedAreOut
<1>1. JoinInv => EvictedAreOut
    BY DEF JoinInv, EvictionIsFinal, EvictedAreOut
<1> QED BY <1>1, JoinInductive, PTL

\* Nobody enters the group once the loop has begun (sender.rs:334).
THEOREM GroupKeepsOut == Spec => GroupIsFixed
<1> DEFINE Fixed == phase # "gathering" /\ transfer' = transfer
                        => participants' \subseteq participants
<1>1. ASSUME JoinInv, Next PROVE Fixed
    <2>1. CASE GatherNext
        BY <2>1 DEF GatherNext, GatherHello, GatherDeadline, GatherReceive
    <2>2. CASE LoopNext
        BY <2>2 DEF LoopNext, LoopEmpty, SendShard, LoopHello, LoopReceive,
                    OnStats, Reap, Reaped, AfterMessage, Leaving, senderVars
    <2>3. CASE SendAgain
        BY <2>3 DEF SendAgain, JoinInv, TypeOK, Transfers
    <2>4. CASE SenderReturns \/ \E m \in net : Lose(m)
        BY <2>4 DEF SenderReturns, Lose, senderVars
    <2>5. ASSUME NEW r \in Receivers, ReceiverNext(r) PROVE Fixed
        BY <2>5 DEF ReceiverNext, Start, ListenDeadline, Finish, GoSilent,
                    ReceiverCrashes, Listen, OnArrival, OnEvicted, senderVars
    <2> QED BY <1>1, <2>1, <2>2, <2>3, <2>4, <2>5 DEF Next
<1>2. JoinInv /\ [Next]_vars => [Fixed]_vars
    BY <1>1
<1> QED BY <1>2, JoinInductive, PTL DEF Spec, GroupIsFixed

-----------------------------------------------------------------------------
(* Membership as if there were no network.                                  *)

\* The receivers that were told they are out.
Told == {r \in Receivers : role[r] = "evicted"}

\* Receivers' steps that choose nothing and tell nobody stutter.
LEMMA QuietReceiver ==
    ASSUME JoinInv, NEW r \in Receivers,
           \/ Start(r) \/ ListenDeadline(r) \/ Finish(r) \/ GoSilent(r)
           \/ ReceiverCrashes(r)
           \/ \E m \in ToReceiver(r), again \in BOOLEAN : OnArrival(r, m, again)
    PROVE  UNCHANGED Group!membershipVars
<1>1. UNCHANGED <<senderVars, session>>
    BY DEF Start, ListenDeadline, Finish, GoSilent, ReceiverCrashes, OnArrival,
           End, senderVars
<1>2. \/ UNCHANGED role
      \/ \E how \in {"listening", "timedOut", "finished", "silent", "crashed"} :
            role' = [role EXCEPT ![r] = how] /\ role[r] # "evicted"
    BY DEF Start, ListenDeadline, Finish, GoSilent, ReceiverCrashes, OnArrival,
           End, Open
<1>3. Told' = Told
    BY <1>2 DEF Told, JoinInv, TypeOK
<1> QED BY <1>1, <1>3 DEF Group!membershipVars, senderVars, Told

\* A listener chooses the run of the first Hello.
LEMMA ListenChooses ==
    ASSUME JoinInv, NEW r \in Receivers, NEW m \in ToReceiver(r),
           NEW again \in BOOLEAN, Listen(r, m, again)
    PROVE  Group!Choose(r) \/ UNCHANGED Group!membershipVars
<1>1. /\ session[r] = 0 /\ role[r] = "listening"
      /\ m.transfer \in 1 .. transfer
      /\ UNCHANGED <<senderVars, received>>
    BY DEF Listen, JoinInv, HasTransfer, ToReceiver, TypeOK, Message, Transfers
<1>2. CASE m.kind = "hello"
    <2>1. /\ role' = [role EXCEPT ![r] = "session"]
          /\ session' = [session EXCEPT ![r] = m.transfer]
        BY <1>2 DEF Listen
    <2>2. Told' = Told
        BY <1>1, <2>1 DEF Told, JoinInv, TypeOK
    <2> QED BY <1>1, <2>1, <2>2 DEF Group!Choose, senderVars, Told
<1>3. CASE m.kind # "hello"
    BY <1>1, <1>3 DEF Listen, Group!membershipVars, senderVars
<1> QED BY <1>2, <1>3

\* Whom an Evicted reaches is out of its group.
LEMMA EvictedTells ==
    ASSUME JoinInv, NEW r \in Receivers, NEW m \in ToReceiver(r), OnEvicted(r, m)
    PROVE  Group!Tell(r)
<1>1. /\ session[r] = transfer => phase # "gathering" /\ r \notin participants
      /\ session[r] # 0
    BY DEF OnEvicted, ToReceiver, BelongsTo, JoinInv, EvictionIsFinal, HasTransfer
<1>2. /\ UNCHANGED <<senderVars, session>>
      /\ role' = [role EXCEPT ![r] = "evicted"]
    BY DEF OnEvicted, End
<1>3. Told' = Told \cup {r}
    BY <1>2 DEF Told, JoinInv, TypeOK
<1> QED BY <1>1, <1>2, <1>3 DEF Group!Tell, senderVars, Told

\* While it is gathered, the group is some of those that chose this run.
LEMMA GatherSteps ==
    ASSUME JoinInv, JoinInv',
           GatherNext \/ (phase = "gathering" /\ SenderReturns)
    PROVE  Group!Gather
<1>1. phase = "gathering" /\ UNCHANGED <<transfer, receiverVars>>
    BY DEF GatherNext, GatherHello, GatherDeadline, GatherReceive, SenderReturns
<1>2. participants' \subseteq {r \in Receivers : session[r] = transfer}
    BY <1>1 DEF JoinInv, TypeOK, MembersJoinedThis, receiverVars
<1> QED BY <1>1, <1>2 DEF Group!Gather, receiverVars

\* Once it has begun, it only shrinks.
LEMMA LoopSteps ==
    ASSUME JoinInv, LoopNext \/ (phase # "gathering" /\ SenderReturns)
    PROVE  Group!Go
<1>1. /\ phase # "gathering" /\ phase' # "gathering"
      /\ participants' \subseteq participants
      /\ UNCHANGED <<transfer, receiverVars>>
    BY DEF LoopNext, LoopEmpty, SendShard, LoopHello, LoopReceive, OnStats,
           Reap, Reaped, AfterMessage, Leaving, senderVars, Looping,
           SenderReturns
<1> QED BY <1>1 DEF Group!Go, receiverVars

\* Sender and receivers agree on who belongs to a transfer as if they knew of
\* each other at once: whatever is late, lost, repeated or of an earlier run,
\* nobody enters a group that has begun, and who was told to be out is out.
THEOREM KeepsMembership == Spec => ImplementsMembership
<1>1. Init => Group!MembershipInit
    BY DEF Init, Group!MembershipInit
<1>2. ASSUME JoinInv, JoinInv', [Next]_vars
      PROVE  [Group!MembershipNext]_(Group!membershipVars)
    <2>1. CASE GatherNext
        BY <1>2, <2>1, GatherSteps DEF Group!MembershipNext
    <2>2. CASE LoopNext
        BY <1>2, <2>2, LoopSteps DEF Group!MembershipNext
    <2>3. CASE SenderReturns
        BY <1>2, <2>3, GatherSteps, LoopSteps DEF Group!MembershipNext
    <2>4. CASE SendAgain
        <3>1. Group!NextRun
            BY <2>4 DEF SendAgain, SenderUp, EmptyGroup, receiverVars,
                        Group!NextRun
        <3> QED BY <3>1 DEF Group!MembershipNext
    <2>5. ASSUME NEW r \in Receivers, ReceiverNext(r)
          PROVE  [Group!MembershipNext]_(Group!membershipVars)
        BY <1>2, <2>5, QuietReceiver, ListenChooses, EvictedTells
           DEF ReceiverNext, Group!MembershipNext
    <2>6. CASE \E m \in net : Lose(m)
        BY <2>6 DEF Lose, Group!membershipVars, senderVars, receiverVars
    <2>7. CASE UNCHANGED vars
        BY <2>7 DEF vars, Group!membershipVars, senderVars, receiverVars
    <2> QED BY <1>2, <2>1, <2>2, <2>3, <2>4, <2>5, <2>6, <2>7 DEF Next
<1> QED BY <1>1, <1>2, JoinInductive, PTL
        DEF Spec, ImplementsMembership, Group!MembershipSpec
=============================================================================
