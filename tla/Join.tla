-------------------------------- MODULE Join --------------------------------
(***************************************************************************)
(* Who is in a transfer: how send_stream gathers its group, how a receiver  *)
(* finds a transfer and answers for it, and how those who are gone leave    *)
(* the group, over runs of senders and receivers that come and go.          *)
(*                                                                         *)
(* A sender's run has a transfer id of its own; a later run may start while *)
(* datagrams of an earlier one are still on their way.  A receiver's run    *)
(* has a receiver id of its own and joins at most one transfer.  The data   *)
(* phase is Transfer.tla's: here a shard only tells a session that the      *)
(* stream has begun, a session that has begun may finish at any time, and   *)
(* so may the sender's loop return.                                         *)
(***************************************************************************)
EXTENDS Integers, FiniteSets

CONSTANTS
    Receivers,      \* receiver ids: one run of a receiver each
    MinReceivers,   \* min_receivers
    MaxTransfers,   \* bound: runs of the sender
    MaxFaults       \* bound: datagrams lost or duplicated, timers that run out
                    \* although the peer is there, processes killed

ASSUME JoinAssumption ==
    /\ IsFiniteSet(Receivers) /\ MinReceivers \in Nat
    /\ MaxTransfers \in Nat \ {0} /\ MaxFaults \in Nat

Transfers == 1 .. MaxTransfers

Down == {"hello", "shard", "evicted"}
Up == {"join", "leave"}
Message == [kind : Down \cup Up, transfer : Transfers, receiver : Receivers]

Msg(kind, t, r) == [kind |-> kind, transfer |-> t, receiver |-> r]

VARIABLES
    \* The sender.
    transfer,       \* transfer_id of the latest run of send_stream
    phase,          \* "gathering", "looping", or how the run ended
    participants,   \* the members of Group
    seen,           \* those whose last_seen is Some
    \* The receivers.
    role,           \* "absent", "listening", "session", or how the run ended
    session,        \* the transfer a receiver joined; 0 if none
    received,       \* the sessions with received > 0
    \* The network: datagrams on their way, each to or from one receiver.
    net,
    \* Bound.
    faults

senderVars == <<transfer, phase, participants, seen>>
receiverVars == <<role, session, received>>
vars == <<senderVars, receiverVars, net, faults>>

Open == {r \in Receivers : role[r] \in {"listening", "session"}}

Init ==
    /\ transfer = 1 /\ phase = "gathering" /\ participants = {} /\ seen = {}
    /\ role = [r \in Receivers |-> "absent"]
    /\ session = [r \in Receivers |-> 0] /\ received = {}
    /\ net = {}
    /\ faults = 0

-----------------------------------------------------------------------------
(* The network.                                                             *)

\* What send_to_group puts on its way: a datagram to every socket that has
\* joined the multicast group.  A session that has received has no more use
\* for a Hello or a shard: nothing is sent to it.
ToGroup(kind) == {Msg(kind, transfer, r) : r \in Open \ received}

\* n faults happen.
Fault(n) == faults + n <= MaxFaults /\ faults' = faults + n

\* m is taken off the network, or a second copy of it stays behind.
Take(m, sent, again) ==
    /\ net' = (IF again THEN net ELSE net \ {m}) \cup sent
    /\ Fault(IF again THEN 1 ELSE 0)

Lose(m) ==
    /\ Fault(1)
    /\ net' = net \ {m}
    /\ UNCHANGED <<senderVars, receiverVars>>

\* Variant with a fault: what arrives is taken to be of this transfer.
TakenToBelong(m, t) == m.transfer \in Transfers /\ t \in Transfers

\* recv_control and recv_batch hand on what bears the transfer's id and drop
\* the rest.
BelongsTo(m, t) == m.transfer = t

-----------------------------------------------------------------------------
(* The sender: gather_participants.                                         *)

\* Variant with a fault: nobody counts as seen until a report arrives.
MarkNobody(p) == IF p = {} THEN {} ELSE seen

MarkAllSeen(p) == p

\* The loop of gather_participants ends with the group p: send_stream gives up
\* if it is empty, and enters its loop if not.
Begin(p) ==
    IF p = {} THEN phase' = "noParticipants" /\ UNCHANGED seen
              ELSE phase' = "looping" /\ seen' = MarkAllSeen(p)

\* The test at the end of each turn of that loop.
BeginIfEnough(p) ==
    IF Cardinality(p) >= MinReceivers THEN Begin(p) ELSE UNCHANGED <<phase, seen>>

GatherHello ==
    /\ phase = "gathering"
    /\ net' = net \cup ToGroup("hello")
    /\ BeginIfEnough(participants)
    /\ UNCHANGED <<transfer, participants, receiverVars, faults>>

Joining(m) == participants \cup {m.receiver}
Leaving(m) == participants \ {m.receiver}

GatherReceive(m, again) ==
    /\ phase = "gathering" /\ Take(m, {}, again)
    /\ IF BelongsTo(m, transfer)
       THEN /\ \/ m.kind = "join" /\ participants' = Joining(m)
               \/ m.kind = "leave" /\ participants' = Leaving(m)
            /\ BeginIfEnough(participants')
       ELSE UNCHANGED <<phase, participants, seen>>
    /\ UNCHANGED <<transfer, receiverVars>>

\* Nobody who waits for this transfer is still outside its group.
EverybodyIsIn ==
    \A r \in Receivers \ participants :
        /\ role[r] # "listening"
        /\ role[r] = "session" => session[r] # transfer

GatherDeadline ==
    /\ phase = "gathering"
    /\ Fault(IF EverybodyIsIn THEN 0 ELSE 1)
    /\ Begin(participants)
    /\ UNCHANGED <<transfer, participants, receiverVars, net>>

-----------------------------------------------------------------------------
(* The sender: the loop of send_stream, as far as the group goes.           *)

\* The loop goes on past the test at its top.
Looping == phase = "looping" /\ participants # {}

LoopEmpty ==
    /\ phase = "looping" /\ participants = {}
    /\ phase' = "noParticipants"
    /\ UNCHANGED <<transfer, participants, seen, receiverVars, net, faults>>

SendShard ==
    /\ Looping
    /\ net' = net \cup ToGroup("shard")
    /\ UNCHANGED <<senderVars, receiverVars, faults>>

\* A tick in which nothing was sent.
LoopHello ==
    /\ Looping
    /\ net' = net \cup ToGroup("hello")
    /\ UNCHANGED <<senderVars, receiverVars, faults>>

\* Variant with a fault: the loop takes a Join as gather_participants does.
LateJoin(m) == IF m.kind = "leave" THEN Leaving(m) ELSE Joining(m)

\* What a message does to the group: Join is not matched in the loop.
AfterMessage(m) == IF m.kind = "leave" THEN Leaving(m) ELSE participants

LoopReceive(m, again) ==
    /\ Looping /\ Take(m, {}, again)
    /\ IF BelongsTo(m, transfer)
       THEN /\ participants' = AfterMessage(m)
            /\ seen' = seen \cap participants'
       ELSE UNCHANGED <<participants, seen>>
    /\ UNCHANGED <<transfer, phase, receiverVars>>

\* A report of r arrives; what else it says is in Transfer.tla.  A report
\* that is lost changes nothing here.
OnStats(r) ==
    /\ Looping /\ role[r] = "session" /\ session[r] = transfer
    /\ seen' = seen \cup (participants \cap {r})
    /\ UNCHANGED <<transfer, phase, participants, receiverVars, net, faults>>

\* r's session reports no more.
Quiet(r) == ~(role[r] = "session" /\ session[r] = transfer)

\* Variant with a fault: those reaped stay in the group.
ReapedStay(gone) == IF gone = {} THEN {} ELSE participants

Reaped(gone) == participants \ gone

\* The tick takes out those not heard of for SILENCE_TIMEOUT, and says so.
Reap(gone) ==
    /\ Looping
    /\ gone # {} /\ gone \subseteq participants \cap seen
    /\ Fault(Cardinality({r \in gone : ~Quiet(r)}))
    /\ participants' = Reaped(gone) /\ seen' = seen \cap participants'
    /\ net' = net \cup {Msg("evicted", transfer, r) : r \in gone \cap Open}
    /\ UNCHANGED <<transfer, phase, receiverVars>>

-----------------------------------------------------------------------------
(* The sender's process.                                                    *)

SenderUp == phase \in {"gathering", "looping"}

\* The run ends: all complete, the drain deadline, an error of the socket, or
\* the process is killed.
SenderReturns ==
    /\ phase = "gathering" \/ Looping
    /\ phase' = "returned"
    /\ UNCHANGED <<transfer, participants, seen, receiverVars, net, faults>>

\* Variant with a fault: what was seen of the last group is kept.
MembersForgotten == participants' = {} /\ UNCHANGED seen

\* Group::default().
EmptyGroup == participants' = {} /\ seen' = {}

\* Another run: a new id and an empty group.
SendAgain ==
    /\ ~SenderUp /\ transfer < MaxTransfers
    /\ transfer' = transfer + 1 /\ phase' = "gathering"
    /\ EmptyGroup
    /\ UNCHANGED <<receiverVars, net, faults>>

-----------------------------------------------------------------------------
(* A receiver: join_session, then Session::run.                             *)

ToReceiver(r) == {m \in net : m.receiver = r /\ m.kind \in Down}

\* The run of r ends; its socket is closed and what was said stays said.
End(r, how, said) ==
    /\ role' = [role EXCEPT ![r] = how]
    /\ net' = (net \ ToReceiver(r)) \cup said
    /\ UNCHANGED <<session, received>>

Start(r) ==
    /\ role[r] = "absent" /\ role' = [role EXCEPT ![r] = "listening"]
    /\ UNCHANGED <<senderVars, session, received, net, faults>>

\* recv_control(None): the first Hello of any transfer decides.
Listen(r, m, again) ==
    /\ role[r] = "listening"
    /\ IF m.kind = "hello"
       THEN /\ role' = [role EXCEPT ![r] = "session"]
            /\ session' = [session EXCEPT ![r] = m.transfer]
            /\ Take(m, {Msg("join", m.transfer, r)}, again)
       ELSE Take(m, {}, again) /\ UNCHANGED <<role, session>>
    /\ UNCHANGED <<senderVars, received>>

\* No Hello is to be expected.
NoHello(r) == phase # "gathering" /\ \A m \in ToReceiver(r) : m.kind # "hello"

ListenDeadline(r) ==
    /\ role[r] = "listening"
    /\ Fault(IF NoHello(r) THEN 0 ELSE 1)
    /\ End(r, "timedOut", {})
    /\ UNCHANGED senderVars

\* Variant with a fault: the Join of join_session is the only one.
AnswerOnce(r, m) == {}

\* A session that has received nothing yet answers every Hello.
Answer(r, m) ==
    IF m.kind = "hello" /\ r \notin received THEN {Msg("join", session[r], r)}
                                             ELSE {}

OnArrival(r, m, again) ==
    /\ role[r] = "session"
    /\ IF BelongsTo(m, session[r])
       THEN /\ Take(m, Answer(r, m), again)
            /\ received' = IF m.kind = "shard" THEN received \cup {r}
                                               ELSE received
       ELSE Take(m, {}, again) /\ UNCHANGED received
    /\ m.kind # "evicted" \/ ~BelongsTo(m, session[r])
    /\ UNCHANGED <<senderVars, role, session>>

OnEvicted(r, m) ==
    /\ role[r] = "session"
    /\ m.kind = "evicted" /\ BelongsTo(m, session[r])
    /\ End(r, "evicted", {})
    /\ UNCHANGED <<senderVars, faults>>

\* The stream is complete: the session takes its leave.
Finish(r) ==
    /\ role[r] = "session" /\ r \in received
    /\ End(r, "finished", {Msg("leave", session[r], r)})
    /\ UNCHANGED <<senderVars, faults>>

\* Variant with a fault: silence counts only once the stream has begun.
StrandedOnceBegun(r) ==
    /\ r \in received /\ ~(SenderUp /\ transfer = session[r])
    /\ \A m \in ToReceiver(r) : ~BelongsTo(m, session[r])

\* The sender of r's transfer is gone and nothing of it is on its way.
Stranded(r) ==
    /\ ~(SenderUp /\ transfer = session[r])
    /\ \A m \in ToReceiver(r) : ~BelongsTo(m, session[r])

\* No datagram of the transfer for SILENCE_TIMEOUT.
GoSilent(r) ==
    /\ role[r] = "session"
    /\ Fault(IF Stranded(r) THEN 0 ELSE 1)
    /\ End(r, "silent", {})
    /\ UNCHANGED senderVars

ReceiverCrashes(r) ==
    /\ r \in Open /\ Fault(1)
    /\ End(r, "crashed", {})
    /\ UNCHANGED senderVars

-----------------------------------------------------------------------------
UpMessages == {m \in net : m.kind \in Up}

GatherNext ==
    \/ GatherHello \/ GatherDeadline
    \/ \E m \in UpMessages, again \in BOOLEAN : GatherReceive(m, again)

LoopNext ==
    \/ LoopEmpty \/ SendShard \/ LoopHello
    \/ \E gone \in SUBSET Receivers : Reap(gone)
    \/ \E m \in UpMessages, again \in BOOLEAN : LoopReceive(m, again)
    \/ \E r \in Receivers : OnStats(r)

ReceiverNext(r) ==
    \/ Start(r) \/ ListenDeadline(r) \/ Finish(r)
    \/ GoSilent(r) \/ ReceiverCrashes(r)
    \/ \E m \in ToReceiver(r), again \in BOOLEAN :
          Listen(r, m, again) \/ OnArrival(r, m, again)
    \/ \E m \in ToReceiver(r) : OnEvicted(r, m)

Next ==
    \/ GatherNext \/ LoopNext \/ SenderReturns \/ SendAgain
    \/ \E r \in Receivers : ReceiverNext(r)
    \/ \E m \in net : Lose(m)

Spec == Init /\ [][Next]_vars

\* What waits on a socket is read, intervals tick, and a timer runs out once
\* what it waits for cannot come any more.
FairSpec ==
    /\ Spec
    /\ WF_vars(GatherHello) /\ WF_vars(LoopEmpty)
    /\ WF_vars(EverybodyIsIn /\ GatherDeadline)
    /\ \A r \in Receivers :
        /\ WF_vars(\E m \in UpMessages :
                      /\ m.receiver = r
                      /\ GatherReceive(m, FALSE) \/ LoopReceive(m, FALSE))
        /\ \A t \in Transfers :
            WF_vars(\E m \in ToReceiver(r) :
                      /\ m.transfer = t
                      /\ \/ Listen(r, m, FALSE) \/ OnEvicted(r, m)
                         \/ OnArrival(r, m, FALSE))
        /\ WF_vars(NoHello(r) /\ ListenDeadline(r))
        /\ WF_vars(Stranded(r) /\ GoSilent(r))
        /\ WF_vars(Reap({q \in {r} : Quiet(q)}))

-----------------------------------------------------------------------------
Ended == {"noParticipants", "returned"}
Over == {"finished", "timedOut", "silent", "evicted", "crashed"}

\* Types, and what goes with them: a session has its transfer, only members
\* are seen, and no datagram comes from a run that has not begun.
TypeOK ==
    /\ transfer \in Transfers /\ phase \in {"gathering", "looping"} \cup Ended
    /\ participants \subseteq Receivers /\ seen \subseteq participants
    /\ role \in [Receivers -> {"absent", "listening", "session"} \cup Over]
    /\ session \in [Receivers -> 0 .. transfer]
    /\ received \subseteq {r \in Receivers : session[r] # 0}
    /\ net \subseteq {m \in Message : m.transfer <= transfer}
    /\ faults \in 0 .. MaxFaults

\* Whoever is in the group has joined this very transfer, even when Joins of
\* an earlier run of the sender arrive late or twice (transport.rs:139).
MembersJoinedThis == \A r \in participants : session[r] = transfer

\* Who is out is out: a receiver that was told it is evicted is no member,
\* and no Join still on its way makes it one again.
EvictedAreOut ==
    \A r \in Receivers :
        role[r] = "evicted" /\ session[r] = transfer => r \notin participants

\* Once the loop has begun nobody enters the group of that transfer: the
\* window may have dropped slices a newcomer would need.
GroupIsFixed ==
    [][phase # "gathering" /\ transfer' = transfer
         => participants' \subseteq participants]_vars

\* Membership is as if there were no network: whatever Joins, Leaves and evictions
\* of this and of earlier runs are late, lost or repeated, receivers enter a
\* group only while it is gathered, having chosen that very run, and who is out
\* of a group that has begun, or was told to be out, is out of it for good.
Group == INSTANCE Membership
    WITH run <- transfer, closed <- (phase # "gathering"),
         members <- participants, chosen <- session,
         told <- {r \in Receivers : role[r] = "evicted"}
ImplementsMembership == Group!MembershipSpec

\* A session that waits while its sender gathers becomes a member, though its
\* Join was lost, unless gathering ends or the session does.
EveryoneIsGathered ==
    \A r \in Receivers :
        role[r] = "session" /\ session[r] = transfer /\ phase = "gathering"
            ~> phase # "gathering" \/ r \in participants \/ role[r] \in Over

\* A member whose run has ended leaves the group, also one that died before
\* it sent a single report.
GhostsAreReaped ==
    \A r \in Receivers :
        role[r] \in Over /\ r \in participants /\ phase = "looping"
            ~> r \notin participants \/ phase # "looping"

\* A session whose sender has gone, or that a stale Hello led to a transfer
\* long over, gives up, whatever later runs of the sender say meanwhile.
StrandedGiveUp ==
    \A r \in Receivers :
        role[r] = "session" /\ ~(SenderUp /\ transfer = session[r])
            ~> role[r] \in Over
=============================================================================
