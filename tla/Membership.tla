----------------------------- MODULE Membership -----------------------------
(***************************************************************************)
(* Who belongs to a transfer, as if sender and receivers knew of each other *)
(* at once: no datagrams, no timers, nothing late and nothing lost.  Join   *)
(* implements it, over runs of the sender whose messages mix.               *)
(***************************************************************************)
EXTENDS Naturals

CONSTANT Receivers

VARIABLES
    run,      \* the sender's run
    closed,   \* its group has begun, and is complete
    members,
    chosen,   \* the run each receiver has chosen; 0 if none yet
    told      \* the receivers that were told they are out

membershipVars == <<run, closed, members, chosen, told>>

MembershipInit ==
    /\ run = 1 /\ closed = FALSE /\ members = {}
    /\ chosen = [r \in Receivers |-> 0] /\ told = {}

\* A receiver chooses one run there has been, once.
Choose(r) ==
    /\ chosen[r] = 0
    /\ \E t \in 1 .. run : chosen' = [chosen EXCEPT ![r] = t]
    /\ UNCHANGED <<run, closed, members, told>>

\* While the group is gathered, those who chose this run come and go.
Gather ==
    /\ ~closed
    /\ members' \subseteq {r \in Receivers : chosen[r] = run}
    /\ closed' \in BOOLEAN
    /\ UNCHANGED <<run, chosen, told>>

\* After that they only go.
Go ==
    /\ closed /\ members' \subseteq members
    /\ UNCHANGED <<run, closed, chosen, told>>

\* Whoever is told so by its run is out of it.
Tell(r) ==
    /\ chosen[r] # 0
    /\ chosen[r] = run => closed /\ r \notin members
    /\ told' = told \cup {r}
    /\ UNCHANGED <<run, closed, members, chosen>>

\* The next run starts with nobody.
NextRun ==
    /\ closed
    /\ run' = run + 1 /\ closed' = FALSE /\ members' = {}
    /\ UNCHANGED <<chosen, told>>

MembershipNext ==
    \/ Gather \/ Go \/ NextRun
    \/ \E r \in Receivers : Choose(r) \/ Tell(r)

MembershipSpec == MembershipInit /\ [][MembershipNext]_membershipVars
=============================================================================
