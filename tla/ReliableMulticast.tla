-------------------------- MODULE ReliableMulticast --------------------------
(***************************************************************************)
(* What a transfer promises, with nothing said of windows, Naks, Stats or  *)
(* the network: each receiver writes the slices of the stream in order and *)
(* stops either with all of them or with an error, and the sender reports  *)
(* success only if every participant that was not dropped has them all.    *)
(* Its two failures are as honest: it says that nobody is left only when   *)
(* the same holds, and of the receivers it counts complete as it gives up  *)
(* each has the stream.                                                    *)
(***************************************************************************)
EXTENDS Naturals, FiniteSetTheorems, TLAPS

CONSTANTS Receivers, SliceCount

VARIABLES
    participants,  \* receivers the sender admitted
    dropped,       \* participants the sender gave up on
    written,       \* slices each receiver has written
    phase,         \* "running", "finished" or "failed"
    result,        \* "sending" or what the sender returned
    complete       \* receivers the sender counts complete as it gives up

absVars == <<participants, dropped, written, phase, result, complete>>

\* The participants that have the whole stream.
HaveAll == {r \in participants : written[r] = SliceCount}

AbsInit ==
    /\ participants \in SUBSET Receivers \ {{}} /\ dropped = {}
    /\ written = [r \in Receivers |-> 0]
    /\ phase = [r \in Receivers |-> "running"]
    /\ result = "sending" /\ complete = 0

\* A receiver writes any number of the slices that follow.
WriteMore(r) ==
    /\ phase[r] = "running"
    /\ \E n \in written[r] .. SliceCount : written' = [written EXCEPT ![r] = n]
    /\ UNCHANGED <<participants, dropped, phase, result, complete>>

StopFinished(r) ==
    /\ phase[r] = "running" /\ written[r] = SliceCount
    /\ phase' = [phase EXCEPT ![r] = "finished"]
    /\ UNCHANGED <<participants, dropped, written, result, complete>>

StopFailed(r) ==
    /\ phase[r] = "running"
    /\ phase' = [phase EXCEPT ![r] = "failed"]
    /\ UNCHANGED <<participants, dropped, written, result, complete>>

Drop(r) ==
    /\ result = "sending" /\ r \in participants
    /\ dropped' = dropped \cup {r}
    /\ UNCHANGED <<participants, written, phase, result, complete>>

\* Everyone it did not drop has the stream, whether they are still there or
\* took their leave before the sender came round to its test.
Return ==
    /\ result = "sending" /\ participants \ dropped \subseteq HaveAll
    /\ result' \in {"ok", "noParticipants"}
    /\ UNCHANGED <<participants, dropped, written, phase, complete>>

GiveUp ==
    /\ result = "sending" /\ result' = "incomplete"
    /\ complete' \in 0 .. Cardinality(HaveAll \ dropped)
    /\ UNCHANGED <<participants, dropped, written, phase>>

AbsNext ==
    \/ Return \/ GiveUp
    \/ \E r \in Receivers :
          WriteMore(r) \/ StopFinished(r) \/ StopFailed(r) \/ Drop(r)

AbsSpec == AbsInit /\ [][AbsNext]_absVars

-----------------------------------------------------------------------------
(* What the promise comes to.                                               *)

AbsTypeOK ==
    /\ participants \subseteq Receivers /\ dropped \subseteq participants
    /\ written \in [Receivers -> 0 .. SliceCount]
    /\ phase \in [Receivers -> {"running", "finished", "failed"}]
    /\ result \in {"sending", "ok", "noParticipants", "incomplete"}
    /\ complete \in Nat

\* Whatever the sender returns is true of the participants it kept: Ok and
\* NoParticipants alike mean that they have everything, and of those that
\* TransferIncomplete counts so many do.
ResultIsHonest ==
    /\ result \in {"ok", "noParticipants"} => participants \ dropped \subseteq HaveAll
    /\ result = "incomplete" => complete <= Cardinality(HaveAll \ dropped)

\* A receiver that has finished has the whole stream.
FinishedMeansAll ==
    \A r \in Receivers : phase[r] = "finished" => written[r] = SliceCount

\* What was returned or written is never taken back, and nobody who has
\* stopped writes on.
NothingIsTakenBack ==
    [][/\ \A r \in Receivers :
            /\ written'[r] >= written[r]
            /\ phase[r] # "running" =>
                  phase'[r] = phase[r] /\ written'[r] = written[r]
       /\ result # "sending" => UNCHANGED <<result, complete, dropped>>]_absVars

-----------------------------------------------------------------------------
(* Proofs, for every finite set of receivers and every length of a stream.  *)

AbsInv == AbsTypeOK /\ ResultIsHonest /\ FinishedMeansAll

\* Those who have everything are finitely many participants, and they stay.
LEMMA HaveAllGrows ==
    ASSUME IsFiniteSet(Receivers), SliceCount \in Nat, AbsTypeOK, AbsTypeOK',
           UNCHANGED participants,
           \A r \in Receivers : written'[r] >= written[r]
    PROVE  /\ HaveAll \subseteq HaveAll'
           /\ IsFiniteSet(HaveAll' \ dropped)
           /\ Cardinality(HaveAll \ dropped) <= Cardinality(HaveAll' \ dropped)
<1>1. HaveAll \subseteq HaveAll'
    BY DEF HaveAll, AbsTypeOK
<1>2. IsFiniteSet(HaveAll' \ dropped)
    <2>1. HaveAll' \ dropped \subseteq Receivers
        BY DEF HaveAll, AbsTypeOK
    <2> QED BY <2>1, FS_Subset
<1>3. Cardinality(HaveAll \ dropped) <= Cardinality(HaveAll' \ dropped)
    <2>1. HaveAll \ dropped \subseteq HaveAll' \ dropped
        BY <1>1
    <2> QED BY <1>2, <2>1, FS_Subset
<1> QED BY <1>1, <1>2, <1>3

\* What a step does to each variable.
LEMMA AbsStep ==
    ASSUME IsFiniteSet(Receivers), SliceCount \in Nat, AbsInv,
           [AbsNext]_absVars
    PROVE  /\ AbsTypeOK' /\ UNCHANGED participants
           /\ \A r \in Receivers :
                  /\ written'[r] >= written[r]
                  /\ phase[r] # "running" =>
                        phase'[r] = phase[r] /\ written'[r] = written[r]
           /\ result # "sending" => UNCHANGED <<result, complete, dropped>>
           /\ FinishedMeansAll'
<1> USE DEF AbsInv, AbsTypeOK, FinishedMeansAll
<1>1. CASE UNCHANGED absVars
    BY <1>1 DEF absVars
<1>2. CASE Return
    BY <1>2 DEF Return
<1>3. CASE GiveUp
    <2>1. IsFiniteSet(HaveAll \ dropped)
        <3>1. HaveAll \ dropped \subseteq Receivers
            BY DEF HaveAll
        <3> QED BY <3>1, FS_Subset
    <2>2. complete' \in Nat
        BY <1>3, <2>1, FS_CardinalityType DEF GiveUp
    <2> QED BY <1>3, <2>2 DEF GiveUp
<1>4. ASSUME NEW r \in Receivers, WriteMore(r)
      PROVE  /\ \E n \in written[r] .. SliceCount :
                    /\ n \in 0 .. SliceCount /\ n >= written[r]
                    /\ written' = [written EXCEPT ![r] = n]
             /\ phase[r] = "running"
             /\ UNCHANGED <<participants, dropped, phase, result, complete>>
    <2>1. written[r] \in 0 .. SliceCount
        OBVIOUS
    <2>2. \A n \in written[r] .. SliceCount : n \in 0 .. SliceCount /\ n >= written[r]
        BY <2>1
    <2> QED BY <1>4, <2>2 DEF WriteMore
<1>5. CASE \E r \in Receivers : WriteMore(r)
    BY <1>4, <1>5
<1>6. CASE \E r \in Receivers : StopFinished(r) \/ StopFailed(r)
    BY <1>6 DEF StopFinished, StopFailed
<1>7. CASE \E r \in Receivers : Drop(r)
    BY <1>7 DEF Drop
<1> QED BY <1>1, <1>2, <1>3, <1>5, <1>6, <1>7 DEF AbsNext

\* A result once given stays true: what it is about only grows.
LEMMA HonestStep ==
    ASSUME IsFiniteSet(Receivers), SliceCount \in Nat, AbsInv,
           [AbsNext]_absVars
    PROVE  ResultIsHonest'
<1>1. /\ HaveAll \subseteq HaveAll' /\ UNCHANGED participants
      /\ Cardinality(HaveAll \ dropped) <= Cardinality(HaveAll' \ dropped)
      /\ Cardinality(HaveAll \ dropped) \in Nat
      /\ Cardinality(HaveAll' \ dropped) \in Nat
    <2>1. IsFiniteSet(HaveAll \ dropped)
        <3>1. HaveAll \ dropped \subseteq Receivers
            BY DEF HaveAll, AbsInv, AbsTypeOK
        <3> QED BY <3>1, FS_Subset
    <2> QED BY <2>1, AbsStep, HaveAllGrows, FS_CardinalityType DEF AbsInv
<1>2. CASE result # "sending"
    <2>1. UNCHANGED <<result, complete, dropped>> /\ complete \in Nat
        BY <1>2, AbsStep DEF AbsInv, AbsTypeOK
    <2> QED BY <1>1, <2>1 DEF ResultIsHonest, AbsInv
<1>3. CASE Return
    <2>1. UNCHANGED <<dropped, complete>> /\ participants \ dropped \subseteq HaveAll
          /\ result' \in {"ok", "noParticipants"}
        BY <1>3 DEF Return
    <2> QED BY <1>1, <2>1 DEF ResultIsHonest
<1>4. CASE GiveUp
    <2>1. UNCHANGED dropped /\ result' = "incomplete"
          /\ complete' \in 0 .. Cardinality(HaveAll \ dropped)
        BY <1>4 DEF GiveUp
    <2> QED BY <1>1, <2>1 DEF ResultIsHonest
<1>5. CASE result = "sending" /\ ~Return /\ ~GiveUp
    <2>1. result' = "sending"
        BY <1>5 DEF AbsNext, WriteMore, StopFinished, StopFailed, Drop, absVars
    <2> QED BY <2>1 DEF ResultIsHonest
<1> QED BY <1>2, <1>3, <1>4, <1>5

\* The parts of the promise hold together at all times.
THEOREM AbsInductive ==
    ASSUME IsFiniteSet(Receivers), SliceCount \in Nat
    PROVE  AbsSpec => []AbsInv
<1>1. AbsInit => AbsInv
    BY DEF AbsInit, AbsInv, AbsTypeOK, ResultIsHonest, FinishedMeansAll
<1>2. AbsInv /\ [AbsNext]_absVars => AbsInv'
    BY AbsStep, HonestStep DEF AbsInv
<1> QED BY <1>1, <1>2, PTL DEF AbsSpec

\* Whatever the sender returns is true of the receivers (ResultIsHonest).
THEOREM Honest ==
    ASSUME IsFiniteSet(Receivers), SliceCount \in Nat
    PROVE  AbsSpec => []ResultIsHonest
<1>1. AbsInv => ResultIsHonest
    BY DEF AbsInv
<1> QED BY <1>1, AbsInductive, PTL

\* A receiver that has finished has everything (FinishedMeansAll).
THEOREM FinishedHasAll ==
    ASSUME IsFiniteSet(Receivers), SliceCount \in Nat
    PROVE  AbsSpec => []FinishedMeansAll
<1>1. AbsInv => FinishedMeansAll
    BY DEF AbsInv
<1> QED BY <1>1, AbsInductive, PTL

\* Results and blocks are final (NothingIsTakenBack).
THEOREM Final ==
    ASSUME IsFiniteSet(Receivers), SliceCount \in Nat
    PROVE  AbsSpec => NothingIsTakenBack
<1>1. AbsInv /\ [AbsNext]_absVars =>
          [/\ \A r \in Receivers :
                 /\ written'[r] >= written[r]
                 /\ phase[r] # "running" =>
                       phase'[r] = phase[r] /\ written'[r] = written[r]
           /\ result # "sending" =>
                 UNCHANGED <<result, complete, dropped>>]_absVars
    BY AbsStep
<1> QED BY <1>1, AbsInductive, PTL DEF AbsSpec, NothingIsTakenBack
=============================================================================
