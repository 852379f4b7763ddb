----------------------------- MODULE MCTransfer -----------------------------
(* Instances of Transfer for TLC.                                           *)
EXTENDS Transfer, TLC

Symmetry == Permutations(Receivers)

\* No strangers: every receiver that listens has joined.
InitJoined == Init /\ joined = Receivers

AllJoined == InitJoined /\ [][Next]_vars /\ Fairness
=============================================================================
