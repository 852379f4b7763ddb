------------------------------ MODULE MCPacing ------------------------------
(* Instances of Pacing for TLC.                                             *)
EXTENDS Pacing, TLC

\* The receivers are told apart by nothing but their reports.
Symmetry == Permutations(Receivers)
=============================================================================
