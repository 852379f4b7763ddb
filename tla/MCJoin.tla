------------------------------- MODULE MCJoin -------------------------------
(* Instances of Join for TLC.                                               *)
EXTENDS Join
=============================================================================
