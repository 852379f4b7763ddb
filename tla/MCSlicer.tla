------------------------------ MODULE MCSlicer ------------------------------
(* Slicer for the model checker.                                            *)
EXTENDS Slicer
=============================================================================
