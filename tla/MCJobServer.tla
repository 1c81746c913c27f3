---------------------------- MODULE MCJobServer -----------------------------
(* Constants of JobServer for TLC.                                         *)
EXTENDS JobServer, TLC

Symmetry == Permutations(Jobs) \cup Permutations(Slots)
=============================================================================
