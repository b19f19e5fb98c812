----------------------------- MODULE MC_SosPipe -----------------------------
(***************************************************************************)
(* Instances of SosPipe for TLC.                                           *)
(***************************************************************************)
EXTENDS SosPipe, TLC

Symmetry == Permutations(Procs)
=============================================================================
