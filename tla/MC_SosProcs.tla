---------------------------- MODULE MC_SosProcs ----------------------------
(***************************************************************************)
(* Instances of SosProcs for TLC.                                          *)
(***************************************************************************)
EXTENDS SosProcs, TLC

\* The PCBs of forked processes are interchangeable.
Symmetry == Permutations(Procs \ {First})
=============================================================================
