---------------------------- MODULE MC_SosFiles ----------------------------
(***************************************************************************)
(* Instances of SosFiles for TLC.                                          *)
(***************************************************************************)
EXTENDS SosFiles, TLC

\* The processes other than the first are interchangeable.
Symmetry == Permutations(Procs \ {First}) \cup Permutations(Pipes)
=============================================================================
