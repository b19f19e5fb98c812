---------------------------- MODULE MC_SosConsole ----------------------------
(***************************************************************************)
(* Instances of SosConsole for TLC.                                        *)
(***************************************************************************)
EXTENDS SosConsole, TLC

Symmetry == Permutations(Readers) \cup Permutations(Writers)
=============================================================================
