---------------------------- MODULE MC_MyThreads ----------------------------
(***************************************************************************)
(* Instances of MyThreads for TLC.                                         *)
(***************************************************************************)
EXTENDS MyThreads

\* mt_sem_create(0), as in dphil_skeleton.c.
ZeroEach == [s \in Sems |-> 0]
=============================================================================
