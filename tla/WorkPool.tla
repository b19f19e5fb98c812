------------------------------ MODULE WorkPool ------------------------------
(***************************************************************************)
(* What a crew of workers over a list of jobs promises: each job is taken  *)
(* by one worker, once, and a worker finishes what it took before it takes *)
(* again.                                                                  *)
(***************************************************************************)
CONSTANTS Workers, Jobs

VARIABLES todo,   \* the jobs nobody has taken
          hold,   \* the job, if any, that each worker is at
          done    \* the jobs finished
vars == <<todo, hold, done>>

Init == todo = Jobs /\ hold = [w \in Workers |-> {}] /\ done = {}

Take(w) == /\ hold[w] = {}
           /\ \E j \in todo : /\ todo' = todo \ {j}
                              /\ hold' = [hold EXCEPT ![w] = {j}]
           /\ UNCHANGED done

Finish(w) == /\ hold[w] # {}
             /\ done' = done \cup hold[w]
             /\ hold' = [hold EXCEPT ![w] = {}]
             /\ UNCHANGED todo

Next == \E w \in Workers : Take(w) \/ Finish(w)

Spec == Init /\ [][Next]_vars

-----------------------------------------------------------------------------
(* What follows from the promise alone.                                    *)

\* No job is lost: each is still to be taken, held or finished.
Complete == Jobs \subseteq todo \cup done \cup UNION {hold[w] : w \in Workers}

\* No job is done twice: it is in one of the three, and one worker has it.
Exclusive ==
  /\ todo \cap done = {}
  /\ \A w \in Workers : hold[w] \cap (todo \cup done) = {}
  /\ \A w, v \in Workers : w # v => hold[w] \cap hold[v] = {}

Partition == /\ hold \in [Workers -> SUBSET Jobs] /\ todo \subseteq Jobs
             /\ Complete /\ Exclusive
=============================================================================
