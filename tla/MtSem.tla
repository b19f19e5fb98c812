------------------------------- MODULE MtSem -------------------------------
(***************************************************************************)
(* The counting semaphore of libmt.a, the thread library SOS is linked     *)
(* with.  Its code is not in the repository; mt.h documents it (down       *)
(* subtracts one and blocks when the value is negative, up adds one and    *)
(* wakes one waiter).  The value is split into its two readings: credit is *)
(* the value while it is not negative, wait the threads a negative value   *)
(* counts.  Which waiter up wakes is left open.                            *)
(***************************************************************************)
EXTENDS Naturals

CONSTANT NoThread      \* stands for "nobody was woken"

\* mt_sem_create(n)
NewSem(n) == [credit |-> n, wait |-> {}]

\* mt_sem_down by t returns at once exactly when there is a credit.
CanDown(s) == s.credit > 0

Down(s, t) == IF CanDown(s)
                THEN [credit |-> s.credit - 1, wait |-> s.wait]
                ELSE [credit |-> s.credit, wait |-> s.wait \cup {t}]

\* The threads an mt_sem_up may wake, and the semaphore after it woke w.
Wakeable(s) == IF s.wait = {} THEN {NoThread} ELSE s.wait

Up(s, w) == IF w = NoThread
              THEN [credit |-> s.credit + 1, wait |-> s.wait]
              ELSE [credit |-> s.credit, wait |-> s.wait \ {w}]
=============================================================================
