---------------------------- MODULE ByteChannel ----------------------------
(***************************************************************************)
(* What the pipe of SOS keeps of a pipe's promise: a bounded first-in      *)
(* first-out channel of bytes, each named by its serial number, with a     *)
(* read end and a write end that are open until they are closed.           *)
(***************************************************************************)
EXTENDS Naturals, Sequences

CONSTANT Capacity

VARIABLES queue,    \* the bytes in the channel, oldest first
          next,     \* serial number of the next byte
          owed,     \* a reader has taken a byte that nobody wrote
          open      \* the ends, "r" and "w", that are open
vars == <<queue, next, owed, open>>

Init == queue = << >> /\ next = 0 /\ owed = FALSE /\ open = {"r", "w"}

\* A byte is written while there are readers; the one a reader is owed is lost.
Put == /\ "r" \in open /\ Len(queue) < Capacity
       /\ queue' = IF owed THEN queue ELSE Append(queue, next)
       /\ next' = next + 1
       /\ owed' = FALSE
       /\ open' = open

Take == /\ queue # << >>
        /\ queue' = Tail(queue)
        /\ UNCHANGED <<next, owed, open>>

\* The close of the last writer lets one reader through to an empty channel.
TakeUnwritten == /\ "w" \notin open /\ queue = << >> /\ ~owed
                 /\ owed' = TRUE
                 /\ UNCHANGED <<queue, next, open>>

Close == \E e \in open : open' = open \ {e} /\ UNCHANGED <<queue, next, owed>>

\* A byte written without a reader ends everything.
Halt == /\ "r" \notin open
        /\ queue' = << >> /\ next' = 0 /\ owed' = FALSE /\ open' = {}

Next == Put \/ Take \/ TakeUnwritten \/ Close \/ Halt

Spec == Init /\ [][Next]_vars
=============================================================================
