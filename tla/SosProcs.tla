------------------------------ MODULE SosProcs ------------------------------
(***************************************************************************)
(* The processes of SOS Lab 3: the CPU and the ready queue (schedule,      *)
(* exceptionHandler, interruptHandler), fork(), _exit() and wait(), the    *)
(* process ids and the memory partitions (sched.c).                        *)
(*                                                                         *)
(* schedule() first runs the kernel threads (mt_joinall) and then gives    *)
(* the CPU to a process.  A system call leaves exactly one thread to run,  *)
(* so the call is one action up to the point where it blocks; the threads  *)
(* it makes runnable, finish_work of a new child and a parent woken in     *)
(* do_wait, run before the next process.  PCBs are never given back to the *)
(* allocator, so each element of Procs is used once.                       *)
(***************************************************************************)
EXTENDS MtSem, Sequences, FiniteSets

CONSTANTS Procs, First,   \* PCBs, and the one initialize_user_process makes
          init,           \* the sentinel PCB that is the parent of First
          NoProc,         \* cp = NULL
          NParts,         \* memory partitions (8)
          MaxPid          \* the pid get_new_pid falls back to (32767)

ASSUME SosProcsAssumption ==
  /\ IsFiniteSet(Procs) /\ First \in Procs
  /\ init \notin Procs /\ NoProc \notin Procs
  /\ NoThread \notin Procs
  /\ NParts \in Nat \ {0} /\ MaxPid \in Nat /\ MaxPid > 2

PCBs == Procs \cup {init}
Pids == 1 .. MaxPid

VARIABLES cp, readyq,       \* the running process and the ones that could run
          state,            \* where a process is
          parent, pid, partition,
          used,             \* the partitions in use
          pids,             \* jrbTree: how many nodes it has for a pid
          waiters, waiter_sem

vars == <<cp, readyq, state, parent, pid, partition, used, pids, waiters, waiter_sem>>

\* user: has the CPU or is on the ready queue.  finish: its finish_work was
\* created.  waiting: its do_wait is blocked.  reap: its do_wait goes on.
\* lost: it is not saved anywhere.
Threads == {"finish", "reap"}
States  == {"unborn", "user", "waiting", "lost", "zombie"} \cup Threads
Alive   == {p \in Procs : state[p] \notin {"unborn", "zombie"}}

\* No kernel thread can run, so schedule() takes a process.
Quiescent == \A p \in Procs : state[p] \notin Threads

\* get_new_pid: the lowest pid below MaxPid that is not in the tree.
NewPidCount == LET taken == Cardinality({i \in Pids : pids[i] > 0})
               IN  IF taken < MaxPid THEN taken + 1 ELSE MaxPid
NewPid == LET unused == {i \in Pids : pids[i] = 0 /\ i < MaxPid}
          IN  IF unused = {} THEN MaxPid
              ELSE CHOOSE i \in unused : \A j \in unused : i <= j

\* get_partition: the first one that is not in use.
UnusedOneMore == 0 .. NParts \ used
Unused == 0 .. NParts - 1 \ used
NewPartitionCount == Cardinality(used)
NewPartition == CHOOSE i \in Unused : \A j \in Unused : i <= j

\* destroy_pid for each process of a set.
Destroyed(dead) == [i \in Pids |-> LET n == Cardinality({z \in dead : pid[z] = i})
                                   IN  IF n > pids[i] THEN 0 ELSE pids[i] - n]
Queued(p) == {waiters[p][i] : i \in 1 .. Len(waiters[p])}

\* SOS() and initialize_user_process
Init ==
  /\ cp = NoProc /\ readyq = <<First>>
  /\ state = [p \in Procs |-> IF p = First THEN "user" ELSE "unborn"]
  /\ parent = [p \in Procs |-> init]
  /\ pid = [p \in PCBs |-> CASE p = init -> 1 [] p = First -> 2 [] OTHER -> 0]
  /\ partition = [p \in Procs |-> 0] /\ used = {0}
  /\ pids = [i \in Pids |-> IF i <= 2 THEN 1 ELSE 0]
  /\ waiters = [p \in PCBs |-> <<>>]
  /\ waiter_sem = [p \in PCBs |-> NewSem(0)]
-----------------------------------------------------------------------------
\* schedule
Dispatch ==
  /\ Quiescent /\ cp = NoProc /\ readyq # <<>>
  /\ cp' = Head(readyq) /\ readyq' = Tail(readyq)
  /\ UNCHANGED <<state, parent, pid, partition, used, pids, waiters, waiter_sem>>

\* Where save_current_process and syscall_return put a process.
EnqueuedFirst(p) == <<p>> \o readyq
Enqueued(p) == Append(readyq, p)

InterruptKeepsCp ==
  /\ cp # NoProc
  /\ readyq' = Enqueued(cp) /\ cp' = cp
  /\ UNCHANGED <<state, parent, pid, partition, used, pids, waiters, waiter_sem>>

\* interruptHandler: any interrupt takes the CPU from the process.
Interrupt ==
  /\ cp # NoProc
  /\ readyq' = Enqueued(cp) /\ cp' = NoProc
  /\ UNCHANGED <<state, parent, pid, partition, used, pids, waiters, waiter_sem>>

\* exceptionHandler, a page fault or another fault: the process is taken from
\* the CPU and nothing is done for it.
Fault ==
  /\ cp # NoProc
  /\ state' = [state EXCEPT ![cp] = "lost"] /\ cp' = NoProc
  /\ UNCHANGED <<readyq, parent, pid, partition, used, pids, waiters, waiter_sem>>

\* do_fork; without a free partition it changes nothing but the CPU.
Fork(c) ==
  /\ cp # NoProc /\ state[c] = "unborn" /\ Unused # {}
  /\ state' = [state EXCEPT ![c] = "finish"]
  /\ partition' = [partition EXCEPT ![c] = NewPartition]
  /\ used' = used \cup {NewPartition}
  /\ parent' = [parent EXCEPT ![c] = cp]
  /\ pid' = [pid EXCEPT ![c] = NewPid]
  /\ pids' = [pids EXCEPT ![NewPid] = @ + 1]
  /\ readyq' = Enqueued(cp) /\ cp' = NoProc
  /\ UNCHANGED <<waiters, waiter_sem>>

\* finish_work: the child returns from fork().
Finish(c) ==
  /\ state[c] = "finish"
  /\ state' = [state EXCEPT ![c] = "user"]
  /\ readyq' = Enqueued(c)
  /\ UNCHANGED <<cp, parent, pid, partition, used, pids, waiters, waiter_sem>>

\* do_exit: the process joins the waiters of its parent, dead or alive, and
\* the zombies that wait for it lose their pids.  Its children keep it as
\* their parent: the tree of children is always empty (line 589).  Its PCB is
\* kept: it would be freed if its parent had pid 0, but init has pid 1.
ReleasedNone(p) == pids
Released(p) == Destroyed(Queued(p))
Exit ==
  /\ cp # NoProc
  /\ LET q == parent[cp] IN
       /\ waiters' = [waiters EXCEPT ![q] = Append(@, cp), ![cp] = <<>>]
       /\ \E w \in Wakeable(waiter_sem[q]) :
            /\ waiter_sem' = [waiter_sem EXCEPT ![q] = Up(@, w)]
            /\ state' = [p \in Procs |-> IF p = cp THEN "zombie" ELSE
                                         IF p = w THEN "reap" ELSE state[p]]
  /\ used' = used \ {partition[cp]}
  /\ pids' = Released(cp)
  /\ cp' = NoProc
  /\ UNCHANGED <<readyq, parent, pid, partition>>

\* do_wait up to the return of mt_sem_down.
Wait ==
  /\ cp # NoProc
  /\ waiter_sem' = [waiter_sem EXCEPT ![cp] = Down(@, cp)]
  /\ state' = [state EXCEPT ![cp] = IF CanDown(waiter_sem[cp]) THEN "reap" ELSE "waiting"]
  /\ cp' = NoProc
  /\ UNCHANGED <<readyq, parent, pid, partition, used, pids, waiters>>

\* ... and from there to syscall_return: the child that exited first.
LeftAll(q) == q
Left(q) == Tail(q)
Reap(p) ==
  /\ state[p] = "reap"
  /\ state' = [state EXCEPT ![p] = "user"]
  /\ IF waiters[p] = <<>>
       THEN UNCHANGED <<pids, waiters>>
       ELSE /\ pids' = Destroyed({Head(waiters[p])})
            /\ waiters' = [waiters EXCEPT ![p] = Left(@)]
  /\ readyq' = Enqueued(p)
  /\ UNCHANGED <<cp, parent, pid, partition, used, waiter_sem>>
-----------------------------------------------------------------------------
Thread(p) == Finish(p) \/ Reap(p)
Next == \/ Dispatch \/ Interrupt \/ Fault \/ Exit \/ Wait
        \/ \E c \in Procs : Fork(c)
        \/ \E p \in Procs : Thread(p)

Spec == Init /\ [][Next]_vars

\* schedule() runs the threads and dispatches whenever it can; the timer that
\* SOS() starts interrupts any process that keeps the CPU.
FairSpec == Spec /\ WF_vars(Dispatch) /\ WF_vars(Interrupt)
                 /\ \A p \in Procs : WF_vars(Thread(p))
-----------------------------------------------------------------------------
(* Properties                                                              *)

\* Type correctness.
TypeOK ==
  /\ cp \in Procs \cup {NoProc} /\ readyq \in Seq(Procs)
  /\ state \in [Procs -> States] /\ parent \in [Procs -> PCBs]
  /\ pid \in [PCBs -> Nat] /\ partition \in [Procs -> 0 .. NParts - 1]
  /\ used \subseteq 0 .. NParts - 1 /\ pids \in [Pids -> Nat]
  /\ waiters \in [PCBs -> Seq(Procs)]
  /\ waiter_sem \in [PCBs -> [credit : Nat, wait : SUBSET Procs]]

\* Two processes that are alive never share memory, and a partition is in use
\* exactly while a process that is alive has it: none is handed out twice and
\* none is lost by fork() or _exit().
MemoryIsExclusive ==
  /\ \A p, q \in Alive : partition[p] = partition[q] => p = q
  /\ used = {partition[p] : p \in Alive}

\* The processes whose pid is taken: the ones alive, and the zombies nobody
\* has waited for.
Holders == Alive \cup UNION {Queued(p) : p \in PCBs}

\* No two of them have the same pid, and none has that of init, unless
\* get_new_pid ran out and handed out MaxPid.
PidsAreUnique == \A p, q \in Holders \cup {init} :
                   pid[p] = pid[q] /\ pid[p] < MaxPid => p = q

\* The tree of pids has one node for each of them: a pid is destroyed once, by
\* wait() or by the exit of the parent, and never under a live process.
PidsAreCounted ==
  \A i \in Pids : pids[i] = Cardinality({p \in Holders \cup {init} : pid[p] = i})

\* A parent never sleeps in wait() with a zombie on its list, and never finds
\* the list empty when it wakes up: waiter_sem counts the zombies that no
\* thread of do_wait is about to take.
ZombiesAreCounted ==
  \A p \in PCBs : /\ Len(waiters[p]) > 0 => waiter_sem[p].wait = {}
                  /\ p \in Alive => Len(waiters[p]) =
                       waiter_sem[p].credit + (IF state[p] = "reap" THEN 1 ELSE 0)

\* A process is on the ready queue once, and only while it can run: it is not
\* run twice, nor after it exited, nor while its system call is blocked.
RunsOnce ==
  /\ \A i, j \in 1 .. Len(readyq) : readyq[i] = readyq[j] => i = j
  /\ \A p \in Procs : state[p] = "user" <=>
       (p = cp \/ \E i \in 1 .. Len(readyq) : readyq[i] = p)
  /\ cp # NoProc => \A i \in 1 .. Len(readyq) : readyq[i] # cp

\* A process that can run gets the CPU: a fork() returns to both processes and
\* a wait() whose child exited returns, whatever the other processes do.
GetsTheCpu == \A p \in Procs : state[p] \in {"user", "finish", "reap"} ~> cp = p
=============================================================================
