--------------------------- MODULE SosProcs_proofs ---------------------------
(***************************************************************************)
(* For every number of processes, partitions and process ids: the ready    *)
(* queue, the counting of zombies, the partitions and the process ids, and *)
(* that every process gets nearer to the CPU.                              *)
(***************************************************************************)
EXTENDS SosProcs, SequenceTheorems, FiniteSetTheorems, WellFoundedInduction, TLAPS

(* The inductive invariant, in named parts.                                *)

\* Only the process itself waits for its semaphore, and only without a credit.
Sleepers ==
  \A p \in PCBs :
    /\ waiter_sem[p].wait = IF p \in Procs /\ state[p] = "waiting" THEN {p} ELSE {}
    /\ waiter_sem[p].wait # {} => waiter_sem[p].credit = 0

\* A process has a parent that was born before it.
Family ==
  \A p \in Procs : /\ parent[p] # p
                   /\ parent[p] \in Procs => state[parent[p]] # "unborn"

\* What waits for a parent is a zombie of his, once.
ZombiesQueue ==
  \A p \in PCBs : \A i \in 1 .. Len(waiters[p]) :
    /\ state[waiters[p][i]] = "zombie" /\ parent[waiters[p][i]] = p
    /\ \A j \in 1 .. Len(waiters[p]) : waiters[p][i] = waiters[p][j] => i = j

\* Nobody has exited yet below a process that is not born.
Unborn ==
  \A p \in Procs : state[p] = "unborn" => waiters[p] = <<>> /\ waiter_sem[p].credit = 0

\* The processes and their queues.
SInv == /\ TypeOK /\ RunsOnce /\ Sleepers /\ Family /\ ZombiesQueue /\ Unborn
        /\ ZombiesAreCounted
\* ... and what they own.
IInv == SInv /\ MemoryIsExclusive /\ PidsAreUnique /\ PidsAreCounted
-----------------------------------------------------------------------------
\* A set of numbers that is not empty has a least one.
LEMMA Least ==
  ASSUME NEW S \in SUBSET Nat, S # {}
  PROVE  \E i \in S : \A j \in S : i <= j
<1> DEFINE R == {ss \in Nat \X Nat : ss[1] < ss[2]}
<1>1. IsWellFoundedOn(R, Nat) BY NatLessThanWellFounded DEF OpToRel
<1>2. \A x, y \in Nat : <<y, x>> \in R <=> y < x OBVIOUS
<1> HIDE DEF R
<1>3. PICK i \in S : \A j \in S : ~(<<j, i>> \in R) BY <1>1, WFMin
<1>4. \A j \in S : ~(j < i) BY <1>2, <1>3
<1> QED BY <1>4

\* get_partition finds one that is free, get_new_pid one that nobody has or the last one.
LEMMA NewFacts ==
  ASSUME TypeOK
  PROVE  /\ Unused # {} => NewPartition \in Unused
         /\ NewPid \in Pids
         /\ NewPid < MaxPid => pids[NewPid] = 0
<1>1. Unused \in SUBSET Nat BY SosProcsAssumption DEF Unused
<1>2. Unused # {} => NewPartition \in Unused BY <1>1, Least DEF NewPartition
<1> DEFINE unused == {i \in Pids : pids[i] = 0 /\ i < MaxPid}
<1>3. unused \in SUBSET Nat BY DEF Pids
<1>4. CASE unused = {}
  <2>1. NewPid = MaxPid BY <1>4 DEF NewPid
  <2> QED BY <2>1, <1>2, SosProcsAssumption DEF Pids
<1>5. CASE unused # {}
  <2>1. NewPid \in unused
    <3>1. \E i \in unused : \A j \in unused : i <= j BY <1>3, <1>5, Least
    <3> QED BY <3>1, <1>5 DEF NewPid
  <2> QED BY <2>1, <1>2
<1> QED BY <1>4, <1>5
-----------------------------------------------------------------------------
(* Queues without repetition.                                              *)

Once(q)  == \A i, j \in 1 .. Len(q) : q[i] = q[j] => i = j
In(p, q) == \E i \in 1 .. Len(q) : q[i] = p

\* Somebody new joins the end of a queue.
LEMMA AppendOnce ==
  ASSUME NEW q \in Seq(Procs), NEW c \in Procs, Once(q), ~In(c, q)
  PROVE  /\ Append(q, c) \in Seq(Procs) /\ Once(Append(q, c))
         /\ Len(Append(q, c)) = Len(q) + 1
         /\ \A p : In(p, Append(q, c)) <=> In(p, q) \/ p = c
<1>1. /\ Append(q, c) \in Seq(Procs) /\ Len(Append(q, c)) = Len(q) + 1
      /\ \A i \in 1 .. Len(q) : Append(q, c)[i] = q[i]
      /\ Append(q, c)[Len(q) + 1] = c /\ Len(q) \in Nat
  BY AppendProperties, LenProperties
<1> DEFINE r == Append(q, c)
<1> HIDE DEF r
<1>2. Once(r) BY <1>1 DEF Once, In, r
<1>3. \A p : In(p, r) <=> In(p, q) \/ p = c BY <1>1 DEF In, r
<1> QED BY <1>1, <1>2, <1>3 DEF r

\* The first of a queue leaves it.
LEMMA TailOnce ==
  ASSUME NEW q \in Seq(Procs), q # <<>>, Once(q)
  PROVE  /\ Tail(q) \in Seq(Procs) /\ Once(Tail(q)) /\ Len(q) >= 1
         /\ Len(Tail(q)) = Len(q) - 1
         /\ Head(q) \in Procs /\ Head(q) = q[1] /\ In(Head(q), q)
         /\ \A p : In(p, Tail(q)) <=> In(p, q) /\ p # Head(q)
<1>1. /\ Tail(q) \in Seq(Procs) /\ Len(Tail(q)) = Len(q) - 1 /\ Head(q) \in Procs
      /\ \A i \in 1 .. Len(Tail(q)) : Tail(q)[i] = q[i + 1]
  BY HeadTailProperties
<1>2. Len(q) \in Nat /\ Len(q) >= 1 BY LenProperties, EmptySeq
<1>3. Head(q) = q[1] BY <1>2
<1> DEFINE r == Tail(q)
<1> HIDE DEF r
<1>4. Once(r) BY <1>1, <1>2 DEF Once, r
<1>5. ASSUME NEW p, In(p, r) PROVE In(p, q) /\ p # Head(q)
  BY <1>1, <1>2, <1>3, <1>5 DEF In, Once, r
<1>6. ASSUME NEW p, In(p, q), p # Head(q) PROVE In(p, r)
  <2>1. PICK i \in 1 .. Len(q) : q[i] = p BY <1>6 DEF In
  <2>2. i - 1 \in 1 .. Len(r) BY <1>1, <1>2, <1>3, <1>6, <2>1 DEF r
  <2>3. r[i - 1] = p BY <1>1, <2>1, <2>2 DEF r
  <2> QED BY <2>2, <2>3 DEF In
<1>7. In(Head(q), q) BY <1>2, <1>3 DEF In
<1> QED BY <1>1, <1>2, <1>3, <1>4, <1>5, <1>6, <1>7 DEF r

\* RunsOnce in these terms: the CPU and the ready queue hold who can run.
LEMMA RunsOnceIs ==
  RunsOnce <=> /\ Once(readyq)
               /\ \A p \in Procs : state[p] = "user" <=> (p = cp \/ In(p, readyq))
               /\ cp # NoProc => ~In(cp, readyq)
BY DEF RunsOnce, Once, In

\* The process with the CPU.
LEMMA Running ==
  ASSUME SInv, cp # NoProc
  PROVE  /\ cp \in Procs /\ cp \in PCBs /\ state[cp] = "user" /\ ~In(cp, readyq)
         /\ readyq \in Seq(Procs) /\ Once(readyq)
         /\ parent[cp] \in PCBs /\ parent[cp] # cp
BY RunsOnceIs DEF SInv, TypeOK, PCBs, Family
-----------------------------------------------------------------------------
(* The steps and the queues.                                               *)

Asleep == {"waiting", "reap", "zombie"}

\* The queues of the parents do not care about a process that neither waits
\* nor exits.
LEMMA QueuesKept ==
  ASSUME SInv, NEW c \in Procs, NEW l \in States,
         state' = [state EXCEPT ![c] = l], UNCHANGED <<waiters, waiter_sem>>,
         state[c] \notin Asleep, l \notin Asleep, l # "unborn",
         \A p \in Procs : state[p] = "zombie" => parent'[p] = parent[p]
  PROVE  /\ state' \in [Procs -> States]
         /\ \A p \in Procs \ {c} : state'[p] = state[p]
         /\ state'[c] = l
         /\ Sleepers' /\ ZombiesQueue' /\ Unborn' /\ ZombiesAreCounted'
<1>1. /\ state' \in [Procs -> States] /\ state'[c] = l
      /\ \A p \in Procs \ {c} : state'[p] = state[p]
  BY DEF SInv, TypeOK
<1>2. \A p \in Procs : \A s \in Asleep : state'[p] = s <=> state[p] = s BY <1>1
<1>3. Sleepers' BY <1>2 DEF SInv, Sleepers, Asleep
<1>4. \A p \in PCBs : \A i \in 1 .. Len(waiters[p]) : waiters[p][i] \in Procs
  BY ElementOfSeq DEF SInv, TypeOK
<1>5. ZombiesQueue' BY <1>2, <1>4 DEF SInv, ZombiesQueue, Asleep
<1>6. Unborn' BY <1>1 DEF SInv, Unborn
<1>7. ZombiesAreCounted'
  <2> SUFFICES ASSUME NEW p \in PCBs
               PROVE  /\ Len(waiters[p]) > 0 => waiter_sem[p].wait = {}
                      /\ p \in Alive' => Len(waiters[p]) =
                           waiter_sem[p].credit + (IF state'[p] = "reap" THEN 1 ELSE 0)
    BY DEF ZombiesAreCounted
  <2>1. Len(waiters[p]) > 0 => waiter_sem[p].wait = {} BY DEF SInv, ZombiesAreCounted
  <2>2. ASSUME p \in Alive'
        PROVE  Len(waiters[p]) =
                 waiter_sem[p].credit + (IF state'[p] = "reap" THEN 1 ELSE 0)
    <3>1. p \in Procs /\ state'[p] \notin {"unborn", "zombie"} BY <2>2 DEF Alive
    <3>2. state'[p] = "reap" <=> state[p] = "reap" BY <1>2, <3>1 DEF Asleep
    <3>3. CASE p \in Alive BY <3>2, <3>3 DEF SInv, ZombiesAreCounted
    <3>4. CASE p \notin Alive
      <4>1. p = c /\ state[p] = "unborn" BY <1>1, <3>1, <3>4 DEF Alive, Asleep
      <4>2. waiters[p] = <<>> /\ waiter_sem[p].credit = 0 BY <4>1 DEF SInv, Unborn
      <4> QED BY <4>1, <4>2, <3>2
    <3> QED BY <3>3, <3>4
  <2> QED BY <2>1, <2>2
<1> QED BY <1>1, <1>3, <1>5, <1>6, <1>7

\* What relates the family, the sleepers and the zombies is kept by a step that
\* leaves the states, the parents and the semaphores of the processes alone.
LEMMA RestKept ==
  ASSUME SInv, UNCHANGED <<state, parent, waiters, waiter_sem>>
  PROVE  Sleepers' /\ Family' /\ ZombiesQueue' /\ Unborn' /\ ZombiesAreCounted'
<1>1. Sleepers' BY DEF SInv, Sleepers
<1>2. Family' BY DEF SInv, Family
<1>3. ZombiesQueue' BY DEF SInv, ZombiesQueue
<1>4. Unborn' BY DEF SInv, Unborn
<1>5. ZombiesAreCounted' BY DEF SInv, ZombiesAreCounted, Alive
<1> QED BY <1>1, <1>2, <1>3, <1>4, <1>5

\* The CPU is given and taken.
LEMMA DispatchSInv == ASSUME SInv, Dispatch PROVE SInv'
<1>1. readyq \in Seq(Procs) /\ readyq # <<>> /\ Once(readyq)
      /\ cp = NoProc /\ NoProc \notin Procs
  BY RunsOnceIs, SosProcsAssumption DEF SInv, TypeOK, Dispatch
<1>2. /\ cp' = Head(readyq) /\ readyq' = Tail(readyq)
      /\ UNCHANGED <<state, parent, pid, partition, used, pids, waiters, waiter_sem>>
  BY DEF Dispatch
<1>3. /\ cp' \in Procs /\ readyq' \in Seq(Procs) /\ Once(readyq') /\ ~In(cp', readyq')
      /\ \A p : In(p, readyq) <=> In(p, readyq') \/ p = cp'
  BY <1>1, <1>2, TailOnce
<1>4. TypeOK' BY <1>2, <1>3 DEF SInv, TypeOK
<1>5. RunsOnce'
  <2>1. \A p \in Procs : state'[p] = "user" <=> (p = cp' \/ In(p, readyq'))
    BY <1>1, <1>2, <1>3, RunsOnceIs DEF SInv
  <2> QED BY <1>3, <2>1 DEF RunsOnce, Once, In
<1>6. /\ Sleepers' /\ Family' /\ ZombiesQueue' /\ Unborn' /\ ZombiesAreCounted'
  BY <1>2, RestKept
<1> QED BY <1>4, <1>5, <1>6 DEF SInv

\* Process c goes to the end of the ready queue and nobody has the CPU or who had
\* it keeps it.
LEMMA QueuedOnce ==
  ASSUME SInv, NEW c \in Procs, readyq' = Enqueued(c), ~In(c, readyq),
         cp' = NoProc \/ (cp' = cp /\ c # cp),
         \A p \in Procs : state'[p] = "user" <=> (p = cp' \/ p = c \/ In(p, readyq))
  PROVE  readyq' \in Seq(Procs) /\ cp' \in Procs \cup {NoProc} /\ RunsOnce'
<1>1. readyq \in Seq(Procs) /\ Once(readyq) /\ cp \in Procs \cup {NoProc}
  BY RunsOnceIs DEF SInv, TypeOK
<1>2. /\ readyq' \in Seq(Procs) /\ Once(readyq')
      /\ \A p : In(p, readyq') <=> In(p, readyq) \/ p = c
  BY <1>1, AppendOnce DEF Enqueued
<1>3. cp' # NoProc => ~In(cp', readyq') BY <1>2, RunsOnceIs DEF SInv
<1>4. \A p \in Procs : state'[p] = "user" <=> (p = cp' \/ In(p, readyq')) BY <1>2
<1>5. RunsOnce' BY <1>2, <1>3, <1>4 DEF RunsOnce, Once, In
<1> QED BY <1>1, <1>2, <1>5

LEMMA InterruptSInv == ASSUME SInv, Interrupt PROVE SInv'
<1>1. /\ cp # NoProc /\ readyq' = Enqueued(cp) /\ cp' = NoProc
      /\ UNCHANGED <<state, parent, pid, partition, used, pids, waiters, waiter_sem>>
  BY DEF Interrupt
<1>2. cp \in Procs /\ ~In(cp, readyq) BY <1>1, Running
<1>3. \A p \in Procs : state'[p] = "user" <=> (p = cp' \/ p = cp \/ In(p, readyq))
  BY <1>1, RunsOnceIs, SosProcsAssumption DEF SInv
<1>4. readyq' \in Seq(Procs) /\ cp' \in Procs \cup {NoProc} /\ RunsOnce'
  BY <1>1, <1>2, <1>3, QueuedOnce
<1>5. TypeOK' BY <1>1, <1>4 DEF SInv, TypeOK
<1>6. /\ Sleepers' /\ Family' /\ ZombiesQueue' /\ Unborn' /\ ZombiesAreCounted'
  BY <1>1, RestKept
<1> QED BY <1>4, <1>5, <1>6 DEF SInv

\* A process that faults is nowhere any more.
LEMMA FaultSInv == ASSUME SInv, Fault PROVE SInv'
<1>1. /\ cp # NoProc /\ state' = [state EXCEPT ![cp] = "lost"] /\ cp' = NoProc
      /\ UNCHANGED <<readyq, parent, pid, partition, used, pids, waiters, waiter_sem>>
  BY DEF Fault
<1>2. /\ cp \in Procs /\ state[cp] = "user" /\ ~In(cp, readyq)
  BY <1>1, Running
<1>3. /\ state' \in [Procs -> States] /\ state'[cp] = "lost"
      /\ \A p \in Procs \ {cp} : state'[p] = state[p]
      /\ Sleepers' /\ ZombiesQueue' /\ Unborn' /\ ZombiesAreCounted'
  BY <1>1, <1>2, QueuesKept DEF States, Asleep
<1>4. TypeOK' BY <1>1, <1>3 DEF SInv, TypeOK
<1>5. RunsOnce'
  <2>1. Once(readyq)
        /\ \A p \in Procs : state[p] = "user" <=> (p = cp \/ In(p, readyq))
    BY RunsOnceIs DEF SInv
  <2>2. \A p \in Procs : state'[p] = "user" <=> (p = NoProc \/ In(p, readyq))
    BY <1>2, <1>3, <2>1, SosProcsAssumption
  <2> QED BY <1>1, <2>1, <2>2 DEF RunsOnce, Once, In
<1>6. Family' BY <1>1, <1>2, <1>3 DEF SInv, Family
<1> QED BY <1>3, <1>4, <1>5, <1>6 DEF SInv

LEMMA ForkSInv == ASSUME SInv, NEW c \in Procs, Fork(c) PROVE SInv'
<1>1. /\ cp # NoProc /\ state[c] = "unborn" /\ Unused # {}
      /\ state' = [state EXCEPT ![c] = "finish"]
      /\ partition' = [partition EXCEPT ![c] = NewPartition]
      /\ used' = used \cup {NewPartition}
      /\ parent' = [parent EXCEPT ![c] = cp]
      /\ pid' = [pid EXCEPT ![c] = NewPid]
      /\ pids' = [pids EXCEPT ![NewPid] = @ + 1]
      /\ readyq' = Enqueued(cp) /\ cp' = NoProc
      /\ UNCHANGED <<waiters, waiter_sem>>
  BY DEF Fork
<1>2. /\ cp \in Procs /\ state[cp] = "user" /\ ~In(cp, readyq) /\ cp # c
  BY <1>1, Running
<1>3. /\ parent' \in [Procs -> PCBs] /\ parent'[c] = cp
      /\ \A p \in Procs \ {c} : parent'[p] = parent[p]
  BY <1>1, <1>2 DEF SInv, TypeOK, PCBs
<1>4. /\ state' \in [Procs -> States] /\ state'[c] = "finish"
      /\ \A p \in Procs \ {c} : state'[p] = state[p]
      /\ Sleepers' /\ ZombiesQueue' /\ Unborn' /\ ZombiesAreCounted'
  BY <1>1, <1>3, QueuesKept DEF States, Asleep, Threads
<1>5. readyq' \in Seq(Procs) /\ cp' \in Procs \cup {NoProc} /\ RunsOnce'
  <2>1. \A p \in Procs : state'[p] = "user" <=> (p = cp' \/ p = cp \/ In(p, readyq))
    BY <1>1, <1>4, RunsOnceIs, SosProcsAssumption DEF SInv
  <2> QED BY <1>1, <1>2, <2>1, QueuedOnce
<1>6. TypeOK'
  <2>1. NewPartition \in 0 .. NParts - 1 /\ NewPid \in Pids
    BY <1>1, NewFacts DEF Unused, SInv
  <2>2. partition' \in [Procs -> 0 .. NParts - 1] /\ used' \subseteq 0 .. NParts - 1
    BY <1>1, <2>1 DEF SInv, TypeOK
  <2>3. pid' \in [PCBs -> Nat] /\ pids' \in [Pids -> Nat]
    <3>1. NewPid \in Nat BY <2>1, SosProcsAssumption DEF Pids
    <3>2. pids[NewPid] + 1 \in Nat BY <2>1 DEF SInv, TypeOK
    <3> QED BY <1>1, <2>1, <3>1, <3>2 DEF SInv, TypeOK
  <2> QED BY <1>1, <1>3, <1>4, <1>5, <2>2, <2>3 DEF SInv, TypeOK
<1>7. Family'
  BY <1>2, <1>3, <1>4 DEF SInv, Family
<1> QED BY <1>4, <1>5, <1>6, <1>7 DEF SInv

LEMMA FinishSInv == ASSUME SInv, NEW c \in Procs, Finish(c) PROVE SInv'
<1>1. /\ state[c] = "finish" /\ state' = [state EXCEPT ![c] = "user"]
      /\ readyq' = Enqueued(c)
      /\ UNCHANGED <<cp, parent, pid, partition, used, pids, waiters, waiter_sem>>
  BY DEF Finish
<1>2. /\ state' \in [Procs -> States] /\ state'[c] = "user"
      /\ \A p \in Procs \ {c} : state'[p] = state[p]
      /\ Sleepers' /\ ZombiesQueue' /\ Unborn' /\ ZombiesAreCounted'
  BY <1>1, QueuesKept DEF States, Asleep
<1>3. /\ \A p \in Procs : state[p] = "user" <=> (p = cp \/ In(p, readyq))
      /\ cp \in Procs \cup {NoProc}
  BY RunsOnceIs DEF SInv, TypeOK
<1>4. c # cp /\ ~In(c, readyq) BY <1>1, <1>3
<1>5. readyq' \in Seq(Procs) /\ cp' \in Procs \cup {NoProc} /\ RunsOnce'
  <2>1. \A p \in Procs : state'[p] = "user" <=> (p = cp' \/ p = c \/ In(p, readyq))
    BY <1>1, <1>2, <1>3
  <2> QED BY <1>1, <1>4, <2>1, QueuedOnce
<1>6. TypeOK' BY <1>1, <1>2, <1>5 DEF SInv, TypeOK
<1>7. Family' BY <1>1, <1>2 DEF SInv, Family
<1> QED BY <1>2, <1>5, <1>6, <1>7 DEF SInv

\* A process that leaves the CPU for another state than "user" is on no queue.
LEMMA Leaves ==
  ASSUME SInv, cp # NoProc, cp' = NoProc, readyq' = readyq,
         state' \in [Procs -> States], state'[cp] # "user",
         \A p \in Procs \ {cp} : state'[p] = "user" <=> state[p] = "user"
  PROVE  RunsOnce'
<1>1. Once(readyq) /\ \A p \in Procs : state[p] = "user" <=> (p = cp \/ In(p, readyq))
  BY RunsOnceIs DEF SInv
<1>2. cp \in Procs /\ ~In(cp, readyq) BY Running
<1>3. \A p \in Procs : state'[p] = "user" <=> (p = NoProc \/ In(p, readyq))
  BY <1>1, <1>2, SosProcsAssumption
<1> QED BY <1>1, <1>3 DEF RunsOnce, Once, In

LEMMA WaitSInv == ASSUME SInv, Wait PROVE SInv'
<1>1. /\ cp # NoProc
      /\ waiter_sem' = [waiter_sem EXCEPT ![cp] = Down(@, cp)]
      /\ state' = [state EXCEPT ![cp] = IF CanDown(waiter_sem[cp]) THEN "reap" ELSE "waiting"]
      /\ cp' = NoProc
      /\ UNCHANGED <<readyq, parent, pid, partition, used, pids, waiters>>
  BY DEF Wait
<1>2. /\ cp \in Procs /\ cp \in PCBs /\ state[cp] = "user"
      /\ cp \in Alive
  BY <1>1, Running DEF Alive
<1> DEFINE s == waiter_sem[cp]
<1>3. /\ s \in [credit : Nat, wait : SUBSET Procs] /\ s.wait = {}
      /\ Len(waiters[cp]) = s.credit
  <2>1. s.wait = {} BY <1>2 DEF SInv, Sleepers
  <2>2. s \in [credit : Nat, wait : SUBSET Procs] BY <1>2 DEF SInv, TypeOK
  <2> QED BY <1>2, <2>1, <2>2 DEF SInv, ZombiesAreCounted
<1>4. /\ Down(s, cp) \in [credit : Nat, wait : SUBSET Procs]
      /\ s.credit > 0 => Down(s, cp).credit = s.credit - 1 /\ Down(s, cp).wait = {}
      /\ s.credit = 0 => Down(s, cp).credit = 0 /\ Down(s, cp).wait = {cp}
  BY <1>2, <1>3 DEF Down, CanDown
<1>5. /\ waiter_sem' \in [PCBs -> [credit : Nat, wait : SUBSET Procs]]
      /\ waiter_sem'[cp] = Down(s, cp)
      /\ \A p \in PCBs \ {cp} : waiter_sem'[p] = waiter_sem[p]
  BY <1>1, <1>2, <1>4 DEF SInv, TypeOK
<1>6. /\ state' \in [Procs -> States]
      /\ s.credit > 0 => state'[cp] = "reap"
      /\ s.credit = 0 => state'[cp] = "waiting"
      /\ \A p \in Procs \ {cp} : state'[p] = state[p]
  BY <1>1, <1>2, <1>3 DEF SInv, TypeOK, States, Threads, CanDown
<1>7. TypeOK' BY <1>1, <1>5, <1>6 DEF SInv, TypeOK
<1>8. RunsOnce'
  <2>1. state'[cp] # "user" BY <1>3, <1>6
  <2> QED BY <1>1, <1>6, <2>1, Leaves
<1>9. Sleepers'
  <2> SUFFICES ASSUME NEW p \in PCBs
               PROVE  /\ waiter_sem'[p].wait =
                           IF p \in Procs /\ state'[p] = "waiting" THEN {p} ELSE {}
                      /\ waiter_sem'[p].wait # {} => waiter_sem'[p].credit = 0
    BY DEF Sleepers
  <2>1. CASE p = cp
    <3>1. CASE s.credit = 0 BY <1>2, <1>4, <1>5, <1>6, <2>1, <3>1
    <3>2. CASE s.credit > 0 BY <1>2, <1>4, <1>5, <1>6, <2>1, <3>2
    <3> QED BY <1>3, <3>1, <3>2
  <2>2. CASE p # cp BY <1>5, <1>6, <2>2 DEF SInv, Sleepers
  <2> QED BY <2>1, <2>2
<1>10. Family' BY <1>1, <1>2, <1>3, <1>6 DEF SInv, Family
<1>11. ZombiesQueue'
  <2>1. \A p \in PCBs : \A i \in 1 .. Len(waiters[p]) : waiters[p][i] \in Procs
    BY ElementOfSeq DEF SInv, TypeOK
  <2> QED BY <1>1, <1>2, <1>6, <2>1 DEF SInv, ZombiesQueue
<1>12. Unborn'
  <2> SUFFICES ASSUME NEW p \in Procs, state'[p] = "unborn"
               PROVE  waiters'[p] = <<>> /\ waiter_sem'[p].credit = 0
    BY DEF Unborn
  <2>1. p # cp BY <1>3, <1>6
  <2> QED BY <1>1, <1>5, <1>6, <2>1 DEF SInv, Unborn, PCBs
<1>13. ZombiesAreCounted'
  <2> SUFFICES ASSUME NEW p \in PCBs
               PROVE  /\ Len(waiters[p]) > 0 => waiter_sem'[p].wait = {}
                      /\ p \in Alive' => Len(waiters[p]) =
                           waiter_sem'[p].credit + (IF state'[p] = "reap" THEN 1 ELSE 0)
    BY <1>1 DEF ZombiesAreCounted
  <2>1. CASE p = cp BY <1>3, <1>4, <1>5, <1>6, <2>1
  <2>2. CASE p # cp BY <1>5, <1>6, <2>2 DEF SInv, ZombiesAreCounted, Alive
  <2> QED BY <2>1, <2>2
<1> QED BY <1>7, <1>8, <1>9, <1>10, <1>11, <1>12, <1>13 DEF SInv

\* The zombies of p that are still in its list.
LEMMA WaitersFacts ==
  ASSUME SInv, NEW p \in PCBs
  PROVE  /\ waiters[p] \in Seq(Procs) /\ Once(waiters[p]) /\ Len(waiters[p]) \in Nat
         /\ \A z : z \in Queued(p) <=> In(z, waiters[p])
         /\ \A z \in Queued(p) : z \in Procs /\ state[z] = "zombie" /\ parent[z] = p
<1>1. waiters[p] \in Seq(Procs) BY DEF SInv, TypeOK
<1>2. \A i \in 1 .. Len(waiters[p]) : waiters[p][i] \in Procs BY <1>1, ElementOfSeq
<1>3. Once(waiters[p]) BY DEF SInv, ZombiesQueue, Once
<1>4. \A z : z \in Queued(p) <=> In(z, waiters[p]) BY DEF Queued, In
<1>5. \A z \in Queued(p) : z \in Procs /\ state[z] = "zombie" /\ parent[z] = p
  BY <1>2 DEF SInv, ZombiesQueue, Queued
<1> QED BY <1>1, <1>3, <1>4, <1>5, LenProperties

\* Pids are destroyed, and the counts of the tree stay counts.
LEMMA DestroyedFacts ==
  ASSUME TypeOK, NEW dead \in SUBSET Procs
  PROVE  /\ Destroyed(dead) \in [Pids -> Nat]
         /\ \A i \in Pids : LET n == Cardinality({z \in dead : pid[z] = i})
                           IN  /\ n \in Nat
                               /\ n <= pids[i] => Destroyed(dead)[i] = pids[i] - n
<1>1. ASSUME NEW i \in Pids
      PROVE  /\ Cardinality({z \in dead : pid[z] = i}) \in Nat
             /\ pids[i] \in Nat
  <2>1. {z \in dead : pid[z] = i} \in SUBSET Procs OBVIOUS
  <2>2. IsFiniteSet({z \in dead : pid[z] = i}) BY <2>1, FS_Subset, SosProcsAssumption
  <2>3. pids[i] \in Nat BY DEF TypeOK
  <2> QED BY <2>2, <2>3, FS_CardinalityType
<1> DEFINE n(i) == Cardinality({z \in dead : pid[z] = i})
<1>2. \A i \in Pids : n(i) \in Nat /\ pids[i] \in Nat BY <1>1
<1>3. Destroyed(dead) = [i \in Pids |-> IF n(i) > pids[i] THEN 0 ELSE pids[i] - n(i)]
  BY DEF Destroyed
<1> HIDE DEF n
<1>4. Destroyed(dead) \in [Pids -> Nat] BY <1>2, <1>3
<1>5. \A i \in Pids : n(i) \in Nat /\ (n(i) <= pids[i] => Destroyed(dead)[i] = pids[i] - n(i))
  BY <1>2, <1>3
<1> QED BY <1>4, <1>5 DEF n

\* What _exit() does to the queues.
LEMMA ExitFacts ==
  ASSUME SInv, Exit
  PROVE  LET q == parent[cp]
         IN  /\ cp \in Procs /\ q \in PCBs /\ q # cp /\ state[cp] = "user"
             /\ state' \in [Procs -> States] /\ state'[cp] = "zombie"
             /\ \A p \in Procs \ {cp, q} : state'[p] = state[p]
             /\ \/ /\ \A p \in Procs \ {cp} : state'[p] = state[p]
                   /\ q \in Procs => state[q] # "waiting"
                   /\ waiter_sem'[q].credit = waiter_sem[q].credit + 1
                \/ /\ q \in Procs /\ state[q] = "waiting" /\ state'[q] = "reap"
                   /\ waiter_sem'[q].credit = waiter_sem[q].credit
             /\ waiter_sem' \in [PCBs -> [credit : Nat, wait : SUBSET Procs]]
             /\ waiter_sem'[q].wait = {}
             /\ \A p \in PCBs \ {q} : waiter_sem'[p] = waiter_sem[p]
             /\ waiters' \in [PCBs -> Seq(Procs)]
             /\ waiters'[cp] = <<>> /\ waiters'[q] = Append(waiters[q], cp)
             /\ \A p \in PCBs \ {cp, q} : waiters'[p] = waiters[p]
             /\ ~In(cp, waiters[q])
<1> DEFINE q == parent[cp]
           Sem == [credit : Nat, wait : SUBSET Procs]
<1>1. /\ cp # NoProc
      /\ waiters' = [waiters EXCEPT ![q] = Append(@, cp), ![cp] = <<>>]
      /\ cp' = NoProc
  BY DEF Exit
<1>2. PICK w \in Wakeable(waiter_sem[q]) :
        /\ waiter_sem' = [waiter_sem EXCEPT ![q] = Up(@, w)]
        /\ state' = [p \in Procs |-> IF p = cp THEN "zombie" ELSE
                                     IF p = w THEN "reap" ELSE state[p]]
  BY DEF Exit
<1>3. /\ cp \in Procs /\ cp \in PCBs /\ state[cp] = "user" /\ q \in PCBs /\ q # cp
  BY <1>1, Running
<1>4. /\ waiter_sem[q] \in Sem /\ state \in [Procs -> States] /\ NoThread \notin Procs
      /\ waiter_sem \in [PCBs -> Sem] /\ waiters \in [PCBs -> Seq(Procs)]
  BY <1>3, SosProcsAssumption DEF SInv, TypeOK
<1>5. waiter_sem[q].wait = IF q \in Procs /\ state[q] = "waiting" THEN {q} ELSE {}
  BY <1>3 DEF SInv, Sleepers
<1> HIDE DEF q
<1>6. \/ /\ w = NoThread /\ (q \in Procs => state[q] # "waiting")
         /\ Up(waiter_sem[q], w).credit = waiter_sem[q].credit + 1
      \/ /\ w = q /\ q \in Procs /\ state[q] = "waiting"
         /\ Up(waiter_sem[q], w).credit = waiter_sem[q].credit
  BY <1>2, <1>4, <1>5 DEF Wakeable, Up
<1>7. Up(waiter_sem[q], w) \in Sem /\ Up(waiter_sem[q], w).wait = {}
  BY <1>4, <1>5, <1>6 DEF Up
<1>8. /\ waiter_sem' \in [PCBs -> Sem] /\ waiter_sem'[q] = Up(waiter_sem[q], w)
      /\ \A p \in PCBs \ {q} : waiter_sem'[p] = waiter_sem[p]
  BY <1>2, <1>3, <1>4, <1>7
<1>9. /\ state' \in [Procs -> States] /\ state'[cp] = "zombie"
      /\ \A p \in Procs \ {cp} : state'[p] = IF p = w THEN "reap" ELSE state[p]
  BY <1>2, <1>3, <1>4 DEF States, Threads
<1>10. /\ waiters[q] \in Seq(Procs) /\ Once(waiters[q]) /\ ~In(cp, waiters[q])
  BY <1>3, WaitersFacts
<1>11. Append(waiters[q], cp) \in Seq(Procs) /\ <<>> \in Seq(Procs)
  BY <1>3, <1>10, AppendOnce, EmptySeq
<1>12. /\ waiters' \in [PCBs -> Seq(Procs)]
       /\ waiters'[cp] = <<>> /\ waiters'[q] = Append(waiters[q], cp)
       /\ \A p \in PCBs \ {cp, q} : waiters'[p] = waiters[p]
  BY <1>1, <1>3, <1>4, <1>11
<1>13. /\ \A p \in Procs \ {cp, q} : state'[p] = state[p]
       /\ \/ /\ \A p \in Procs \ {cp} : state'[p] = state[p]
             /\ q \in Procs => state[q] # "waiting"
             /\ waiter_sem'[q].credit = waiter_sem[q].credit + 1
          \/ /\ q \in Procs /\ state[q] = "waiting" /\ state'[q] = "reap"
             /\ waiter_sem'[q].credit = waiter_sem[q].credit
  <2>1. CASE w = NoThread BY <1>4, <1>6, <1>8, <1>9, <2>1
  <2>2. CASE w = q /\ q \in Procs BY <1>3, <1>4, <1>6, <1>8, <1>9, <2>2
  <2> QED BY <1>6, <2>1, <2>2
<1> QED BY <1>3, <1>7, <1>8, <1>9, <1>10, <1>12, <1>13 DEF q

LEMMA ExitSInv == ASSUME SInv, Exit PROVE SInv'
<1> DEFINE q == parent[cp]
<1>1. /\ used' = used \ {partition[cp]} /\ pids' = Destroyed(Queued(cp))
      /\ cp # NoProc /\ cp' = NoProc /\ UNCHANGED <<readyq, parent, pid, partition>>
  BY DEF Exit, Released
<1>2. /\ cp \in Procs /\ q \in PCBs /\ q # cp /\ state[cp] = "user"
      /\ state' \in [Procs -> States] /\ state'[cp] = "zombie"
      /\ \A p \in Procs \ {cp, q} : state'[p] = state[p]
  BY ExitFacts
<1>3. \/ /\ \A p \in Procs \ {cp} : state'[p] = state[p]
         /\ q \in Procs => state[q] # "waiting"
         /\ waiter_sem'[q].credit = waiter_sem[q].credit + 1
      \/ /\ q \in Procs /\ state[q] = "waiting" /\ state'[q] = "reap"
         /\ waiter_sem'[q].credit = waiter_sem[q].credit
  BY ExitFacts
<1>4. /\ waiter_sem' \in [PCBs -> [credit : Nat, wait : SUBSET Procs]]
      /\ waiter_sem'[q].wait = {}
      /\ \A p \in PCBs \ {q} : waiter_sem'[p] = waiter_sem[p]
  BY ExitFacts
<1>5. /\ waiters' \in [PCBs -> Seq(Procs)]
      /\ waiters'[cp] = <<>> /\ waiters'[q] = Append(waiters[q], cp)
      /\ \A p \in PCBs \ {cp, q} : waiters'[p] = waiters[p]
      /\ ~In(cp, waiters[q])
  BY ExitFacts
<1>6. /\ Len(waiters'[q]) = Len(waiters[q]) + 1 /\ Once(waiters'[q])
      /\ \A z : In(z, waiters'[q]) <=> In(z, waiters[q]) \/ z = cp
      /\ waiters'[q] # <<>> /\ Len(waiters[q]) \in Nat
  <2>1. waiters[q] \in Seq(Procs) /\ Once(waiters[q]) BY <1>2, WaitersFacts
  <2> DEFINE r == waiters[q]
  <2> HIDE DEF q
  <2>2. Len(r) \in Nat /\ Append(r, cp) # <<>> BY <1>2, <2>1, AppendProperties, LenProperties
  <2> HIDE DEF r
  <2>3. /\ Once(Append(r, cp)) /\ Len(Append(r, cp)) = Len(r) + 1
        /\ \A z : In(z, Append(r, cp)) <=> In(z, r) \/ z = cp
    BY <1>2, <1>5, <2>1, AppendOnce DEF r
  <2> QED BY <1>5, <2>2, <2>3 DEF r
<1>7. q \in Procs => state[q] # "unborn" BY <1>2 DEF SInv, Family
<1>8. waiter_sem[q].credit \in Nat BY <1>2 DEF SInv, TypeOK
<1>9. Len(<<>>) = 0 BY EmptySeq
<1> HIDE DEF q
<1>10. TypeOK'
  <2>1. Queued(cp) \in SUBSET Procs BY <1>2, WaitersFacts DEF PCBs
  <2>2. pids' \in [Pids -> Nat] BY <1>1, <2>1, DestroyedFacts DEF SInv
  <2> QED BY <1>1, <1>2, <1>4, <1>5, <2>2 DEF SInv, TypeOK
<1>11. RunsOnce'
  <2>1. \A p \in Procs \ {cp} : state'[p] = "user" <=> state[p] = "user"
    BY <1>2, <1>3
  <2> QED BY <1>1, <1>2, <2>1, Leaves
<1>12. Sleepers'
  <2> SUFFICES ASSUME NEW p \in PCBs
               PROVE  /\ waiter_sem'[p].wait =
                           IF p \in Procs /\ state'[p] = "waiting" THEN {p} ELSE {}
                      /\ waiter_sem'[p].wait # {} => waiter_sem'[p].credit = 0
    BY DEF Sleepers
  <2>1. CASE p = q BY <1>2, <1>3, <1>4, <2>1
  <2>2. CASE p = cp
    <3>1. waiter_sem[cp].wait = {} BY <1>2, <2>2 DEF SInv, Sleepers
    <3> QED BY <1>2, <1>4, <2>2, <3>1
  <2>3. CASE p \notin {cp, q} BY <1>2, <1>4, <2>3 DEF SInv, Sleepers
  <2> QED BY <2>1, <2>2, <2>3
<1>13. Family' BY <1>1, <1>2, <1>3 DEF SInv, Family
<1>14. ZombiesQueue'
  <2> SUFFICES ASSUME NEW p \in PCBs
               PROVE  /\ Once(waiters'[p])
                      /\ \A z : In(z, waiters'[p]) => state'[z] = "zombie" /\ parent[z] = p
    <3>1. \A p \in PCBs : \A i \in 1 .. Len(waiters'[p]) : In(waiters'[p][i], waiters'[p])
      BY DEF In
    <3> QED BY <1>1, <3>1 DEF ZombiesQueue, Once
  <2>1. \A z : In(z, waiters[p]) => z \in Procs /\ state[z] = "zombie" /\ parent[z] = p
    BY WaitersFacts
  <2>2. \A z \in Procs : state[z] = "zombie" => state'[z] = "zombie"
    BY <1>2, <1>3
  <2>3. CASE p = q BY <1>2, <1>6, <2>1, <2>2, <2>3 DEF q
  <2>4. CASE p = cp BY <1>5, <1>9, <2>4 DEF Once, In
  <2>5. CASE p \notin {cp, q}
    <3>1. Once(waiters[p]) BY WaitersFacts
    <3> QED BY <1>5, <2>1, <2>2, <2>5, <3>1
  <2> QED BY <2>3, <2>4, <2>5
<1>15. Unborn'
  <2> SUFFICES ASSUME NEW p \in Procs, state'[p] = "unborn"
               PROVE  waiters'[p] = <<>> /\ waiter_sem'[p].credit = 0
    BY DEF Unborn
  <2>1. p # cp /\ p # q /\ state[p] = "unborn" /\ p \in PCBs BY <1>2, <1>3, <1>7 DEF PCBs
  <2> QED BY <1>4, <1>5, <2>1 DEF SInv, Unborn
<1>16. ZombiesAreCounted'
  <2> SUFFICES ASSUME NEW p \in PCBs
               PROVE  /\ Len(waiters'[p]) > 0 => waiter_sem'[p].wait = {}
                      /\ p \in Alive' => Len(waiters'[p]) =
                           waiter_sem'[p].credit + (IF state'[p] = "reap" THEN 1 ELSE 0)
    BY DEF ZombiesAreCounted
  <2>1. CASE p = q
    <3>1. ASSUME p \in Alive'
          PROVE  Len(waiters'[p]) =
                   waiter_sem'[p].credit + (IF state'[p] = "reap" THEN 1 ELSE 0)
      <4>1. p \in Procs /\ state'[p] \notin {"unborn", "zombie"} BY <3>1 DEF Alive
      <4>2. p \in Alive BY <1>2, <1>3, <2>1, <4>1 DEF Alive
      <4>3. Len(waiters[p]) = waiter_sem[p].credit + (IF state[p] = "reap" THEN 1 ELSE 0)
        BY <4>2 DEF SInv, ZombiesAreCounted
      <4>4. p # cp /\ Len(waiters'[p]) = Len(waiters[p]) + 1 /\ waiter_sem[p].credit \in Nat
        BY <1>2, <1>6, <1>8, <2>1
      <4>5. CASE /\ state'[p] = state[p]
                 /\ waiter_sem'[p].credit = waiter_sem[p].credit + 1
        BY <4>3, <4>4, <4>5
      <4>6. CASE /\ state[p] = "waiting" /\ state'[p] = "reap"
                 /\ waiter_sem'[p].credit = waiter_sem[p].credit
        BY <4>3, <4>4, <4>6
      <4> QED BY <1>3, <2>1, <4>1, <4>4, <4>5, <4>6
    <3> QED BY <1>4, <2>1, <3>1
  <2>2. CASE p = cp
    <3>1. Len(waiters'[p]) = 0 BY <1>5, <1>9, <2>2
    <3>2. p \notin Alive' BY <1>2, <2>2 DEF Alive
    <3> QED BY <3>1, <3>2
  <2>3. CASE p \notin {cp, q}
    <3>1. p \in Alive' => p \in Alive /\ state'[p] = state[p]
      BY <1>2, <2>3 DEF Alive
    <3>2. waiters'[p] = waiters[p] /\ waiter_sem'[p] = waiter_sem[p] BY <1>4, <1>5, <2>3
    <3> QED BY <3>1, <3>2 DEF SInv, ZombiesAreCounted
  <2> QED BY <2>1, <2>2, <2>3
<1> QED BY <1>10, <1>11, <1>12, <1>13, <1>14, <1>15, <1>16 DEF SInv

\* What do_wait does when it goes on: the list is not empty.
LEMMA ReapFacts ==
  ASSUME SInv, NEW p \in Procs, Reap(p)
  PROVE  /\ p \in PCBs /\ p \in Alive /\ waiters[p] # <<>>
         /\ Head(waiters[p]) \in Queued(p)
         /\ pids' = Destroyed({Head(waiters[p])})
         /\ waiters' \in [PCBs -> Seq(Procs)] /\ Once(waiters'[p])
         /\ Len(waiters'[p]) = Len(waiters[p]) - 1 /\ Len(waiters[p]) \in Nat
         /\ \A z : In(z, waiters'[p]) <=> In(z, waiters[p]) /\ z # Head(waiters[p])
         /\ \A o \in PCBs \ {p} : waiters'[o] = waiters[o]
         /\ state' \in [Procs -> States] /\ state'[p] = "user"
         /\ \A o \in Procs \ {p} : state'[o] = state[o]
         /\ Len(waiters[p]) = waiter_sem[p].credit + 1
<1>1. /\ state[p] = "reap" /\ state' = [state EXCEPT ![p] = "user"] BY DEF Reap
<1>2. p \in PCBs /\ p \in Alive BY <1>1 DEF PCBs, Alive
<1>3. /\ waiters[p] \in Seq(Procs) /\ Once(waiters[p]) /\ Len(waiters[p]) \in Nat
      /\ \A z : z \in Queued(p) <=> In(z, waiters[p])
  BY <1>2, WaitersFacts
<1>4. Len(waiters[p]) = waiter_sem[p].credit + 1
  BY <1>1, <1>2 DEF SInv, ZombiesAreCounted
<1>5. waiter_sem[p].credit \in Nat BY <1>2 DEF SInv, TypeOK
<1>6. waiters[p] # <<>>
  <2>1. Len(waiters[p]) # 0 BY <1>4, <1>5
  <2> QED BY <2>1, EmptySeq
<1>7. /\ pids' = Destroyed({Head(waiters[p])})
      /\ waiters' = [waiters EXCEPT ![p] = Tail(waiters[p])]
  BY <1>6 DEF Reap, Left
<1>8. /\ Tail(waiters[p]) \in Seq(Procs) /\ Once(Tail(waiters[p]))
      /\ Len(Tail(waiters[p])) = Len(waiters[p]) - 1
      /\ In(Head(waiters[p]), waiters[p])
      /\ \A z : In(z, Tail(waiters[p])) <=> In(z, waiters[p]) /\ z # Head(waiters[p])
  BY <1>3, <1>6, TailOnce
<1>9. /\ waiters' \in [PCBs -> Seq(Procs)] /\ waiters'[p] = Tail(waiters[p])
      /\ \A o \in PCBs \ {p} : waiters'[o] = waiters[o]
  BY <1>2, <1>7, <1>8 DEF SInv, TypeOK
<1>10. /\ state' \in [Procs -> States] /\ state'[p] = "user"
       /\ \A o \in Procs \ {p} : state'[o] = state[o]
  BY <1>1 DEF SInv, TypeOK, States
<1> QED BY <1>2, <1>3, <1>4, <1>6, <1>7, <1>8, <1>9, <1>10

LEMMA ReapSInv == ASSUME SInv, NEW p \in Procs, Reap(p) PROVE SInv'
<1>1. /\ state[p] = "reap" /\ readyq' = Enqueued(p)
      /\ UNCHANGED <<cp, parent, pid, partition, used, waiter_sem>>
  BY DEF Reap
<1> DEFINE h == Head(waiters[p])
<1>2. /\ p \in PCBs /\ p \in Alive /\ h \in Queued(p) /\ pids' = Destroyed({h})
      /\ waiters' \in [PCBs -> Seq(Procs)] /\ Once(waiters'[p])
      /\ Len(waiters'[p]) = Len(waiters[p]) - 1 /\ Len(waiters[p]) \in Nat
      /\ \A z : In(z, waiters'[p]) <=> In(z, waiters[p]) /\ z # h
      /\ \A o \in PCBs \ {p} : waiters'[o] = waiters[o]
      /\ Len(waiters[p]) = waiter_sem[p].credit + 1
  BY ReapFacts
<1>3. /\ state' \in [Procs -> States] /\ state'[p] = "user"
      /\ \A o \in Procs \ {p} : state'[o] = state[o]
  BY ReapFacts
<1>4. h \in Procs BY <1>2, WaitersFacts
<1> HIDE DEF h
<1>5. /\ \A o \in Procs : state[o] = "user" <=> (o = cp \/ In(o, readyq))
      /\ cp \in Procs \cup {NoProc}
  BY RunsOnceIs DEF SInv, TypeOK
<1>6. readyq' \in Seq(Procs) /\ cp' \in Procs \cup {NoProc} /\ RunsOnce'
  <2>1. \A o \in Procs : state'[o] = "user" <=> (o = cp' \/ o = p \/ In(o, readyq))
    BY <1>1, <1>3, <1>5
  <2>2. p # cp /\ ~In(p, readyq) BY <1>1, <1>5
  <2> QED BY <1>1, <2>1, <2>2, QueuedOnce
<1>7. TypeOK'
  <2>1. pids' \in [Pids -> Nat] BY <1>2, <1>4, DestroyedFacts DEF SInv
  <2> QED BY <1>1, <1>2, <1>3, <1>6, <2>1 DEF SInv, TypeOK
<1>8. Sleepers' BY <1>1, <1>3 DEF SInv, Sleepers
<1>9. Family' BY <1>1, <1>3 DEF SInv, Family
<1>10. ZombiesQueue'
  <2> SUFFICES ASSUME NEW o \in PCBs
               PROVE  /\ Once(waiters'[o])
                      /\ \A z : In(z, waiters'[o]) => state'[z] = "zombie" /\ parent[z] = o
    <3>1. \A o \in PCBs : \A i \in 1 .. Len(waiters'[o]) : In(waiters'[o][i], waiters'[o])
      BY DEF In
    <3> QED BY <1>1, <3>1 DEF ZombiesQueue, Once
  <2>1. /\ Once(waiters[o])
        /\ \A z : In(z, waiters[o]) => z \in Procs /\ state[z] = "zombie" /\ parent[z] = o
    BY WaitersFacts
  <2>2. \A z \in Procs : state[z] = "zombie" => state'[z] = "zombie" BY <1>1, <1>3
  <2> QED BY <1>2, <2>1, <2>2
<1>11. Unborn'
  <2> SUFFICES ASSUME NEW o \in Procs, state'[o] = "unborn"
               PROVE  waiters'[o] = <<>> /\ waiter_sem'[o].credit = 0
    BY DEF Unborn
  <2>1. o # p /\ state[o] = "unborn" /\ o \in PCBs BY <1>3 DEF PCBs
  <2> QED BY <1>1, <1>2, <2>1 DEF SInv, Unborn
<1>12. ZombiesAreCounted'
  <2> SUFFICES ASSUME NEW o \in PCBs
               PROVE  /\ Len(waiters'[o]) > 0 => waiter_sem[o].wait = {}
                      /\ o \in Alive' => Len(waiters'[o]) =
                           waiter_sem[o].credit + (IF state'[o] = "reap" THEN 1 ELSE 0)
    BY <1>1 DEF ZombiesAreCounted
  <2>1. CASE o = p
    <3>1. waiter_sem[p].credit \in Nat BY <1>2 DEF SInv, TypeOK
    <3>2. waiter_sem[p].wait = {} BY <1>1, <1>2 DEF SInv, Sleepers
    <3> QED BY <1>2, <1>3, <2>1, <3>1, <3>2
  <2>2. CASE o # p
    <3>1. waiters'[o] = waiters[o] BY <1>2, <2>2
    <3>2. o \in Alive' => o \in Alive /\ state'[o] = state[o] BY <1>3, <2>2 DEF Alive
    <3> QED BY <3>1, <3>2 DEF SInv, ZombiesAreCounted
  <2> QED BY <2>1, <2>2
<1> QED BY <1>6, <1>7, <1>8, <1>9, <1>10, <1>11, <1>12 DEF SInv

\* The beginning: one process, which is on the ready queue.
LEMMA InitSInv == ASSUME Init PROVE SInv
<1>1. /\ cp = NoProc /\ readyq = <<First>>
      /\ state = [p \in Procs |-> IF p = First THEN "user" ELSE "unborn"]
      /\ parent = [p \in Procs |-> init]
      /\ pid = [p \in PCBs |-> CASE p = init -> 1 [] p = First -> 2 [] OTHER -> 0]
      /\ partition = [p \in Procs |-> 0] /\ used = {0}
      /\ pids = [i \in Pids |-> IF i <= 2 THEN 1 ELSE 0]
      /\ waiters = [p \in PCBs |-> <<>>]
      /\ waiter_sem = [p \in PCBs |-> NewSem(0)]
  BY DEF Init
<1>2. /\ First \in Procs /\ init \notin Procs /\ NoProc \notin Procs
      /\ NParts \in Nat \ {0} /\ First # init
  BY SosProcsAssumption
<1>3. /\ readyq \in Seq(Procs) /\ Len(readyq) = 1 /\ readyq[1] = First
      /\ <<>> \in Seq(Procs) /\ Len(<<>>) = 0
  BY <1>1, <1>2, EmptySeq
<1>4. /\ NewSem(0) \in [credit : Nat, wait : SUBSET Procs]
      /\ NewSem(0).credit = 0 /\ NewSem(0).wait = {}
  BY DEF NewSem
<1>5. \A p \in PCBs : waiters[p] = <<>> /\ waiter_sem[p] = NewSem(0) BY <1>1
<1>6. TypeOK
  <2>1. state \in [Procs -> States] BY <1>1 DEF States
  <2>2. parent \in [Procs -> PCBs] BY <1>1 DEF PCBs
  <2>3. pid \in [PCBs -> Nat]
    <3>1. \A p \in PCBs : (CASE p = init -> 1 [] p = First -> 2 [] OTHER -> 0) \in Nat
      BY <1>2
    <3> QED BY <1>1, <3>1
  <2>4. partition \in [Procs -> 0 .. NParts - 1] /\ used \subseteq 0 .. NParts - 1
    BY <1>1, <1>2
  <2>5. pids \in [Pids -> Nat] BY <1>1
  <2>6. waiters \in [PCBs -> Seq(Procs)] BY <1>1, <1>3
  <2>7. waiter_sem \in [PCBs -> [credit : Nat, wait : SUBSET Procs]] BY <1>1, <1>4
  <2> QED BY <1>1, <1>3, <2>1, <2>2, <2>3, <2>4, <2>5, <2>6, <2>7 DEF TypeOK
<1>7. RunsOnce
  <2>1. 1 .. Len(readyq) = {1} BY <1>3
  <2>2. \A p \in Procs : state[p] = "user" <=> p = First BY <1>1
  <2> QED BY <1>1, <1>2, <1>3, <2>1, <2>2 DEF RunsOnce
<1>8. Sleepers
  <2>1. \A p \in Procs : state[p] # "waiting" BY <1>1
  <2> QED BY <1>4, <1>5, <2>1 DEF Sleepers
<1>9. Family BY <1>1, <1>2 DEF Family
<1>10. ZombiesQueue BY <1>3, <1>5 DEF ZombiesQueue
<1>11. Unborn BY <1>4, <1>5 DEF Unborn, PCBs
<1>12. ZombiesAreCounted
  <2>1. \A p \in Procs : state[p] # "reap" BY <1>1
  <2>2. Alive \subseteq Procs BY DEF Alive
  <2> QED BY <1>3, <1>4, <1>5, <2>1, <2>2 DEF ZombiesAreCounted
<1> QED BY <1>6, <1>7, <1>8, <1>9, <1>10, <1>11, <1>12 DEF SInv

LEMMA NextSInv == ASSUME SInv, [Next]_vars PROVE SInv'
<1>1. CASE UNCHANGED vars
  <2>1. UNCHANGED <<cp, readyq, state, parent, pid, partition, used, pids, waiters, waiter_sem>>
    BY <1>1 DEF vars
  <2>2. TypeOK' BY <2>1 DEF SInv, TypeOK
  <2>3. RunsOnce' BY <2>1 DEF SInv, RunsOnce
  <2>4. /\ Sleepers' /\ Family' /\ ZombiesQueue' /\ Unborn' /\ ZombiesAreCounted'
    BY <2>1, RestKept
  <2> QED BY <2>2, <2>3, <2>4 DEF SInv
<1>2. CASE Dispatch BY <1>2, DispatchSInv
<1>3. CASE Interrupt BY <1>3, InterruptSInv
<1>4. CASE Fault BY <1>4, FaultSInv
<1>5. CASE Exit BY <1>5, ExitSInv
<1>6. CASE Wait BY <1>6, WaitSInv
<1>7. CASE \E c \in Procs : Fork(c) BY <1>7, ForkSInv
<1>8. CASE \E p \in Procs : Thread(p) BY <1>8, FinishSInv, ReapSInv DEF Thread
<1> QED BY <1>1, <1>2, <1>3, <1>4, <1>5, <1>6, <1>7, <1>8 DEF Next

\* Whatever the processes call and whenever they are interrupted, the variables
\* keep their types.
THEOREM TypeCorrect == Spec => []TypeOK
<1>1. SInv => TypeOK BY DEF SInv
<1> QED BY <1>1, InitSInv, NextSInv, PTL DEF Spec

\* A process is on the ready queue once, and only while it can run.
THEOREM ReadyOnce == Spec => []RunsOnce
<1>1. SInv => RunsOnce BY DEF SInv
<1> QED BY <1>1, InitSInv, NextSInv, PTL DEF Spec

\* waiter_sem counts the zombies on the list of a parent that nobody is about to
\* take: wait() neither sleeps over a zombie nor wakes up to an empty list.
THEOREM ZombiesCounted == Spec => []ZombiesAreCounted
<1>1. SInv => ZombiesAreCounted BY DEF SInv
<1> QED BY <1>1, InitSInv, NextSInv, PTL DEF Spec
-----------------------------------------------------------------------------
(* Whose turn it is.                                                       *)

\* Who has a thread in the kernel, and who could run but does not.
Pending  == {q \in Procs : state[q] \in Threads}
Ready(p) == state[p] \in {"user"} \cup Threads /\ p # cp

\* The processes that may get the CPU before p does, and p: those on the ready
\* queue up to p, or all of them and whoever the kernel threads put there.
Place(p, q) == CHOOSE i \in 1 .. Len(q) : q[i] = p
Position(p) ==
  IF state[p] \in Threads THEN Len(readyq) + Cardinality(Pending) ELSE Place(p, readyq)

\* The steps to the next dispatch: a process that has the CPU gives it up, then
\* the threads of the kernel run.
Work == IF cp = NoProc THEN Cardinality(Pending) ELSE Cardinality(Procs) + 1

Nearer(p) == \/ Position(p)' < Position(p)
             \/ Position(p)' = Position(p) /\ Work' < Work

\* A process has the CPU only when no thread of the kernel can run.
Quiet == cp # NoProc => Quiescent

LEMMA QuietStep == SInv /\ Quiet /\ [Next]_vars => Quiet'
<1> SUFFICES ASSUME SInv, Quiet, [Next]_vars PROVE Quiet'
  OBVIOUS
<1>1. CASE Dispatch BY <1>1 DEF Dispatch, Quiet, Quiescent
<1>2. CASE Interrupt \/ Fault \/ Exit \/ Wait
  BY <1>2 DEF Interrupt, Fault, Exit, Wait, Quiet
<1>3. CASE \E c \in Procs : Fork(c) BY <1>3 DEF Fork, Quiet
<1>4. CASE \E p \in Procs : Thread(p)
  BY <1>4 DEF Thread, Finish, Reap, Quiet, Quiescent, Threads
<1>5. CASE UNCHANGED vars BY <1>5 DEF vars, Quiet, Quiescent
<1> QED BY <1>1, <1>2, <1>3, <1>4, <1>5 DEF Next

LEMMA PendingAre ==
  /\ IsFiniteSet(Pending) /\ Cardinality(Pending) \in Nat
  /\ Cardinality(Procs) \in Nat /\ Cardinality(Pending) <= Cardinality(Procs)
<1>1. IsFiniteSet(Procs) /\ Pending \subseteq Procs
  BY SosProcsAssumption DEF Pending
<1> QED BY <1>1, FS_Subset, FS_CardinalityType

\* ... also in the next state.
LEMMA PendingNext ==
  /\ IsFiniteSet(Pending') /\ Cardinality(Pending') \in Nat
  /\ Cardinality(Pending') <= Cardinality(Procs)
<1>1. IsFiniteSet(Procs) /\ Pending' \subseteq Procs
  BY SosProcsAssumption DEF Pending
<1> QED BY <1>1, FS_Subset, FS_CardinalityType

LEMMA PlaceIs ==
  ASSUME NEW q \in Seq(Procs), Once(q), NEW p, NEW i \in 1 .. Len(q), q[i] = p
  PROVE  Place(p, q) = i
<1>1. \A j \in 1 .. Len(q) : q[j] = p => j = i
  BY DEF Once
<1> QED BY <1>1 DEF Place

\* A place is kept when somebody else comes to the end.
LEMMA PlaceStays ==
  ASSUME NEW q \in Seq(Procs), Once(q), NEW p, In(p, q), NEW c \in Procs, ~In(c, q)
  PROVE  /\ Place(p, Append(q, c)) = Place(p, q) /\ Place(p, q) \in 1 .. Len(q)
         /\ Place(c, Append(q, c)) = Len(q) + 1
<1>1. PICK i \in 1 .. Len(q) : q[i] = p BY DEF In
<1>2. /\ Append(q, c) \in Seq(Procs) /\ Once(Append(q, c))
      /\ Len(Append(q, c)) = Len(q) + 1
  BY AppendOnce
<1>3. Len(q) \in Nat /\ Append(q, c)[i] = q[i] /\ Append(q, c)[Len(q) + 1] = c
  BY <1>1, AppendProperties, LenProperties
<1>4. Place(p, q) = i BY <1>1, PlaceIs
<1> DEFINE r == Append(q, c)
<1> HIDE DEF r
<1>5. i \in 1 .. Len(r) /\ r[i] = p /\ Len(q) + 1 \in 1 .. Len(r)
      /\ r[Len(q) + 1] = c /\ r \in Seq(Procs) /\ Once(r)
  BY <1>1, <1>2, <1>3 DEF r
<1>6. Place(p, r) = i BY <1>5, PlaceIs
<1>7. Place(c, r) = Len(q) + 1 BY <1>5, PlaceIs
<1> QED BY <1>1, <1>4, <1>6, <1>7 DEF r

\* Who is ready is on the queue, or has a thread.
LEMMA ReadyIs ==
  ASSUME SInv, NEW p \in Procs, Ready(p), state[p] \notin Threads
  PROVE  In(p, readyq) /\ state[p] = "user"
BY RunsOnceIs DEF SInv, Ready

\* A call, an interrupt or a fault: the process leaves the CPU.
LEMMA LeaveNearer ==
  ASSUME SInv, SInv', Quiet, cp # NoProc, cp' = NoProc,
         readyq' = readyq \/ readyq' = Enqueued(cp),
         \A q \in Procs \ {cp} : state[q] = "user" => state'[q] = "user",
         NEW p \in Procs, Ready(p)
  PROVE  Ready(p)' /\ Nearer(p)
<1>1. state[p] \notin Threads BY DEF Quiet, Quiescent
<1>2. In(p, readyq) /\ state[p] = "user" BY <1>1, ReadyIs
<1>3. /\ cp \in Procs /\ ~In(cp, readyq) /\ readyq \in Seq(Procs) /\ Once(readyq)
  BY Running
<1>4. Place(p, readyq') = Place(p, readyq)
  BY <1>2, <1>3, PlaceStays DEF Enqueued
<1>5. state'[p] = "user" /\ p # cp'
  BY <1>2, SosProcsAssumption DEF Ready
<1>6. Ready(p)' BY <1>5 DEF Ready
<1>7. Position(p)' = Position(p)
  BY <1>1, <1>4, <1>5 DEF Position, Threads
<1>8. Work' < Work
  BY PendingNext, PendingAre DEF Work
<1> QED BY <1>6, <1>7, <1>8 DEF Nearer

LEMMA CallNearer ==
  ASSUME SInv, SInv', Quiet, NEW p \in Procs, Ready(p),
         \/ Interrupt \/ Fault \/ Exit \/ Wait \/ \E c \in Procs : Fork(c)
  PROVE  Ready(p)' /\ Nearer(p)
<1>1. state \in [Procs -> States] BY DEF SInv, TypeOK
<1>2. CASE Interrupt BY <1>2, LeaveNearer DEF Interrupt
<1>3. CASE Fault
  <2>1. cp \in Procs BY <1>3, Running DEF Fault
  <2>2. \A q \in Procs \ {cp} : state'[q] = state[q] BY <1>1, <1>3, <2>1 DEF Fault
  <2> QED BY <1>3, <2>2, LeaveNearer DEF Fault
<1>4. CASE Exit
  <2> DEFINE q == parent[cp]
  <2>1. /\ \A r \in Procs \ {cp, q} : state'[r] = state[r]
        /\ \/ \A r \in Procs \ {cp} : state'[r] = state[r]
           \/ q \in Procs /\ state[q] = "waiting"
    BY <1>4, ExitFacts
  <2>2. \A r \in Procs \ {cp} : state[r] = "user" => state'[r] = "user"
    <3> HIDE DEF q
    <3> QED BY <2>1
  <2>3. cp # NoProc /\ cp' = NoProc /\ readyq' = readyq BY <1>4 DEF Exit
  <2> QED BY <2>2, <2>3, LeaveNearer
<1>5. CASE Wait
  <2>1. cp \in Procs BY <1>5, Running DEF Wait
  <2>2. \A q \in Procs \ {cp} : state'[q] = state[q] BY <1>1, <1>5, <2>1 DEF Wait
  <2> QED BY <1>5, <2>2, LeaveNearer DEF Wait
<1>6. CASE \E c \in Procs : Fork(c)
  <2>1. PICK c \in Procs : Fork(c) BY <1>6
  <2>2. \A q \in Procs : state[q] = "user" => state'[q] = state[q]
    BY <1>1, <2>1 DEF Fork
  <2>3. cp # NoProc /\ cp' = NoProc /\ readyq' = Enqueued(cp) BY <2>1 DEF Fork
  <2> QED BY <2>2, <2>3, LeaveNearer
<1> QED BY <1>2, <1>3, <1>4, <1>5, <1>6

LEMMA DispatchNearer ==
  ASSUME SInv, Dispatch, NEW p \in Procs, Ready(p), p # cp'
  PROVE  Ready(p)' /\ Nearer(p)
<1>1. /\ Quiescent /\ cp' = Head(readyq) /\ readyq' = Tail(readyq) /\ readyq # << >>
      /\ state' = state
  BY DEF Dispatch
<1>2. state[p] \notin Threads BY <1>1 DEF Quiescent
<1>3. In(p, readyq) BY <1>2, ReadyIs
<1>4. readyq \in Seq(Procs) /\ Once(readyq) BY RunsOnceIs DEF SInv, TypeOK
<1> DEFINE q == readyq
           r == Tail(readyq)
<1>5. PICK i \in 1 .. Len(q) : q[i] = p BY <1>3 DEF In
<1>6. Place(p, q) = i BY <1>4, <1>5, PlaceIs
<1>7. /\ r \in Seq(Procs) /\ Once(r) /\ Len(r) = Len(q) - 1 /\ Head(q) = q[1]
  BY <1>1, <1>4, TailOnce
<1>8. \A j \in 1 .. Len(r) : r[j] = q[j + 1]
  BY <1>1, <1>4, HeadTailProperties
<1>9. i - 1 \in 1 .. Len(r) /\ r[i - 1] = p
  <2>1. Len(q) \in Nat BY <1>4, LenProperties
  <2>2. i # 1 BY <1>1, <1>5, <1>7
  <2> HIDE DEF q, r
  <2>3. i - 1 \in 1 .. Len(r) BY <1>5, <1>7, <2>1, <2>2
  <2> QED BY <1>5, <1>8, <2>3
<1>10. Place(p, r) = i - 1
  <2> HIDE DEF r
  <2> QED BY <1>7, <1>9, PlaceIs
<1>11. Position(p) = i /\ Position(p)' = i - 1
  BY <1>1, <1>2, <1>6, <1>10 DEF Position
<1>12. Ready(p)' BY <1>1 DEF Ready
<1> QED BY <1>11, <1>12 DEF Nearer

LEMMA ThreadNearer ==
  ASSUME SInv, SInv', Quiet, NEW q \in Procs, Thread(q), NEW p \in Procs, Ready(p)
  PROVE  Ready(p)' /\ Nearer(p)
<1>1. /\ state[q] \in Threads /\ state' = [state EXCEPT ![q] = "user"]
      /\ readyq' = Enqueued(q) /\ cp' = cp
  BY DEF Thread, Finish, Reap, Threads
<1>2. cp = NoProc BY <1>1 DEF Quiet, Quiescent
<1>3. state'[q] = "user" /\ \A r \in Procs \ {q} : state'[r] = state[r]
  BY <1>1 DEF SInv, TypeOK
<1>4. Pending' = Pending \ {q} /\ q \in Pending
  BY <1>1, <1>3 DEF Pending, Threads
<1>5. Cardinality(Pending') = Cardinality(Pending) - 1
  BY <1>4, PendingAre, FS_RemoveElement
<1>6. readyq \in Seq(Procs) /\ Once(readyq) /\ ~In(q, readyq) /\ Len(readyq) \in Nat
  BY <1>1, RunsOnceIs, LenProperties DEF SInv, TypeOK, Threads
<1>7. Work' < Work BY <1>1, <1>2, <1>5, PendingAre DEF Work
<1>8. Ready(p)'
  <2>1. state'[p] \in {"user"} \cup Threads BY <1>3 DEF Ready
  <2> QED BY <1>1, <2>1 DEF Ready
<1>9. Cardinality(Pending) >= 1
  BY <1>5, PendingAre, PendingNext
<1>10. CASE p = q
  <2>1. Place(q, readyq') = Len(readyq) + 1
    <3>1. Append(readyq, q) \in Seq(Procs) /\ Once(Append(readyq, q))
          /\ Len(Append(readyq, q)) = Len(readyq) + 1
      BY <1>6, AppendOnce
    <3>2. Append(readyq, q)[Len(readyq) + 1] = q
      BY <1>6, AppendProperties
    <3> DEFINE r == Append(readyq, q)
    <3> HIDE DEF r
    <3>3. r \in Seq(Procs) /\ Once(r) /\ Len(readyq) + 1 \in 1 .. Len(r)
          /\ r[Len(readyq) + 1] = q
      BY <1>6, <3>1, <3>2 DEF r
    <3>4. Place(q, r) = Len(readyq) + 1 BY <3>3, PlaceIs
    <3> QED BY <1>1, <3>4 DEF r, Enqueued
  <2>2. Position(p)' = Len(readyq) + 1
    BY <1>3, <1>10, <2>1 DEF Position, Threads
  <2>3. Position(p) = Len(readyq) + Cardinality(Pending)
    BY <1>1, <1>10 DEF Position
  <2> QED BY <1>6, <1>7, <1>8, <1>9, <2>2, <2>3, PendingAre DEF Nearer
<1>11. CASE p # q /\ state[p] \in Threads
  <2>1. Len(readyq') = Len(readyq) + 1
    BY <1>1, <1>6, AppendOnce DEF Enqueued
  <2>2. Position(p)' = Len(readyq') + Cardinality(Pending')
    BY <1>3, <1>11 DEF Position
  <2>3. Position(p) = Len(readyq) + Cardinality(Pending)
    BY <1>11 DEF Position
  <2>4. Position(p)' = Position(p)
    BY <1>5, <1>6, <2>1, <2>2, <2>3, PendingAre
  <2> QED BY <1>7, <1>8, <2>4 DEF Nearer
<1>12. CASE p # q /\ state[p] \notin Threads
  <2>1. In(p, readyq) BY <1>12, ReadyIs
  <2>2. Place(p, readyq') = Place(p, readyq)
    BY <1>1, <1>6, <2>1, PlaceStays DEF Enqueued
  <2>3. Position(p)' = Position(p)
    BY <1>3, <1>12, <2>2 DEF Position
  <2> QED BY <1>7, <1>8, <2>3 DEF Nearer
<1> QED BY <1>10, <1>11, <1>12

\* The ready queue and the kernel threads hold every process once.
LEMMA PositionIs ==
  ASSUME SInv, NEW p \in Procs, Ready(p)
  PROVE  Position(p) \in 1 .. Cardinality(Procs)
<1> DEFINE q == readyq
           held == {q[i] : i \in 1 .. Len(q)}
<1>1. q \in Seq(Procs) /\ Once(q) /\ Len(q) \in Nat
  BY RunsOnceIs, LenProperties DEF SInv, TypeOK
<1>2. \A i \in 1 .. Len(q) : q[i] \in Procs /\ state[q[i]] = "user"
  <2>1. \A i \in 1 .. Len(q) : q[i] \in Procs BY <1>1, ElementOfSeq
  <2> QED BY <2>1, RunsOnceIs DEF SInv, In
<1>3. IsFiniteSet(held) /\ Cardinality(held) = Len(q)
  <2> DEFINE n == Len(q)
             f == [i \in 1 .. n |-> q[i]]
  <2>1. n \in Nat BY <1>1
  <2>2. IsFiniteSet(1 .. n) /\ Cardinality(1 .. n) = n
    <3> HIDE DEF n
    <3>1. /\ IsFiniteSet(1 .. n)
          /\ Cardinality(1 .. n) = IF 1 > n THEN 0 ELSE n - 1 + 1
      BY <2>1, FS_Interval
    <3> QED BY <2>1, <3>1
  <2>3. \A i, j \in 1 .. n : q[i] = q[j] => i = j BY <1>1 DEF Once
  <2> HIDE DEF q, n
  <2>4. held = {q[i] : i \in 1 .. n} BY DEF n
  <2>5. f \in Injection(1 .. n, held)
    BY <2>3, <2>4 DEF Injection, IsInjective
  <2>6. f \in Surjection(1 .. n, held) BY <2>4 DEF Surjection
  <2>7. ExistsBijection(1 .. n, held)
    BY <2>5, <2>6 DEF ExistsBijection, Bijection
  <2> HIDE DEF f, held
  <2>8. IsFiniteSet(held) /\ Cardinality(held) = Cardinality(1 .. n)
    BY <2>2, <2>7, FS_Bijection
  <2> QED BY <2>2, <2>8 DEF n
<1>4. held \cap Pending = {} /\ held \cup Pending \subseteq Procs
  BY <1>2 DEF Pending, Threads
<1>5. Len(q) + Cardinality(Pending) <= Cardinality(Procs)
  <2> HIDE DEF held
  <2>1. Cardinality(held \cup Pending) = Cardinality(held) + Cardinality(Pending)
    <3>1. Cardinality(held \cup Pending)
            = Cardinality(held) + Cardinality(Pending) - Cardinality(held \cap Pending)
      BY <1>3, PendingAre, FS_Union
    <3>2. Cardinality(held \cap Pending) = 0 BY <1>4, FS_EmptySet
    <3> QED BY <1>1, <1>3, <3>1, <3>2, PendingAre
  <2>2. Cardinality(held \cup Pending) <= Cardinality(Procs)
    BY <1>4, FS_Subset, SosProcsAssumption
  <2> QED BY <1>3, <2>1, <2>2
<1>6. CASE state[p] \in Threads
  <2>1. p \in Pending BY <1>6 DEF Pending
  <2>2. Cardinality(Pending) # 0 BY <2>1, PendingAre, FS_EmptySet
  <2>3. Position(p) = Len(q) + Cardinality(Pending) BY <1>6 DEF Position
  <2> QED BY <1>1, <1>5, <2>2, <2>3, PendingAre
<1>7. CASE state[p] \notin Threads
  <2>1. PICK i \in 1 .. Len(q) : q[i] = p BY <1>7, ReadyIs DEF In
  <2>2. Position(p) = i BY <1>1, <1>7, <2>1, PlaceIs DEF Position
  <2> QED BY <1>1, <1>5, <2>1, <2>2, PendingAre
<1> QED BY <1>6, <1>7

\* The ready queue overtakes nobody: a process that can run is at most as far from
\* the CPU as there are processes, something can happen, and whatever happens, a
\* call, a fault, an interrupt or a step of the kernel, brings it nearer.
THEOREM EverybodyGetsNearer ==
  Spec => /\ [](\A p \in Procs : Ready(p) =>
                  /\ Position(p) \in 1 .. Cardinality(Procs)
                  /\ (cp = NoProc /\ Quiescent => readyq # << >>))
          /\ [][\A p \in Procs : Ready(p) => cp' = p \/ (Ready(p)' /\ Nearer(p))]_vars
<1>1. ASSUME SInv, NEW p \in Procs, Ready(p)
      PROVE  /\ Position(p) \in 1 .. Cardinality(Procs)
             /\ (cp = NoProc /\ Quiescent => readyq # << >>)
  <2>1. Position(p) \in 1 .. Cardinality(Procs) BY <1>1, PositionIs
  <2>2. ASSUME Quiescent PROVE readyq # << >>
    <3>1. In(p, readyq) BY <1>1, <2>2, ReadyIs DEF Quiescent
    <3> QED BY <3>1 DEF In
  <2> QED BY <2>1, <2>2
<1>2. ASSUME SInv, SInv', Quiet, [Next]_vars
      PROVE  [\A p \in Procs : Ready(p) => cp' = p \/ (Ready(p)' /\ Nearer(p))]_vars
  <2> SUFFICES ASSUME Next, NEW p \in Procs, Ready(p), cp' # p
               PROVE  Ready(p)' /\ Nearer(p)
    BY <1>2
  <2>1. CASE Dispatch BY <1>2, <2>1, DispatchNearer
  <2>2. CASE \/ Interrupt \/ Fault \/ Exit \/ Wait \/ \E c \in Procs : Fork(c)
    BY <1>2, <2>2, CallNearer
  <2>3. CASE \E q \in Procs : Thread(q) BY <1>2, <2>3, ThreadNearer
  <2> QED BY <2>1, <2>2, <2>3 DEF Next
<1>3. Init => Quiet BY DEF Init, Quiet
<1>4. Spec => [](SInv /\ Quiet)
  BY <1>3, InitSInv, NextSInv, QuietStep, PTL DEF Spec
<1>5. SInv => \A p \in Procs : Ready(p) =>
                /\ Position(p) \in 1 .. Cardinality(Procs)
                /\ (cp = NoProc /\ Quiescent => readyq # << >>)
  BY <1>1
<1> QED BY <1>2, <1>4, <1>5, PTL DEF Spec
-----------------------------------------------------------------------------
(* What the processes own: memory and process ids.                         *)

\* A step that changes none of these keeps them.
LEMMA MemoryKept ==
  ASSUME MemoryIsExclusive, Alive' = Alive, UNCHANGED <<partition, used>>
  PROVE  MemoryIsExclusive'
BY DEF MemoryIsExclusive

\* Who is alive after a step.
LEMMA AliveSteps ==
  ASSUME SInv
  PROVE  /\ Dispatch \/ Interrupt => Alive' = Alive
         /\ Fault \/ Wait => Alive' = Alive
         /\ \A p \in Procs : Thread(p) => Alive' = Alive
         /\ \A c \in Procs : Fork(c) => Alive' = Alive \cup {c} /\ c \notin Alive
         /\ Exit => Alive' = Alive \ {cp} /\ cp \in Alive
<1>1. state \in [Procs -> States] BY DEF SInv, TypeOK
<1>2. Dispatch \/ Interrupt => Alive' = Alive BY DEF Dispatch, Interrupt, Alive
<1>3. ASSUME Fault \/ Wait PROVE Alive' = Alive
  <2>1. cp \in Procs /\ state[cp] = "user" BY <1>3, Running DEF Fault, Wait
  <2>2. PICK l \in {"lost", "reap", "waiting"} : state' = [state EXCEPT ![cp] = l]
    BY <1>3 DEF Fault, Wait
  <2> QED BY <1>1, <2>1, <2>2 DEF Alive
<1>4. ASSUME NEW p \in Procs, Thread(p) PROVE Alive' = Alive
  <2>1. state[p] \in {"finish", "reap"} /\ state' = [state EXCEPT ![p] = "user"]
    BY <1>4 DEF Thread, Finish, Reap
  <2> QED BY <1>1, <2>1 DEF Alive
<1>5. ASSUME NEW c \in Procs, Fork(c) PROVE Alive' = Alive \cup {c} /\ c \notin Alive
  <2>1. state[c] = "unborn" /\ state' = [state EXCEPT ![c] = "finish"]
    BY <1>5 DEF Fork
  <2> QED BY <1>1, <2>1 DEF Alive
<1>6. ASSUME Exit PROVE Alive' = Alive \ {cp} /\ cp \in Alive
  <2>1. /\ cp \in Procs /\ state[cp] = "user" /\ state'[cp] = "zombie"
        /\ \A p \in Procs \ {cp} :
             \/ state'[p] = state[p]
             \/ state[p] = "waiting" /\ state'[p] = "reap"
    BY <1>6, ExitFacts
  <2> QED BY <2>1 DEF Alive
<1> QED BY <1>2, <1>3, <1>4, <1>5, <1>6

\* fork() hands out a partition nobody has, _exit() takes back the one that nobody
\* else has.
LEMMA MemoryStep ==
  ASSUME SInv, MemoryIsExclusive, [Next]_vars PROVE MemoryIsExclusive'
<1>1. CASE UNCHANGED vars
  <2>1. Alive' = Alive BY <1>1 DEF vars, Alive
  <2> QED BY <1>1, <2>1, MemoryKept DEF vars
<1>2. CASE Dispatch \/ Interrupt \/ Fault \/ Wait
  <2>1. UNCHANGED <<partition, used>> BY <1>2 DEF Dispatch, Interrupt, Fault, Wait
  <2> QED BY <1>2, <2>1, AliveSteps, MemoryKept
<1>3. ASSUME NEW p \in Procs, Thread(p) PROVE MemoryIsExclusive'
  <2>1. UNCHANGED <<partition, used>> BY <1>3 DEF Thread, Finish, Reap
  <2> QED BY <1>3, <2>1, AliveSteps, MemoryKept
<1>4. ASSUME NEW c \in Procs, Fork(c) PROVE MemoryIsExclusive'
  <2> DEFINE n == NewPartition
  <2>1. Unused # {} /\ partition' = [partition EXCEPT ![c] = n] /\ used' = used \cup {n}
    BY <1>4 DEF Fork
  <2>2. n \notin used BY <2>1, NewFacts DEF SInv, Unused
  <2>3. Alive' = Alive \cup {c} /\ c \notin Alive BY <1>4, AliveSteps
  <2> HIDE DEF n
  <2>4. /\ partition'[c] = n /\ \A p \in Alive : partition'[p] = partition[p]
    BY <1>4, <2>1, <2>3 DEF SInv, TypeOK, Alive
  <2>5. \A p \in Alive : partition[p] # n BY <2>2 DEF MemoryIsExclusive
  <2>6. used' = {partition'[p] : p \in Alive'}
    BY <2>1, <2>3, <2>4 DEF MemoryIsExclusive
  <2> QED BY <2>3, <2>4, <2>5, <2>6 DEF MemoryIsExclusive
<1>5. CASE Exit
  <2>1. used' = used \ {partition[cp]} /\ UNCHANGED partition BY <1>5 DEF Exit
  <2>2. Alive' = Alive \ {cp} /\ cp \in Alive BY <1>5, AliveSteps
  <2> QED BY <2>1, <2>2 DEF MemoryIsExclusive
<1> QED BY <1>1, <1>2, <1>3, <1>4, <1>5 DEF Next

\* Who holds a pid: the ones alive and the zombies on the list of their parent.
HoldersAre ==
  /\ Holders \in SUBSET Procs
  /\ \A z \in Procs : z \in Holders <=>
       z \in Alive \/ (state[z] = "zombie" /\ In(z, waiters[parent[z]]))

LEMMA HoldersFacts == SInv => HoldersAre /\ IsFiniteSet(Holders \cup {init})
<1> SUFFICES ASSUME SInv PROVE HoldersAre /\ IsFiniteSet(Holders \cup {init})
  OBVIOUS
<1>1. \A p \in PCBs : \A z : z \in Queued(p) <=> In(z, waiters[p]) BY WaitersFacts
<1>2. \A p \in PCBs : \A z \in Queued(p) :
        z \in Procs /\ state[z] = "zombie" /\ parent[z] = p
  BY WaitersFacts
<1>3. Holders \in SUBSET Procs BY <1>2 DEF Holders, Alive
<1>4. \A z \in Procs : parent[z] \in PCBs BY DEF SInv, TypeOK
<1>5. IsFiniteSet(Holders \cup {init})
  <2>1. IsFiniteSet(Procs \cup {init}) BY SosProcsAssumption, FS_AddElement
  <2> QED BY <1>3, <2>1, FS_Subset
<1> QED BY <1>1, <1>2, <1>3, <1>4, <1>5 DEF Holders, HoldersAre

LEMMA HoldersNext == SInv' => HoldersAre'
<1>1. SInv => HoldersAre BY HoldersFacts
<1> QED BY <1>1, PTL

\* destroy_pid for holders: the tree and the holders lose the same.
LEMMA PidsReleased ==
  ASSUME SInv, PidsAreUnique, PidsAreCounted, NEW dead \in SUBSET Holders,
         Holders' = Holders \ dead, pids' = Destroyed(dead), UNCHANGED pid
  PROVE  PidsAreUnique' /\ PidsAreCounted'
<1>1. Holders \in SUBSET Procs /\ IsFiniteSet(Holders \cup {init})
  BY HoldersFacts DEF HoldersAre
<1>2. PidsAreUnique' BY DEF PidsAreUnique
<1>3. ASSUME NEW i \in Pids
      PROVE  pids'[i] = Cardinality({p \in Holders' \cup {init} : pid'[p] = i})
  <2> DEFINE S == {p \in Holders \cup {init} : pid[p] = i}
             D == {p \in dead : pid[p] = i}
             T == {p \in Holders' \cup {init} : pid'[p] = i}
  <2>1. D \subseteq S /\ T = S \ D BY <1>1, SosProcsAssumption
  <2>2. IsFiniteSet(S) /\ S \subseteq Holders \cup {init} BY <1>1, FS_Subset
  <2>3. pids[i] = Cardinality(S) BY DEF PidsAreCounted
  <2>4. dead \in SUBSET Procs BY <1>1
  <2>5. /\ Cardinality(D) \in Nat
        /\ Cardinality(D) <= pids[i] => pids'[i] = pids[i] - Cardinality(D)
    BY <2>4, DestroyedFacts DEF SInv
  <2> SUFFICES pids'[i] = Cardinality(T) OBVIOUS
  <2> HIDE DEF S, D, T
  <2>6. /\ IsFiniteSet(D) /\ Cardinality(D) <= Cardinality(S)
    BY <2>1, <2>2, FS_Subset
  <2>7. Cardinality(S \ D) = Cardinality(S) - Cardinality(S \cap D)
    BY <2>2, FS_Difference
  <2>8. S \cap D = D BY <2>1
  <2> QED BY <2>1, <2>3, <2>5, <2>6, <2>7, <2>8
<1> QED BY <1>2, <1>3 DEF PidsAreCounted

\* fork() takes a pid nobody has, or the last one.
LEMMA PidsForked ==
  ASSUME SInv, PidsAreUnique, PidsAreCounted, NEW c \in Procs, Fork(c)
  PROVE  PidsAreUnique' /\ PidsAreCounted'
<1> DEFINE n == NewPid
<1>1. /\ state[c] = "unborn" /\ cp # NoProc /\ state' = [state EXCEPT ![c] = "finish"]
      /\ pid' = [pid EXCEPT ![c] = n] /\ pids' = [pids EXCEPT ![n] = @ + 1]
      /\ parent' = [parent EXCEPT ![c] = cp] /\ UNCHANGED waiters
  BY DEF Fork
<1>2. n \in Pids /\ (n < MaxPid => pids[n] = 0) BY NewFacts DEF SInv
<1> HIDE DEF n
<1>3. /\ Holders \in SUBSET Procs /\ IsFiniteSet(Holders \cup {init})
      /\ c \notin Holders /\ c # init
  <2>1. c \notin Alive BY <1>1 DEF Alive
  <2> QED BY <1>1, <2>1, HoldersFacts, SosProcsAssumption DEF HoldersAre
<1>4. Holders' = Holders \cup {c}
  <2>1. Alive' = Alive \cup {c} BY AliveSteps
  <2>2. UNION {Queued(p) : p \in PCBs} = (UNION {Queued(p) : p \in PCBs})'
    BY <1>1 DEF Queued
  <2> QED BY <2>1, <2>2 DEF Holders
<1>5. /\ pid'[c] = n /\ \A p \in Holders \cup {init} : pid'[p] = pid[p]
  BY <1>1, <1>3 DEF SInv, TypeOK, PCBs
<1>6. /\ pids'[n] = pids[n] + 1 /\ \A i \in Pids \ {n} : pids'[i] = pids[i]
  BY <1>1, <1>2 DEF SInv, TypeOK
<1>7. ASSUME NEW i \in Pids
      PROVE  /\ IsFiniteSet({p \in Holders \cup {init} : pid[p] = i})
             /\ pids[i] = Cardinality({p \in Holders \cup {init} : pid[p] = i})
  <2> DEFINE S == {p \in Holders \cup {init} : pid[p] = i}
  <2>1. S \subseteq Holders \cup {init} OBVIOUS
  <2>2. IsFiniteSet(S) BY <1>3, <2>1, FS_Subset
  <2> QED BY <2>2 DEF PidsAreCounted
<1>8. n < MaxPid => \A p \in Holders \cup {init} : pid[p] # n
  BY <1>2, <1>7, FS_EmptySet
<1>9. PidsAreUnique' BY <1>4, <1>5, <1>8 DEF PidsAreUnique
<1>10. ASSUME NEW i \in Pids
       PROVE  pids'[i] = Cardinality({p \in Holders' \cup {init} : pid'[p] = i})
  <2> DEFINE S == {p \in Holders \cup {init} : pid[p] = i}
             T == {p \in Holders' \cup {init} : pid'[p] = i}
  <2>1. IsFiniteSet(S) /\ pids[i] = Cardinality(S) /\ c \notin S BY <1>3, <1>7
  <2>2. T = IF i = n THEN S \cup {c} ELSE S BY <1>4, <1>5
  <2> SUFFICES pids'[i] = Cardinality(T) OBVIOUS
  <2> HIDE DEF S, T
  <2>3. Cardinality(S \cup {c}) = Cardinality(S) + 1 BY <2>1, FS_AddElement
  <2> QED BY <1>6, <2>1, <2>2, <2>3
<1> QED BY <1>9, <1>10 DEF PidsAreCounted

\* Only fork(), _exit() and wait() have to do with the pids, and the last two
\* destroy pids of zombies.
LEMMA PidsStep ==
  ASSUME SInv, PidsAreUnique, PidsAreCounted, [Next]_vars
  PROVE  PidsAreUnique' /\ PidsAreCounted'
<1>1. ASSUME Alive' = Alive, UNCHANGED <<pid, pids, waiters>>
      PROVE  PidsAreUnique' /\ PidsAreCounted'
  <2>1. Holders' = Holders BY <1>1 DEF Holders, Queued
  <2> QED BY <1>1, <2>1 DEF PidsAreUnique, PidsAreCounted
<1>2. CASE UNCHANGED vars BY <1>1, <1>2 DEF vars, Alive
<1>3. CASE Dispatch \/ Interrupt \/ Fault \/ Wait
  <2>1. UNCHANGED <<pid, pids, waiters>> BY <1>3 DEF Dispatch, Interrupt, Fault, Wait
  <2> QED BY <1>1, <1>3, <2>1, AliveSteps
<1>4. ASSUME NEW c \in Procs, Finish(c) PROVE PidsAreUnique' /\ PidsAreCounted'
  <2>1. UNCHANGED <<pid, pids, waiters>> BY <1>4 DEF Finish
  <2> QED BY <1>1, <1>4, <2>1, AliveSteps DEF Thread
<1>5. ASSUME NEW p \in Procs, Reap(p) PROVE PidsAreUnique' /\ PidsAreCounted'
  <2> DEFINE h == Head(waiters[p])
  <2>1. /\ p \in PCBs /\ h \in Queued(p) /\ pids' = Destroyed({h})
        /\ \A z : In(z, waiters'[p]) <=> In(z, waiters[p]) /\ z # h
        /\ \A o \in PCBs \ {p} : waiters'[o] = waiters[o]
    BY <1>5, ReapFacts
  <2>2. h \in Procs /\ state[h] = "zombie" /\ parent[h] = p BY <2>1, WaitersFacts
  <2>3. Alive' = Alive /\ UNCHANGED <<parent, pid>> BY <1>5, AliveSteps DEF Thread, Reap
  <2>4. SInv' BY <1>5, ReapSInv
  <2>5. \A z \in Procs : state[z] = "zombie" <=> state'[z] = "zombie"
    BY <1>5, ReapFacts DEF Reap
  <2> HIDE DEF h
  <2>6. Holders \in SUBSET Procs /\ Holders' \in SUBSET Procs
    BY <2>4, HoldersFacts, HoldersNext DEF HoldersAre
  <2>7. \A z \in Procs : z \in Holders <=>
          z \in Alive \/ (state[z] = "zombie" /\ In(z, waiters[parent[z]]))
    BY HoldersFacts DEF HoldersAre
  <2>8. \A z \in Procs : z \in Holders' <=>
          z \in Alive' \/ (state'[z] = "zombie" /\ In(z, waiters'[parent'[z]]))
    BY <2>4, HoldersNext DEF HoldersAre
  <2>9. \A z \in Procs : parent[z] \in PCBs BY DEF SInv, TypeOK
  <2>10. h \notin Alive BY <2>2 DEF Alive
  <2>11. Holders' = Holders \ {h}
    BY <2>1, <2>2, <2>3, <2>5, <2>6, <2>7, <2>8, <2>9, <2>10
  <2>12. h \in Holders BY <2>1 DEF Holders
  <2> QED BY <2>1, <2>3, <2>11, <2>12, PidsReleased
<1>6. CASE Exit
  <2> DEFINE q == parent[cp]
  <2>1. /\ pids' = Destroyed(Queued(cp)) /\ UNCHANGED <<parent, pid>>
    BY <1>6 DEF Exit, Released
  <2>2. /\ cp \in Procs /\ q \in PCBs /\ q # cp /\ state[cp] = "user"
        /\ state'[cp] = "zombie"
        /\ waiters'[cp] = <<>> /\ waiters'[q] = Append(waiters[q], cp)
        /\ \A p \in PCBs \ {cp, q} : waiters'[p] = waiters[p]
        /\ ~In(cp, waiters[q])
    BY <1>6, ExitFacts
  <2>3. \A z \in Procs \ {cp} : state[z] = "zombie" <=> state'[z] = "zombie"
    BY <1>6, ExitFacts
  <2>4. \A z : In(z, waiters'[q]) <=> In(z, waiters[q]) \/ z = cp
    <3>1. waiters[q] \in Seq(Procs) /\ Once(waiters[q]) BY <2>2, WaitersFacts
    <3> QED BY <2>2, <3>1, AppendOnce
  <2>5. /\ \A z : ~In(z, waiters'[cp]) BY <2>2, EmptySeq DEF In
  <2>6. /\ \A z : z \in Queued(cp) <=> In(z, waiters[cp])
        /\ \A z \in Queued(cp) : z \in Procs /\ state[z] = "zombie" /\ parent[z] = cp
    BY <2>2, WaitersFacts DEF PCBs
  <2>7. Alive' = Alive \ {cp} /\ cp \in Alive BY <1>6, AliveSteps
  <2>8. SInv' BY <1>6, ExitSInv
  <2>9. Holders \in SUBSET Procs /\ Holders' \in SUBSET Procs
    BY <2>8, HoldersFacts, HoldersNext DEF HoldersAre
  <2>10. \A z \in Procs : z \in Holders <=>
          z \in Alive \/ (state[z] = "zombie" /\ In(z, waiters[parent[z]]))
    BY HoldersFacts DEF HoldersAre
  <2>11. \A z \in Procs : z \in Holders' <=>
          z \in Alive' \/ (state'[z] = "zombie" /\ In(z, waiters'[parent'[z]]))
    BY <2>8, HoldersNext DEF HoldersAre
  <2>12. \A z \in Procs : parent[z] \in PCBs BY DEF SInv, TypeOK
  <2>13. \A z \in Queued(cp) : z \notin Alive BY <2>6 DEF Alive
  <2>14. Queued(cp) \subseteq Holders BY <2>2 DEF Holders, PCBs
  <2>15. Holders' = Holders \ Queued(cp)
    <3> SUFFICES ASSUME NEW z \in Procs
                 PROVE  z \in Holders' <=> z \in Holders /\ z \notin Queued(cp)
      BY <2>9
    <3>1. CASE z = cp
      BY <2>1, <2>2, <2>4, <2>6, <2>7, <2>10, <2>11, <3>1
    <3>2. CASE z # cp /\ parent[z] = cp
      BY <2>1, <2>3, <2>5, <2>6, <2>7, <2>10, <2>11, <2>13, <3>2
    <3>3. CASE z # cp /\ parent[z] # cp
      <4>1. z \notin Queued(cp) BY <2>6, <3>3
      <4>2. parent'[z] = parent[z] /\ parent[z] \in PCBs BY <2>1, <2>12
      <4>3. In(z, waiters'[parent[z]]) <=> In(z, waiters[parent[z]])
        <5>1. CASE parent[z] = q BY <2>4, <3>3, <5>1
        <5>2. CASE parent[z] # q
          <6>1. waiters'[parent[z]] = waiters[parent[z]] BY <2>2, <3>3, <4>2, <5>2
          <6> QED BY <6>1
        <5> QED BY <5>1, <5>2
      <4> HIDE DEF q
      <4> QED BY <2>3, <2>7, <2>10, <2>11, <3>3, <4>1, <4>2, <4>3
    <3> QED BY <3>1, <3>2, <3>3
  <2> QED BY <2>1, <2>14, <2>15, PidsReleased
<1>7. ASSUME NEW c \in Procs, Fork(c) PROVE PidsAreUnique' /\ PidsAreCounted'
  BY <1>7, PidsForked
<1> QED BY <1>2, <1>3, <1>4, <1>5, <1>6, <1>7 DEF Next, Thread

\* init and the first process have a pid each.
LEMMA InitOwns == ASSUME Init PROVE MemoryIsExclusive /\ PidsAreUnique /\ PidsAreCounted
<1>1. /\ First \in Procs /\ init \notin Procs /\ MaxPid \in Nat /\ MaxPid > 2
      /\ First # init
  BY SosProcsAssumption
<1>2. Alive = {First} BY <1>1 DEF Init, Alive
<1>3. Holders = {First}
  <2>1. \A p \in PCBs : Queued(p) = {} BY EmptySeq DEF Init, Queued
  <2> QED BY <1>2, <2>1 DEF Holders
<1>4. pid[init] = 1 /\ pid[First] = 2
  <2>1. pid = [p \in PCBs |-> CASE p = init -> 1 [] p = First -> 2 [] OTHER -> 0]
    BY DEF Init
  <2>2. init \in PCBs /\ First \in PCBs BY <1>1 DEF PCBs
  <2>3. pid[init] = 1
    <3>1. pid[init] = CASE init = init -> 1 [] init = First -> 2 [] OTHER -> 0
      BY <2>1, <2>2
    <3> QED BY <1>1, <3>1
  <2>4. pid[First] = 2 BY <1>1, <2>1, <2>2
  <2> QED BY <2>3, <2>4
<1>5. MemoryIsExclusive
  <2>1. partition[First] = 0 /\ used = {0} BY <1>1 DEF Init
  <2> QED BY <1>2, <2>1 DEF MemoryIsExclusive
<1>6. PidsAreUnique BY <1>3, <1>4 DEF PidsAreUnique
<1>7. PidsAreCounted
  <2> SUFFICES ASSUME NEW i \in Pids
               PROVE  pids[i] = Cardinality({p \in {First, init} : pid[p] = i})
    BY <1>3 DEF PidsAreCounted
  <2>1. pids[i] = IF i <= 2 THEN 1 ELSE 0 BY DEF Init
  <2>2. CASE i = 1
    <3>1. {p \in {First, init} : pid[p] = i} = {init} BY <1>4, <2>2
    <3> QED BY <2>1, <2>2, <3>1, FS_Singleton
  <2>3. CASE i = 2
    <3>1. {p \in {First, init} : pid[p] = i} = {First} BY <1>4, <2>3
    <3> QED BY <2>1, <2>3, <3>1, FS_Singleton
  <2>4. CASE i > 2
    <3>1. {p \in {First, init} : pid[p] = i} = {} BY <1>4, <2>4
    <3>2. ~(i <= 2) BY <2>4 DEF Pids
    <3> QED BY <2>1, <3>1, <3>2, FS_EmptySet
  <2> QED BY <2>2, <2>3, <2>4, <1>1 DEF Pids
<1> QED BY <1>5, <1>6, <1>7

LEMMA Invariance == Spec => []IInv
<1>1. Init => IInv BY InitSInv, InitOwns DEF IInv
<1>2. IInv /\ [Next]_vars => IInv' BY NextSInv, MemoryStep, PidsStep DEF IInv
<1> QED BY <1>1, <1>2, PTL DEF Spec

\* Two processes that are alive never share a partition, and no partition is lost
\* or handed out twice.
THEOREM MemoryExclusive == Spec => []MemoryIsExclusive
<1>1. IInv => MemoryIsExclusive BY DEF IInv
<1> QED BY <1>1, Invariance, PTL

\* Two holders of a pid below MaxPid never have the same.
THEOREM PidsUnique == Spec => []PidsAreUnique
<1>1. IInv => PidsAreUnique BY DEF IInv
<1> QED BY <1>1, Invariance, PTL

\* The tree of pids has one node for each holder.
THEOREM PidsCounted == Spec => []PidsAreCounted
<1>1. IInv => PidsAreCounted BY DEF IInv
<1> QED BY <1>1, Invariance, PTL
=============================================================================
