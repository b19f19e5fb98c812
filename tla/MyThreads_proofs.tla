-------------------------- MODULE MyThreads_proofs --------------------------
(***************************************************************************)
(* For every number of threads and semaphores: the count of active threads *)
(* is exact, a semaphore made with 0 is held under one identity at a time,  *)
(* and the turn of every thread that may run comes nearer.                 *)
(***************************************************************************)
EXTENDS MyThreads, FiniteSetTheorems, WellFoundedInduction, TLAPS

Running == {t \in Slots : runningStatus[t]}

\* Only threads that were made run, and the one that has the CPU does.
Made == /\ \A t \in Slots : runningStatus[t] => t < numThreads
        /\ inThread => currentThread \in Slots /\ runningStatus[currentThread]

\* The list of a semaphore made with 0 has one place, which says everything.
Listed ==
  \A s \in Sems : InitVal[s] = 0 =>
    /\ \A i \in Places \ {0} : threads[s][i] = None
    /\ inside[s] = IF threads[s][0] = None THEN {} ELSE {threads[s][0]}
    /\ sVal[s] = IF threads[s][0] = None THEN 0 ELSE -1

IInv == TypeOK /\ ActiveAreCounted /\ Made /\ Listed

Doings == {"run", "yield", "sleep", "join", "joinall", "down"}
Args   == Slots \cup Sems \cup {None}
-----------------------------------------------------------------------------
\* The threads are finitely many, and main is none of them.
LEMMA SlotFacts ==
  /\ IsFiniteSet(Slots) /\ Main \notin Slots /\ None \notin Slots
  /\ MaxThreads \in Nat \ {0} /\ 0 \in Places /\ None \notin Ids
<1>1. IsFiniteSet(Slots) BY FS_Interval, MyThreadsAssumption DEF Slots
<1> QED BY <1>1, MyThreadsAssumption DEF Slots, Places, Ids

\* The count of a set of slots that gains or loses one.
LEMMA CountChanges ==
  ASSUME NEW R \in SUBSET Slots, NEW t \in Slots
  PROVE  /\ IsFiniteSet(R) /\ Cardinality(R) \in Nat
         /\ t \notin R => Cardinality(R \cup {t}) = Cardinality(R) + 1
         /\ t \in R => /\ Cardinality(R \ {t}) = Cardinality(R) - 1
                       /\ Cardinality(R) # 0
<1>1. IsFiniteSet(R) BY SlotFacts, FS_Subset
<1>2. Cardinality(R) \in Nat BY <1>1, FS_CardinalityType
<1>3. t \notin R => Cardinality(R \cup {t}) = Cardinality(R) + 1
  BY <1>1, FS_AddElement
<1>4. t \in R => Cardinality(R \ {t}) = Cardinality(R) - 1
  BY <1>1, FS_RemoveElement
<1>5. t \in R => Cardinality(R) # 0 BY <1>1, FS_EmptySet
<1> QED BY <1>1, <1>2, <1>3, <1>4, <1>5

\* A thread outside of the library is the current one, and runs.
LEMMA WhoRuns ==
  ASSUME IInv, NEW t \in Slots, Me = t
  PROVE  inThread /\ currentThread = t /\ runningStatus[t]
<1>1. t # Main BY SlotFacts
<1> QED BY <1>1 DEF Me, IInv, Made

\* mt_self() is an identity, and in a thread its own.
LEMMA WhoIsSelf == IInv => Self \in Ids
<1> SUFFICES ASSUME IInv PROVE currentThread \in Ids
  BY DEF Self
<1>1. numThreads \in 0 .. MaxThreads /\ currentThread \in -1 .. numThreads - 1
      /\ MaxThreads \in Nat
  BY SlotFacts DEF IInv, TypeOK
<1> QED BY <1>1 DEF Ids

\* What Leave does to the turn and to the calls.
LEMMA LeaveFacts ==
  ASSUME TypeOK, NEW t \in Slots, NEW d \in Doings, NEW a \in Args, NEW w, NEW st,
         Leave(t, d, a, w, st)
  PROVE  /\ inThread' = FALSE /\ currentThread' = currentThread
         /\ doing' \in [Contexts -> Doings] /\ arg' \in [Contexts -> Args]
<1>1. doing \in [Contexts -> Doings] /\ arg \in [Contexts -> Args]
  BY DEF TypeOK, Doings, Args
<1>2. "run" \in Doings BY DEF Doings
<1> QED BY <1>1, <1>2 DEF Leave, Contexts

\* A step that leaves the table and the semaphores alone keeps IInv if what it
\* does to the turn and the calls is typed.
LEMMA QuietKeeps ==
  ASSUME IInv, UNCHANGED table, UNCHANGED sems,
         asleep' \subseteq Contexts,
         doing' \in [Contexts -> Doings], arg' \in [Contexts -> Args],
         \/ inThread' = FALSE /\ currentThread' = currentThread
         \/ UNCHANGED turn
  PROVE  IInv'
<1>1. /\ UNCHANGED <<numThreads, numWaitingThreads, runningStatus, sVal, threads, inside>>
      /\ currentThread' = currentThread
      /\ inThread' \in BOOLEAN /\ (inThread' => inThread)
  <2>1. UNCHANGED <<numThreads, numWaitingThreads, runningStatus, sVal, threads, inside>>
    BY DEF table, sems
  <2>2. inThread \in BOOLEAN BY DEF IInv, TypeOK
  <2>3. CASE UNCHANGED turn
    <3>1. inThread' = inThread /\ currentThread' = currentThread BY <2>3 DEF turn
    <3> QED BY <2>1, <2>2, <3>1
  <2>4. CASE inThread' = FALSE /\ currentThread' = currentThread BY <2>1, <2>4
  <2> QED BY <2>3, <2>4
<1>2. TypeOK' BY <1>1 DEF IInv, TypeOK, Doings, Args
<1>3. ActiveAreCounted' BY <1>1 DEF IInv, ActiveAreCounted
<1>4. Made' BY <1>1 DEF IInv, Made
<1>5. Listed' BY <1>1 DEF IInv, Listed
<1> QED BY <1>2, <1>3, <1>4, <1>5 DEF IInv

\* A thread that stops running is counted off once.
LEMMA StopKeeps ==
  ASSUME IInv, NEW t \in Slots, runningStatus[t],
         runningStatus' = [runningStatus EXCEPT ![t] = FALSE],
         numWaitingThreads' = numWaitingThreads - 1,
         numThreads' = numThreads, asleep' = asleep, UNCHANGED sems,
         doing' \in [Contexts -> Doings], arg' \in [Contexts -> Args],
         currentThread' = currentThread, inThread' \in BOOLEAN,
         inThread' => inThread /\ currentThread # t
  PROVE  IInv'
<1>1. UNCHANGED <<sVal, threads, inside>> BY DEF sems
<1>2. \A u \in Slots : runningStatus'[u] = IF u = t THEN FALSE ELSE runningStatus[u]
  BY DEF IInv, TypeOK
<1>3. Running' = Running \ {t} BY <1>2 DEF Running
<1>4. t \in Running /\ Running \in SUBSET Slots BY DEF Running
<1>5. /\ Cardinality(Running \ {t}) = Cardinality(Running) - 1
      /\ Cardinality(Running) # 0 /\ Cardinality(Running) \in Nat
  BY <1>4, CountChanges
<1>6. numWaitingThreads = Cardinality(Running) BY DEF IInv, ActiveAreCounted, Running
<1>7. numWaitingThreads' = Cardinality(Running') /\ numWaitingThreads' \in Nat
  BY <1>3, <1>5, <1>6
<1>8. ActiveAreCounted' BY <1>7 DEF ActiveAreCounted, Running
<1>9. TypeOK' BY <1>1, <1>7 DEF IInv, TypeOK, Doings, Args
<1>10. Made' BY <1>2 DEF IInv, Made
<1>11. Listed' BY <1>1 DEF IInv, Listed
<1> QED BY <1>8, <1>9, <1>10, <1>11 DEF IInv

\* mt_sem_down that succeeds makes t the one holder.
LEMMA TakeKeeps ==
  ASSUME IInv, NEW t \in Ids, NEW s \in Args, CanDown(s), Take(t, s)
  PROVE  /\ Listed'
         /\ sVal' \in [Sems -> Int] /\ inside' \in [Sems -> SUBSET Ids]
         /\ threads' \in [Sems -> [Places -> Ids \cup {None}]]
<1>1. /\ sVal \in [Sems -> Int] /\ inside \in [Sems -> SUBSET Ids]
      /\ threads \in [Sems -> [Places -> Ids \cup {None}]]
  BY DEF IInv, TypeOK
<1>2. /\ threads' = [threads EXCEPT ![s][-sVal[s]] = t]
      /\ sVal' = [sVal EXCEPT ![s] = @ - 1]
      /\ inside' = [inside EXCEPT ![s] = @ \cup {t}]
  BY DEF Take
<1>3. sVal' \in [Sems -> Int]
  <2>1. CASE s \in Sems BY <1>1, <1>2, <2>1
  <2>2. CASE s \notin Sems BY <1>1, <1>2, <2>2
  <2> QED BY <2>1, <2>2
<1>4. inside' \in [Sems -> SUBSET Ids] BY <1>1, <1>2
<1>5. threads' \in [Sems -> [Places -> Ids \cup {None}]] BY <1>1, <1>2
<1>6. ASSUME NEW r \in Sems, InitVal[r] = 0
      PROVE  /\ \A i \in Places \ {0} : threads'[r][i] = None
             /\ inside'[r] = IF threads'[r][0] = None THEN {} ELSE {threads'[r][0]}
             /\ sVal'[r] = IF threads'[r][0] = None THEN 0 ELSE -1
  <2>1. /\ \A i \in Places \ {0} : threads[r][i] = None
        /\ inside[r] = IF threads[r][0] = None THEN {} ELSE {threads[r][0]}
        /\ sVal[r] = IF threads[r][0] = None THEN 0 ELSE -1
    BY <1>6 DEF IInv, Listed
  <2>2. CASE r # s
    <3>1. threads'[r] = threads[r] /\ inside'[r] = inside[r] /\ sVal'[r] = sVal[r]
      BY <1>1, <1>2, <2>2
    <3> QED BY <2>1, <3>1
  <2>3. CASE r = s
    <3>1. sVal[r] = 0 /\ threads[r][0] = None /\ inside[r] = {}
      BY <1>6, <2>1, <2>3 DEF CanDown
    <3>2. threads'[r] = [threads[r] EXCEPT ![0] = t]
      <4>1. -sVal[r] = 0 - sVal[r]
        <5>1. \A n \in Int : -n = 0 - n OBVIOUS
        <5> QED BY <1>1, <5>1
      <4>2. 0 - sVal[r] = 0 BY <3>1
      <4>3. threads'[r] = [threads[r] EXCEPT ![-sVal[r]] = t] BY <1>1, <1>2, <2>3
      <4>4. threads'[r] = [threads[r] EXCEPT ![0 - sVal[r]] = t] BY <4>1, <4>3
      <4> QED BY <4>2, <4>4
    <3>3. threads'[r][0] = t /\ \A i \in Places \ {0} : threads'[r][i] = None
      BY <1>1, <2>1, <3>2, SlotFacts
    <3>4. inside'[r] = {t} /\ sVal'[r] = -1 BY <1>1, <1>2, <2>3, <3>1
    <3>5. t # None BY SlotFacts
    <3> QED BY <3>3, <3>4, <3>5
  <2> QED BY <2>2, <2>3
<1> QED BY <1>3, <1>4, <1>5, <1>6 DEF Listed
-----------------------------------------------------------------------------
\* The parts of IInv that are not about semaphores, when they do not change.
LEMMA TableKept ==
  ASSUME IInv, UNCHANGED <<table, turn, asleep>>
  PROVE  ActiveAreCounted' /\ Made'
<1>1. UNCHANGED <<numThreads, numWaitingThreads, runningStatus, currentThread, inThread>>
  BY DEF table, turn
<1> QED BY <1>1 DEF IInv, ActiveAreCounted, Made

\* Dispatch hands the turn to a thread that was made and runs.
LEMMA DispatchKeeps == IInv /\ Dispatch => IInv'
<1> SUFFICES ASSUME IInv, Dispatch PROVE IInv'
  OBVIOUS
<1>1. PICK k \in 1 .. numThreads : Runnable(Scan(k)) /\ currentThread' = Scan(k)
  BY DEF Dispatch
<1>2. /\ numThreads \in 0 .. MaxThreads /\ currentThread \in -1 .. numThreads - 1
      /\ MaxThreads \in Nat
  BY SlotFacts DEF IInv, TypeOK
<1>3. Scan(k) \in 0 .. numThreads - 1 BY <1>2 DEF Scan
<1>4. Scan(k) \in Slots BY <1>2, <1>3 DEF Slots
<1>5. UNCHANGED <<numThreads, numWaitingThreads, runningStatus, asleep, doing, arg,
                  sVal, threads, inside>> /\ inThread' = TRUE
  BY DEF Dispatch, table, calls, sems
<1>6. TypeOK' BY <1>1, <1>3, <1>5 DEF IInv, TypeOK
<1>7. ActiveAreCounted' /\ Listed' BY <1>5 DEF IInv, ActiveAreCounted, Listed
<1>8. Made' BY <1>1, <1>4, <1>5 DEF IInv, Made, Runnable
<1> QED BY <1>6, <1>7, <1>8 DEF IInv

\* A new thread runs and is counted.
LEMMA CreateKeeps == IInv /\ Create => IInv'
<1> SUFFICES ASSUME IInv, Create PROVE IInv'
  OBVIOUS
<1>1. /\ numThreads < MaxThreads
      /\ runningStatus' = [runningStatus EXCEPT ![numThreads] = TRUE]
      /\ numThreads' = numThreads + 1
      /\ numWaitingThreads' = numWaitingThreads + 1
      /\ UNCHANGED <<currentThread, inThread, asleep, doing, arg, sVal, threads, inside>>
  BY DEF Create, turn, calls, sems
<1>2. numThreads \in Slots /\ numThreads \in Nat /\ MaxThreads \in Nat
  BY <1>1, SlotFacts DEF IInv, TypeOK, Slots
<1>3. \A u \in Slots : runningStatus'[u] = IF u = numThreads THEN TRUE ELSE runningStatus[u]
  BY <1>1 DEF IInv, TypeOK
<1>4. Running' = Running \cup {numThreads} BY <1>2, <1>3 DEF Running
<1>5. numThreads \notin Running /\ Running \in SUBSET Slots
  BY <1>2 DEF Running, IInv, Made
<1>6. Cardinality(Running \cup {numThreads}) = Cardinality(Running) + 1
  BY <1>2, <1>5, CountChanges
<1>7. numWaitingThreads = Cardinality(Running) BY DEF IInv, ActiveAreCounted, Running
<1>8. ActiveAreCounted' BY <1>1, <1>4, <1>6, <1>7 DEF ActiveAreCounted, Running
<1>9. TypeOK' BY <1>1, <1>2 DEF IInv, TypeOK
<1>10. Made' 
  <2>1. \A t \in Slots : runningStatus'[t] => t < numThreads'
    BY <1>1, <1>2, <1>3 DEF IInv, Made, Slots
  <2>2. inThread' => currentThread' \in Slots /\ runningStatus'[currentThread']
    BY <1>1, <1>3 DEF IInv, Made
  <2> QED BY <2>1, <2>2 DEF Made
<1>11. Listed' BY <1>1 DEF IInv, Listed
<1> QED BY <1>8, <1>9, <1>10, <1>11 DEF IInv

\* mt_kill counts its victim off, which is not the thread that has the turn.
LEMMA KillKeeps == ASSUME IInv, NEW t \in Slots, Kill(t) PROVE IInv'
<1>1. /\ t # Me /\ runningStatus[t]
      /\ runningStatus' = [runningStatus EXCEPT ![t] = FALSE]
      /\ numWaitingThreads' = numWaitingThreads - 1 /\ numThreads' = numThreads
      /\ asleep' = asleep /\ UNCHANGED sems
      /\ UNCHANGED <<currentThread, inThread, doing, arg>>
  BY DEF Kill, Killable, turn, calls
<1>2. doing' \in [Contexts -> Doings] /\ arg' \in [Contexts -> Args] /\ inThread' \in BOOLEAN
  BY <1>1 DEF IInv, TypeOK, Doings, Args
<1>3. inThread' => inThread /\ currentThread # t BY <1>1 DEF Me
<1> QED BY <1>1, <1>2, <1>3, StopKeeps

\* A thread that ends is counted off by main.
LEMMA EndKeeps == ASSUME IInv, NEW t \in Slots, End(t) PROVE IInv'
<1>1. Me = t /\ runningStatus[t] BY WhoRuns DEF End, Runs
<1>2. /\ runningStatus' = [runningStatus EXCEPT ![t] = FALSE]
      /\ numWaitingThreads' = numWaitingThreads - 1 /\ numThreads' = numThreads
      /\ asleep' = asleep /\ UNCHANGED sems
      /\ Leave(t, "run", None, numWaitingThreads', runningStatus')
  BY DEF End
<1>3. "run" \in Doings /\ None \in Args BY DEF Doings, Args
<1>4. /\ inThread' = FALSE /\ currentThread' = currentThread
      /\ doing' \in [Contexts -> Doings] /\ arg' \in [Contexts -> Args]
  BY <1>2, <1>3, LeaveFacts DEF IInv
<1> QED BY <1>1, <1>2, <1>4, StopKeeps

\* Yield, Sleep and the joins leave to main.
LEMMA LeavingKeeps ==
  ASSUME IInv, NEW t \in Slots, NEW d \in Doings, NEW a \in Args, NEW w, NEW st,
         Leave(t, d, a, w, st), UNCHANGED table, UNCHANGED sems,
         asleep' \subseteq Contexts
  PROVE  IInv'
<1>1. /\ inThread' = FALSE /\ currentThread' = currentThread
      /\ doing' \in [Contexts -> Doings] /\ arg' \in [Contexts -> Args]
  BY LeaveFacts DEF IInv
<1> QED BY <1>1, QuietKeeps

\* A call of main that yields changes no table and no semaphore.
LEMMA MainCallsKeeps ==
  ASSUME IInv, NEW d \in Doings, NEW a \in Args, MainCalls(d, a)
  PROVE  IInv'
<1>1. /\ UNCHANGED table /\ UNCHANGED turn /\ UNCHANGED sems
      /\ doing' = [doing EXCEPT ![Main] = d] /\ arg' = [arg EXCEPT ![Main] = a]
      /\ asleep' \in {asleep, asleep \cup {Main}}
  BY DEF MainCalls
<1>2. /\ doing \in [Contexts -> Doings] /\ arg \in [Contexts -> Args]
      /\ asleep \subseteq Contexts
  BY DEF IInv, TypeOK, Doings, Args
<1>3. doing' \in [Contexts -> Doings] /\ arg' \in [Contexts -> Args]
  BY <1>1, <1>2
<1>4. asleep' \subseteq Contexts BY <1>1, <1>2 DEF Contexts
<1> QED BY <1>1, <1>3, <1>4, QuietKeeps

\* So does the return of main from mt_sleep.
LEMMA MainWakesKeeps == IInv /\ MainWakes => IInv'
<1> SUFFICES ASSUME IInv, MainWakes PROVE IInv'
  OBVIOUS
<1>1. /\ UNCHANGED table /\ UNCHANGED turn /\ UNCHANGED sems
      /\ doing' = [doing EXCEPT ![Main] = "run"] /\ arg' = arg /\ asleep' = asleep
  BY DEF MainWakes
<1>2. /\ doing \in [Contexts -> Doings] /\ arg \in [Contexts -> Args]
      /\ asleep \subseteq Contexts /\ "run" \in Doings
  BY DEF IInv, TypeOK, Doings, Args
<1> QED BY <1>1, <1>2, QuietKeeps

\* Time changes nothing but who sleeps.
LEMMA TimeKeeps == ASSUME IInv, NEW c \in Contexts, TimePasses(c) PROVE IInv'
<1>1. /\ UNCHANGED table /\ UNCHANGED turn /\ UNCHANGED sems
      /\ UNCHANGED <<doing, arg>> /\ asleep' \subseteq asleep
  BY DEF TimePasses, calls
<1>2. /\ doing \in [Contexts -> Doings] /\ arg \in [Contexts -> Args]
      /\ asleep \subseteq Contexts
  BY DEF IInv, TypeOK, Doings, Args
<1> QED BY <1>1, <1>2, QuietKeeps

\* A thread that takes a semaphore and goes on.
LEMMA TakingKeeps ==
  ASSUME IInv, NEW t \in Ids, NEW s \in Args, CanDown(s), Take(t, s),
         UNCHANGED <<table, turn, asleep>>,
         doing' \in [Contexts -> Doings], arg' \in [Contexts -> Args]
  PROVE  IInv'
<1>1. ActiveAreCounted' /\ Made' BY TableKept
<1>2. UNCHANGED <<numThreads, numWaitingThreads, runningStatus, currentThread, inThread,
                  asleep>>
  BY DEF table, turn
<1>3. /\ Listed' /\ sVal' \in [Sems -> Int] /\ inside' \in [Sems -> SUBSET Ids]
      /\ threads' \in [Sems -> [Places -> Ids \cup {None}]]
  BY TakeKeeps
<1>4. TypeOK' BY <1>2, <1>3 DEF IInv, TypeOK, Doings, Args
<1> QED BY <1>1, <1>3, <1>4 DEF IInv

\* mt_sem_down takes the semaphore, leaves to main, or has main wait.
LEMMA SemDownKeeps ==
  ASSUME IInv, NEW c \in Contexts, NEW s \in Sems, SemDown(c, s) PROVE IInv'
<1>1. s \in Args /\ "down" \in Doings BY DEF Args, Doings
<1>2. UNCHANGED table /\ asleep' = asleep BY DEF SemDown
<1>3. doing \in [Contexts -> Doings] /\ arg \in [Contexts -> Args] /\ asleep \subseteq Contexts
  BY DEF IInv, TypeOK, Doings, Args
<1>4. CASE CanDown(s)
  <2>1. Take(Self, s) /\ UNCHANGED turn /\ UNCHANGED <<doing, arg>>
    BY <1>4 DEF SemDown, calls
  <2>2. Self \in Ids BY WhoIsSelf
  <2> QED BY <1>1, <1>2, <1>3, <1>4, <2>1, <2>2, TakingKeeps
<1>5. CASE ~CanDown(s) /\ c # Main
  <2>1. Leave(c, "down", s, numWaitingThreads, runningStatus) /\ UNCHANGED sems
    BY <1>5 DEF SemDown
  <2>2. c \in Slots BY <1>5 DEF Contexts
  <2> QED BY <1>1, <1>2, <1>3, <2>1, <2>2, LeavingKeeps
<1>6. CASE ~CanDown(s) /\ c = Main
  <2>1. /\ UNCHANGED turn /\ UNCHANGED sems
        /\ doing' = [doing EXCEPT ![Main] = "down"] /\ arg' = [arg EXCEPT ![Main] = s]
    BY <1>6 DEF SemDown
  <2>2. doing' \in [Contexts -> Doings] /\ arg' \in [Contexts -> Args]
    BY <1>1, <1>3, <2>1
  <2> QED BY <1>2, <1>3, <2>1, <2>2, QuietKeeps
<1> QED BY <1>4, <1>5, <1>6

\* The semaphore main waited for is taken under an identity.
LEMMA MainTakesKeeps == IInv /\ MainTakes => IInv'
<1> SUFFICES ASSUME IInv, MainTakes PROVE IInv'
  OBVIOUS
<1>1. /\ CanDown(arg[Main]) /\ Take(Self, arg[Main])
      /\ UNCHANGED <<table, turn, asleep>> /\ arg' = arg
      /\ doing' = [doing EXCEPT ![Main] = "run"]
  BY DEF MainTakes
<1>2. doing \in [Contexts -> Doings] /\ arg \in [Contexts -> Args] /\ "run" \in Doings
  BY DEF IInv, TypeOK, Doings, Args
<1>3. arg[Main] \in Args BY <1>2 DEF Contexts
<1>4. doing' \in [Contexts -> Doings] /\ arg' \in [Contexts -> Args] BY <1>1, <1>2
<1>5. Self \in Ids BY WhoIsSelf
<1> QED BY <1>1, <1>3, <1>4, <1>5, TakingKeeps

\* mt_sem_up empties the one place of the list.
LEMMA SemUpKeeps == ASSUME IInv, NEW c \in Contexts, NEW s \in Sems, SemUp(c, s) PROVE IInv'
<1> DEFINE t == Self
<1>0. t \in Ids BY WhoIsSelf
<1>1. PICK i \in PlaceOf(s, t) :
        /\ threads' = [threads EXCEPT ![s][i] = None]
        /\ sVal' = [sVal EXCEPT ![s] = @ + 1]
        /\ inside' = [inside EXCEPT ![s] = @ \ {t}]
  BY DEF SemUp
<1> HIDE DEF t
<1>2. /\ sVal \in [Sems -> Int] /\ inside \in [Sems -> SUBSET Ids]
      /\ threads \in [Sems -> [Places -> Ids \cup {None}]]
  BY DEF IInv, TypeOK
<1>3. i \in Places /\ threads[s][i] = t BY <1>1 DEF PlaceOf
<1>4. UNCHANGED <<numThreads, numWaitingThreads, runningStatus, currentThread, inThread,
                  asleep, doing, arg>>
  BY DEF SemUp, table, turn, calls
<1>5. sVal' \in [Sems -> Int] BY <1>1, <1>2
<1>6. inside' \in [Sems -> SUBSET Ids] BY <1>1, <1>2
<1>7. threads' \in [Sems -> [Places -> Ids \cup {None}]] BY <1>1, <1>2
<1>8. TypeOK' BY <1>4, <1>5, <1>6, <1>7 DEF IInv, TypeOK
<1>9. ActiveAreCounted' /\ Made' BY <1>4 DEF IInv, ActiveAreCounted, Made
<1>10. ASSUME NEW r \in Sems, InitVal[r] = 0
       PROVE  /\ \A j \in Places \ {0} : threads'[r][j] = None
              /\ inside'[r] = IF threads'[r][0] = None THEN {} ELSE {threads'[r][0]}
              /\ sVal'[r] = IF threads'[r][0] = None THEN 0 ELSE -1
  <2>1. /\ \A j \in Places \ {0} : threads[r][j] = None
        /\ inside[r] = IF threads[r][0] = None THEN {} ELSE {threads[r][0]}
        /\ sVal[r] = IF threads[r][0] = None THEN 0 ELSE -1
    BY <1>10 DEF IInv, Listed
  <2>2. CASE r # s
    <3>1. threads'[r] = threads[r] /\ inside'[r] = inside[r] /\ sVal'[r] = sVal[r]
      BY <1>1, <1>2, <2>2
    <3> QED BY <2>1, <3>1
  <2>3. CASE r = s
    <3>1. t # None BY <1>0, SlotFacts
    <3>2. i = 0 BY <1>3, <2>1, <2>3, <3>1
    <3>3. threads[r][0] = t BY <1>3, <2>3, <3>2
    <3>4. inside[r] = {t} /\ sVal[r] = -1 BY <2>1, <3>1, <3>3
    <3>5. threads'[r] = [threads[r] EXCEPT ![0] = None] BY <1>1, <1>2, <2>3, <3>2
    <3>6. threads'[r][0] = None /\ \A j \in Places \ {0} : threads'[r][j] = None
      BY <1>2, <2>1, <3>5, SlotFacts
    <3>7. inside'[r] = {} /\ sVal'[r] = 0 BY <1>1, <1>2, <2>3, <3>4
    <3> QED BY <3>6, <3>7
  <2> QED BY <2>2, <2>3
<1>11. Listed' BY <1>10 DEF Listed
<1> QED BY <1>8, <1>9, <1>11 DEF IInv

\* A thread that goes on after a yield leaves again, goes back to its work,
\* or takes the semaphore it waited for.
LEMMA GoesOnKeeps == ASSUME IInv, NEW t \in Slots, GoesOn(t) PROVE IInv'
<1>1. UNCHANGED table /\ asleep' = asleep BY DEF GoesOn
<1>2. /\ doing \in [Contexts -> Doings] /\ arg \in [Contexts -> Args]
      /\ asleep \subseteq Contexts
  BY DEF IInv, TypeOK, Doings, Args
<1>3. t \in Contexts BY DEF Contexts
<1>4. ASSUME Again(t), UNCHANGED sems PROVE IInv'
  <2>1. Leave(t, doing[t], arg[t], numWaitingThreads, runningStatus) BY <1>4 DEF Again
  <2>2. doing[t] \in Doings /\ arg[t] \in Args BY <1>2, <1>3
  <2> QED BY <1>1, <1>2, <1>4, <2>1, <2>2, LeavingKeeps
<1>5. ASSUME Back(t)
      PROVE  /\ UNCHANGED turn
             /\ doing' \in [Contexts -> Doings] /\ arg' \in [Contexts -> Args]
  <2>1. "run" \in Doings /\ None \in Args BY DEF Doings, Args
  <2> QED BY <1>2, <1>3, <1>5, <2>1 DEF Back
<1>6. ASSUME Back(t), UNCHANGED sems PROVE IInv'
  BY <1>1, <1>2, <1>5, <1>6, QuietKeeps
<1>8. t \in Ids BY SlotFacts DEF Ids, Slots
<1>7. ASSUME Back(t), Take(t, arg[t]), CanDown(arg[t]) PROVE IInv'
  <2>1. arg[t] \in Args BY <1>2, <1>3
  <2>2. UNCHANGED turn /\ doing' \in [Contexts -> Doings] /\ arg' \in [Contexts -> Args]
    BY <1>5, <1>7
  <2> QED BY <1>1, <1>7, <1>8, <2>1, <2>2, TakingKeeps
<1> QED BY <1>4, <1>6, <1>7 DEF GoesOn

\* The invariant is inductive.
LEMMA Invariant == Spec => []IInv
<1>1. Init => IInv
  <2> SUFFICES ASSUME Init PROVE IInv
    OBVIOUS
  <2>1. TypeOK
    <3>1. /\ numThreads = 0 /\ numWaitingThreads = 0 /\ currentThread = -1
          /\ inThread = FALSE /\ asleep = {}
      BY DEF Init
    <3>2. runningStatus \in [Slots -> BOOLEAN] BY DEF Init
    <3>3. /\ doing \in [Contexts -> {"run", "yield", "sleep", "join", "joinall", "down"}]
          /\ arg \in [Contexts -> Slots \cup Sems \cup {None}]
      BY DEF Init
    <3>4. /\ sVal \in [Sems -> Int] /\ inside \in [Sems -> SUBSET Ids]
          /\ threads \in [Sems -> [Places -> Ids \cup {None}]]
      BY DEF Init
    <3>5. numThreads \in 0 .. MaxThreads /\ numWaitingThreads \in Nat
      BY <3>1, SlotFacts
    <3>6. currentThread \in -1 .. numThreads - 1
      <4>1. \A n \in Int : n = 0 => -1 \in -1 .. n - 1 OBVIOUS
      <4> QED BY <3>1, <4>1
    <3>7. inThread \in BOOLEAN /\ asleep \subseteq Contexts BY <3>1
    <3> QED BY <3>2, <3>3, <3>4, <3>5, <3>6, <3>7 DEF TypeOK
  <2>2. ActiveAreCounted
    <3>1. {t \in Slots : runningStatus[t]} = {} BY DEF Init
    <3> QED BY <3>1, FS_EmptySet DEF Init, ActiveAreCounted
  <2>3. Made BY DEF Init, Made
  <2>4. Listed BY SlotFacts DEF Init, Listed
  <2> QED BY <2>1, <2>2, <2>3, <2>4 DEF IInv
<1>2. IInv /\ [Next]_vars => IInv'
  <2> SUFFICES ASSUME IInv, [Next]_vars PROVE IInv'
    OBVIOUS
  <2> USE DEF Doings, Args
  <2>1. CASE Dispatch BY <2>1, DispatchKeeps
  <2>2. CASE MainWakes BY <2>2, MainWakesKeeps
  <2>3. CASE Create BY <2>3, CreateKeeps
  <2>4. ASSUME NEW d \in {"yield", "sleep", "joinall"}, MainCalls(d, None) PROVE IInv'
    BY <2>4, MainCallsKeeps
  <2>5. ASSUME NEW t \in Slots, MainCalls("join", t) PROVE IInv'
    BY <2>5, MainCallsKeeps
  <2>6. ASSUME NEW t \in Slots, Kill(t) PROVE IInv' BY <2>6, KillKeeps
  <2>7. ASSUME NEW t \in Slots, Yield(t) PROVE IInv'
    <3>1. asleep' \subseteq Contexts BY <2>7 DEF Yield, IInv, TypeOK
    <3> QED BY <2>7, <3>1, LeavingKeeps DEF Yield
  <2>8. ASSUME NEW t \in Slots, End(t) PROVE IInv' BY <2>8, EndKeeps
  <2>9. ASSUME NEW t \in Slots, Sleep(t) PROVE IInv'
    <3>1. asleep' \subseteq Contexts BY <2>9 DEF Sleep, IInv, TypeOK, Contexts
    <3> QED BY <2>9, <3>1, LeavingKeeps DEF Sleep
  <2>10. ASSUME NEW t \in Slots, GoesOn(t) PROVE IInv' BY <2>10, GoesOnKeeps
  <2>11. ASSUME NEW t \in Slots, NEW d \in {"join", "joinall"}, NEW a \in Slots \cup {None},
                Join(t, d, a)
         PROVE  IInv'
    <3>1. asleep' \subseteq Contexts BY <2>11 DEF Join, IInv, TypeOK
    <3>2. d \in Doings /\ a \in Args OBVIOUS
    <3> HIDE DEF Doings, Args
    <3> QED BY <2>11, <3>1, <3>2, LeavingKeeps DEF Join
  <2>12. ASSUME NEW c \in Contexts, NEW s \in Sems, SemDown(c, s) PROVE IInv'
    BY <2>12, SemDownKeeps
  <2>13. ASSUME NEW c \in Contexts, NEW s \in Sems, SemUp(c, s) PROVE IInv'
    BY <2>13, SemUpKeeps
  <2>16. CASE MainTakes BY <2>16, MainTakesKeeps
  <2>14. ASSUME NEW c \in Contexts, TimePasses(c) PROVE IInv' BY <2>14, TimeKeeps
  <2>15. CASE UNCHANGED vars
    <3>1. /\ UNCHANGED table /\ UNCHANGED sems /\ UNCHANGED turn
          /\ UNCHANGED <<asleep, doing, arg>>
      BY <2>15 DEF vars, calls
    <3> QED BY <3>1, QuietKeeps DEF IInv, TypeOK
  <2> HIDE DEF Doings, Args
  <2> QED BY <2>1, <2>2, <2>3, <2>4, <2>5, <2>6, <2>7, <2>8, <2>9, <2>10, <2>11, <2>12,
             <2>13, <2>14, <2>15, <2>16 DEF Next
<1> QED BY <1>1, <1>2, PTL DEF Spec

\* The table, the turn and the semaphores keep their types: currentThread is
\* a thread that was made.
THEOREM TypeCorrect == Spec => []TypeOK
<1>1. IInv => TypeOK BY DEF IInv
<1> QED BY <1>1, Invariant, PTL

\* For every number of threads numWaitingThreads is the number of those that
\* run, in whatever order they are made, end and are killed (mt_yield, mt_kill).
THEOREM CountIsExact == Spec => []ActiveAreCounted
<1>1. IInv => ActiveAreCounted BY DEF IInv
<1> QED BY <1>1, Invariant, PTL

\* For every number of threads, and whoever of main and the threads calls, a
\* semaphore made with 0 is held under one identity at a time, and a call under
\* that identity can release it (mt_sem_down, mt_sem_up).
THEOREM SemaphoreIsLock == Spec => []OneInside
<1>1. IInv => OneInside
  <2> SUFFICES ASSUME IInv, NEW s \in Sems, InitVal[s] = 0
               PROVE  /\ \A t, u \in inside[s] : t = u
                      /\ sVal[s] = IF inside[s] = {} THEN 0 ELSE -1
                      /\ \A t \in inside[s] : PlaceOf(s, t) # {}
    BY DEF OneInside
  <2>1. /\ inside[s] = IF threads[s][0] = None THEN {} ELSE {threads[s][0]}
        /\ sVal[s] = IF threads[s][0] = None THEN 0 ELSE -1
    BY DEF IInv, Listed
  <2>2. ASSUME NEW t \in inside[s] PROVE 0 \in PlaceOf(s, t)
    <3>1. threads[s][0] = t BY <2>1
    <3>2. \A j \in 0 .. 0 - 1 : threads[s][j] \notin {t, None} OBVIOUS
    <3> QED BY <3>1, <3>2, SlotFacts DEF PlaceOf
  <2> QED BY <2>1, <2>2
<1> QED BY <1>1, Invariant, PTL
-----------------------------------------------------------------------------
(* Everybody's turn comes: the safety part of EverybodyRuns.               *)

\* A thread that may run, while main is in mt_joinall, and has not the CPU; how
\* many slots it is away from the one that had it last, round the whole table.
Waiting(t) == doing[Main] = "joinall" /\ Runnable(t) /\ Me # t
Ahead(t)   == IF t > currentThread THEN t - currentThread
              ELSE t + MaxThreads - currentThread

\* The scan finds somebody to run.
Found == /\ numWaitingThreads # 0
         /\ \E k \in 1 .. numThreads :
              Runnable(Scan(k)) /\ \A j \in 1 .. k - 1 : ~Runnable(Scan(j))

\* Only the scan moves the turn, and it brings t nearer.
Nearer(t) == IF Dispatch THEN Ahead(t)' < Ahead(t) ELSE currentThread' = currentThread

\* The slots the scan looks at go round once.
LEMMA RoundOnce ==
  ASSUME NEW n \in Nat \ {0}, NEW c \in -1 .. n - 1, NEW k \in 1 .. n
  PROVE  (c + k) % n = IF c + k < n THEN c + k ELSE c + k - n
<1>1. CASE c + k < n
  <2>1. c + k \in 0 .. n - 1 BY <1>1
  <2>2. \A a \in 0 .. n - 1 : a % n = a OBVIOUS
  <2> QED BY <1>1, <2>1, <2>2
<1>2. CASE ~(c + k < n)
  <2>1. c + k \in n .. 2 * n - 1 BY <1>2
  <2>2. \A a \in n .. 2 * n - 1 : a % n = a - n OBVIOUS
  <2> QED BY <1>2, <2>1, <2>2
<1> QED BY <1>1, <1>2

\* Of some numbers one is the first.
LEMMA FirstOf ==
  ASSUME NEW ks, ks \subseteq Nat, ks # {}
  PROVE  \E k \in ks : \A j \in ks : k <= j
<1>1. PICK k \in ks : \A j \in ks : <<j, k>> \notin OpToRel(<, Nat)
  BY NatLessThanWellFounded, WFMin, Zenon
<1>2. \A j \in ks : ~(j < k) BY <1>1 DEF OpToRel
<1>3. \A j \in ks : k <= j BY <1>2
<1> QED BY <1>3

\* The numbers the scan is made of.
LEMMA TurnFacts ==
  ASSUME IInv
  PROVE  /\ numThreads \in 0 .. MaxThreads /\ currentThread \in -1 .. numThreads - 1
         /\ MaxThreads \in Nat \ {0}
         /\ \A k \in 1 .. numThreads :
              Scan(k) = IF currentThread + k < numThreads THEN currentThread + k
                        ELSE currentThread + k - numThreads
<1>1. /\ numThreads \in 0 .. MaxThreads /\ currentThread \in -1 .. numThreads - 1
      /\ MaxThreads \in Nat \ {0}
  BY SlotFacts DEF IInv, TypeOK
<1>2. ASSUME NEW k \in 1 .. numThreads
      PROVE  Scan(k) = IF currentThread + k < numThreads THEN currentThread + k
                       ELSE currentThread + k - numThreads
  <2>1. numThreads \in Nat \ {0} BY <1>1, <1>2
  <2> QED BY <1>1, <2>1, RoundOnce DEF Scan
<1> QED BY <1>1, <1>2

\* A thread that may run is at most a round away.
LEMMA AheadIs ==
  ASSUME IInv, NEW t \in Slots, Runnable(t)
  PROVE  /\ t \in 0 .. numThreads - 1 /\ Ahead(t) \in 1 .. MaxThreads
         /\ \E k \in 1 .. numThreads :
              k = (IF t > currentThread THEN t - currentThread
                   ELSE t + numThreads - currentThread) /\ Scan(k) = t
<1>1. t < numThreads BY DEF Runnable, IInv, Made
<1>2. t \in 0 .. numThreads - 1 BY <1>1, TurnFacts DEF Slots
<1>3. Ahead(t) \in 1 .. MaxThreads BY <1>2, TurnFacts DEF Ahead
<1> DEFINE k == IF t > currentThread THEN t - currentThread
                ELSE t + numThreads - currentThread
<1>4. k \in 1 .. numThreads BY <1>2, TurnFacts
<1>5. Scan(k) = t BY <1>2, <1>4, TurnFacts
<1> QED BY <1>2, <1>3, <1>4, <1>5

\* So the scan ends at somebody.
LEMMA ScanFinds == ASSUME IInv, NEW t \in Slots, Runnable(t) PROVE Found
<1> DEFINE ks == {k \in 1 .. numThreads : Runnable(Scan(k))}
<1>1. ks \subseteq Nat OBVIOUS
<1>2. ks # {} BY AheadIs
<1>3. PICK k \in ks : \A j \in ks : k <= j
  <2> HIDE DEF ks
  <2> QED BY <1>1, <1>2, FirstOf
<1>4. k \in 1 .. numThreads /\ Runnable(Scan(k)) BY <1>3
<1>5. \A j \in 1 .. k - 1 : ~Runnable(Scan(j))
  <2> SUFFICES ASSUME NEW j \in 1 .. k - 1, Runnable(Scan(j)) PROVE FALSE
    OBVIOUS
  <2>1. j \in 1 .. numThreads /\ j < k BY <1>4, TurnFacts
  <2>2. j \in ks BY <2>1
  <2>3. k <= j BY <1>3, <2>2
  <2> QED BY <1>4, <2>1, <2>3
<1>6. numWaitingThreads # 0
  <2>1. t \in Running /\ Running \in SUBSET Slots BY DEF Running, Runnable
  <2>2. Cardinality(Running) # 0 BY <2>1, CountChanges
  <2> QED BY <2>2 DEF IInv, ActiveAreCounted, Running
<1> QED BY <1>4, <1>5, <1>6 DEF Found

\* The scan stops at t or before it, and then t is less far away.
LEMMA DispatchNearer ==
  ASSUME IInv, IInv', Dispatch, NEW t \in Slots, Waiting(t), Me' # t
  PROVE  Waiting(t)' /\ Nearer(t)
<1>1. PICK k \in 1 .. numThreads :
        /\ Runnable(Scan(k)) /\ \A j \in 1 .. k - 1 : ~Runnable(Scan(j))
        /\ currentThread' = Scan(k)
  BY DEF Dispatch
<1>2. UNCHANGED <<runningStatus, asleep, doing>> /\ inThread'
  BY DEF Dispatch, table, calls
<1>3. Me' = currentThread' BY <1>2 DEF Me
<1>4. Waiting(t)' BY <1>2 DEF Waiting, Runnable
<1>5. Runnable(t) BY DEF Waiting
<1>6. t \in 0 .. numThreads - 1 BY <1>5, AheadIs
<1>7. PICK i \in 1 .. numThreads :
        /\ i = (IF t > currentThread THEN t - currentThread
                ELSE t + numThreads - currentThread)
        /\ Scan(i) = t
  BY <1>5, AheadIs
<1>8. currentThread' # t BY <1>3
<1>9. k < i
  <2>1. k # i BY <1>1, <1>7, <1>8
  <2>2. ~(i < k) BY <1>1, <1>5, <1>7, TurnFacts
  <2> QED BY <2>1, <2>2, TurnFacts
<1>10. Ahead(t)' < Ahead(t)
  <2>1. currentThread' = IF currentThread + k < numThreads THEN currentThread + k
                         ELSE currentThread + k - numThreads
    BY <1>1, TurnFacts
  <2>2. Ahead(t)' = IF t > currentThread' THEN t - currentThread'
                    ELSE t + MaxThreads - currentThread'
    BY DEF Ahead
  <2>3. CASE t > currentThread
    <3>1. i = t - currentThread BY <1>7, <2>3
    <3>2. currentThread' = currentThread + k BY <1>6, <1>9, <2>1, <3>1, TurnFacts
    <3>3. t > currentThread' BY <1>6, <1>9, <3>1, <3>2, TurnFacts
    <3> QED BY <1>6, <2>2, <2>3, <3>2, <3>3, TurnFacts DEF Ahead
  <2>4. CASE ~(t > currentThread)
    <3>1. i = t + numThreads - currentThread BY <1>7, <2>4
    <3>2. Ahead(t) = t + MaxThreads - currentThread BY <2>4 DEF Ahead
    <3>3. CASE currentThread + k < numThreads
      <4>1. currentThread' = currentThread + k BY <2>1, <3>3
      <4>2. ~(t > currentThread') BY <1>6, <2>4, <4>1, TurnFacts
      <4> QED BY <1>6, <2>2, <3>2, <4>1, <4>2, TurnFacts
    <3>4. CASE ~(currentThread + k < numThreads)
      <4>1. currentThread' = currentThread + k - numThreads BY <2>1, <3>4
      <4>2. t > currentThread' BY <1>6, <1>9, <3>1, <4>1, TurnFacts
      <4> QED BY <1>6, <2>2, <3>2, <4>1, <4>2, TurnFacts
    <3> QED BY <3>3, <3>4
  <2> QED BY <2>3, <2>4
<1> QED BY <1>4, <1>10 DEF Nearer

\* Anything else leaves the turn where it is; t can be killed, that is all.
LEMMA OtherwiseKept ==
  ASSUME IInv, NEW t \in Slots, Waiting(t), ~Dispatch,
         currentThread' = currentThread, inThread' => inThread,
         doing'[Main] = "joinall", t \in asleep' => t \in asleep, runningStatus'[t]
  PROVE  Waiting(t)' /\ Nearer(t)
<1>1. t # Main BY SlotFacts
<1>2. Me' # t BY <1>1 DEF Waiting, Me
<1>3. Waiting(t)' BY <1>2 DEF Waiting, Runnable
<1> QED BY <1>3 DEF Nearer

\* Who leaves to main in a mt_joinall finds it there as long as a thread runs.
LEMMA LeaveStays ==
  ASSUME IInv, doing[Main] = "joinall", NEW u \in Slots, NEW d, NEW a, NEW w \in Nat,
         w # 0, NEW st, Leave(u, d, a, w, st)
  PROVE  /\ inThread' = FALSE /\ currentThread' = currentThread
         /\ doing'[Main] = "joinall"
<1>1. YieldsAgain(w, st) BY DEF YieldsAgain
<1>2. doing' = [doing EXCEPT ![u] = d, ![Main] = @] BY <1>1 DEF Leave
<1>3. Main \in DOMAIN doing /\ u # Main
  BY SlotFacts DEF IInv, TypeOK, Contexts
<1>4. doing'[Main] = doing[Main] BY <1>2, <1>3
<1> QED BY <1>4 DEF Leave

\* Every step is the scan, runs t, ends it, or leaves it where it is.
LEMMA StepNearer ==
  ASSUME IInv, IInv', Next, NEW t \in Slots, Waiting(t), Me' # t, runningStatus'[t]
  PROVE  Waiting(t)' /\ Nearer(t)
<1>1. CASE Dispatch BY <1>1, DispatchNearer
<1> SUFFICES ASSUME ~Dispatch PROVE Waiting(t)' /\ Nearer(t)
  BY <1>1
<1>2. /\ doing[Main] = "joinall" /\ Me # t /\ t # Main
      /\ doing \in [Contexts -> Doings] /\ Main \in Contexts
  BY SlotFacts DEF Waiting, IInv, TypeOK, Doings, Contexts
<1>3. numWaitingThreads \in Nat /\ numWaitingThreads # 0
  BY ScanFinds DEF IInv, TypeOK, Waiting, Found
<1>4. ASSUME UNCHANGED turn, doing'[Main] = "joinall", t \in asleep' => t \in asleep
      PROVE  Waiting(t)' /\ Nearer(t)
  BY <1>4, OtherwiseKept DEF turn
<1>5. ASSUME NEW u \in Slots, NEW d, NEW a, NEW w \in Nat, w # 0, NEW st,
             Leave(u, d, a, w, st), t \in asleep' => t \in asleep
      PROVE  Waiting(t)' /\ Nearer(t)
  <2>1. inThread' = FALSE /\ currentThread' = currentThread /\ doing'[Main] = "joinall"
    BY <1>2, <1>5, LeaveStays
  <2> QED BY <1>5, <2>1, OtherwiseKept
<1>6. ASSUME NEW u \in Slots, Back(u), asleep' = asleep
      PROVE  Waiting(t)' /\ Nearer(t)
  <2>1. u # Main BY SlotFacts
  <2>2. UNCHANGED turn /\ doing'[Main] = "joinall" BY <1>2, <1>6, <2>1 DEF Back
  <2> QED BY <1>4, <1>6, <2>2
<1>7. ASSUME NEW u \in Slots, Again(u), asleep' = asleep
      PROVE  Waiting(t)' /\ Nearer(t)
  BY <1>3, <1>5, <1>7 DEF Again
<1>8. /\ ~MainWakes /\ ~MainTakes /\ \A d, a : ~MainCalls(d, a)
      /\ \A s : ~SemDown(Main, s) /\ ~SemUp(Main, s)
  BY <1>2 DEF MainWakes, MainTakes, MainCalls, SemDown, SemUp, Runs
<1>9. CASE Create
  BY <1>2, <1>4, <1>9 DEF Create, calls
<1>10. ASSUME NEW u \in Slots, Kill(u) PROVE Waiting(t)' /\ Nearer(t)
  BY <1>2, <1>4, <1>10 DEF Kill, calls
<1>11. ASSUME NEW u \in Slots, Yield(u) PROVE Waiting(t)' /\ Nearer(t)
  BY <1>3, <1>5, <1>11 DEF Yield
<1>12. ASSUME NEW u \in Slots, End(u) PROVE Waiting(t)' /\ Nearer(t)
  <2>1. numWaitingThreads' = Cardinality(Running') /\ Running' \in SUBSET Slots
    BY DEF IInv, ActiveAreCounted, Running
  <2>2. t \in Running' BY DEF Running
  <2>3. numWaitingThreads' \in Nat /\ numWaitingThreads' # 0
    BY <2>1, <2>2, CountChanges
  <2>4. Leave(u, "run", None, numWaitingThreads', runningStatus') /\ asleep' = asleep
    BY <1>12 DEF End
  <2> HIDE DEF Waiting
  <2> QED BY <1>5, <2>3, <2>4
<1>13. ASSUME NEW u \in Slots, Sleep(u) PROVE Waiting(t)' /\ Nearer(t)
  <2>1. u # t BY <1>2, <1>13 DEF Sleep, Runs
  <2>2. t \in asleep' => t \in asleep BY <1>13, <2>1 DEF Sleep
  <2> QED BY <1>3, <1>5, <1>13, <2>2 DEF Sleep
<1>14. ASSUME NEW u \in Slots, NEW d, NEW a, Join(u, d, a) PROVE Waiting(t)' /\ Nearer(t)
  BY <1>3, <1>5, <1>14 DEF Join
<1>15. ASSUME NEW u \in Slots, GoesOn(u) PROVE Waiting(t)' /\ Nearer(t)
  <2>1. asleep' = asleep /\ (Back(u) \/ Again(u)) BY <1>15 DEF GoesOn
  <2> QED BY <1>6, <1>7, <2>1
<1>16. ASSUME NEW u \in Slots, NEW s \in Sems, SemDown(u, s) PROVE Waiting(t)' /\ Nearer(t)
  <2>1. asleep' = asleep BY <1>16 DEF SemDown
  <2>2. CASE CanDown(s)
    <3>1. UNCHANGED turn /\ doing' = doing BY <1>16, <2>2 DEF SemDown, calls
    <3> QED BY <1>2, <1>4, <2>1, <3>1
  <2>3. CASE ~CanDown(s)
    <3>1. Leave(u, "down", s, numWaitingThreads, runningStatus)
      BY <1>16, <2>3, SlotFacts DEF SemDown
    <3> QED BY <1>3, <1>5, <2>1, <3>1
  <2> QED BY <2>2, <2>3
<1>17. ASSUME NEW u \in Slots, NEW s \in Sems, SemUp(u, s) PROVE Waiting(t)' /\ Nearer(t)
  BY <1>2, <1>4, <1>17 DEF SemUp, calls
<1>18. ASSUME NEW c \in Contexts, TimePasses(c) PROVE Waiting(t)' /\ Nearer(t)
  BY <1>2, <1>4, <1>18 DEF TimePasses, calls
<1> QED BY <1>8, <1>9, <1>10, <1>11, <1>12, <1>13, <1>14, <1>15, <1>16, <1>17, <1>18
       DEF Next, Contexts

\* While main is in mt_joinall the turn of every thread that may run comes: it is at
\* most the size of the table away, main's scan finds somebody to run, and nothing
\* but the scan moves the turn, each time nearer to it, until it runs or is killed.
THEOREM TheTurnComes ==
  Spec => /\ [](\A t \in Slots : Waiting(t) => Ahead(t) \in 1 .. MaxThreads /\ Found)
          /\ [][\A t \in Slots : Waiting(t) =>
                  \/ Me' = t \/ ~runningStatus'[t]
                  \/ (Waiting(t)' /\ Nearer(t))]_vars
<1>1. IInv => \A t \in Slots : Waiting(t) => Ahead(t) \in 1 .. MaxThreads /\ Found
  BY AheadIs, ScanFinds DEF Waiting
<1>2. ASSUME IInv, IInv', [Next]_vars
      PROVE  [\A t \in Slots : Waiting(t) =>
                \/ Me' = t \/ ~runningStatus'[t]
                \/ (Waiting(t)' /\ Nearer(t))]_vars
  BY <1>2, StepNearer
<1> QED BY <1>1, <1>2, Invariant, PTL DEF Spec
=============================================================================
