----------------------------- MODULE MyThreads -----------------------------
(***************************************************************************)
(* The user-level threads of A2 - My Threads (mythread.c): a table of      *)
(* threads, one of which runs, or main runs; mt_yield takes turns through  *)
(* main; semaphores that remember who has them.                            *)
(*                                                                         *)
(* Identifiers and slots of the table go together (mt_create numbers both  *)
(* upwards and no slot is used twice), so a thread is its slot.  A call    *)
(* that returns at once and changes nothing is left out.  mt_kill takes    *)
(* another thread ("allows one thread to kill another", mt.h) and main     *)
(* does not call mt_exit.                                                  *)
(*                                                                         *)
(* Threads and main use semaphores, under the identity mt_self() gives:    *)
(* the thread that runs, and in main the thread that ran last.  Before any *)
(* has run that is the word in front of the table, read outside of it; it  *)
(* is taken to be no thread's identifier and not the empty place.          *)
(***************************************************************************)
EXTENDS Integers, FiniteSets

CONSTANTS Main,         \* the main context
          MaxThreads,   \* bound on the threads made (at most MAX_THREADS)
          Sems,         \* semaphores
          InitVal,      \* the argument of mt_sem_create for each
          None          \* an empty place in the list of a semaphore

ASSUME MyThreadsAssumption ==
  /\ MaxThreads \in Nat \ {0}
  /\ Main \notin Int /\ None \notin Int
  /\ InitVal \in [Sems -> Nat]

Slots    == 0 .. MaxThreads - 1
Contexts == Slots \cup {Main}
Ids      == -1 .. MaxThreads - 1

VARIABLES numThreads, numWaitingThreads,   \* threads made; threads "active"
          runningStatus,
          currentThread, inThread,
          asleep,   \* the contexts whose sleep_info has its time ahead
          doing,    \* the call a context is in; it stands in its mt_yield
          arg,      \* what it joins, or the semaphore it waits for
          sVal, threads,   \* the value of a semaphore and who took it
          inside    \* the identities whose down succeeded and which have not upped

table == <<numThreads, numWaitingThreads, runningStatus>>
turn  == <<currentThread, inThread>>
calls == <<doing, arg>>
sems  == <<sVal, threads, inside>>
vars  == <<table, turn, asleep, calls, sems>>

Places == 0 .. MaxThreads

Init ==
  /\ numThreads = 0 /\ numWaitingThreads = 0
  /\ runningStatus = [t \in Slots |-> FALSE]
  /\ currentThread = -1 /\ inThread = FALSE
  /\ asleep = {}
  /\ doing = [c \in Contexts |-> "run"] /\ arg = [c \in Contexts |-> None]
  /\ sVal = [s \in Sems |-> 0]
  /\ threads = [s \in Sems |-> [i \in Places |-> None]]
  /\ inside = [s \in Sems |-> {}]

\* The context that has the CPU, and whether it is outside of the library.
Me == IF inThread THEN currentThread ELSE Main
Runs(c) == Me = c /\ doing[c] = "run"

\* mt_self(), and the identity under which a semaphore is taken.
Self == currentThread

\* mt_join looks two slots past the thread it waits for (line 243); the table
\* goes on behind the threads made, with status 0.
JoinSlot(t) == t + 2
JoinIsOver(status, t) == JoinSlot(t) \notin Slots \/ ~status[JoinSlot(t)]

\* The threads that may run, and the order in which main looks for one.
Runnable(t) == runningStatus[t] /\ t \notin asleep
ScanFromTheFirst(k) == k - 1
Scan(k) == (currentThread + k) % numThreads

\* mt_sem_down: sVal falls to -InitVal - 1 before the caller has to wait.
CanDownOneMore(s) == sVal[s] >= -InitVal[s] - 1
CanDown(s) == sVal[s] >= -InitVal[s]
Take(t, s) ==
  /\ threads' = [threads EXCEPT ![s][-sVal[s]] = t]
  /\ sVal' = [sVal EXCEPT ![s] = @ - 1]
  /\ inside' = [inside EXCEPT ![s] = @ \cup {t}]

\* mt_yield in main: the next thread gets the CPU.  When none can run, main
\* goes round the table until a sleeper's time is up.
Dispatch ==
  /\ ~inThread /\ doing[Main] # "run" /\ numWaitingThreads # 0
  /\ doing[Main] = "down" => ~CanDown(arg[Main])
  /\ \E k \in 1 .. numThreads :
       /\ Runnable(Scan(k)) /\ \A j \in 1 .. k - 1 : ~Runnable(Scan(j))
       /\ currentThread' = Scan(k)
  /\ inThread' = TRUE
  /\ UNCHANGED <<table, asleep, calls, sems>>

\* Main returns from its mt_yield: does the call it is in yield again?
YieldsAgain(waiting, status) ==
  CASE doing[Main] = "joinall" -> waiting > 0
    [] doing[Main] = "join"    -> waiting > 0 /\ ~JoinIsOver(status, arg[Main])
    [] doing[Main] = "sleep"   -> Main \in asleep
    [] doing[Main] = "down"    -> TRUE
    [] OTHER                   -> FALSE

\* Back to main from thread t, which stays in call d.
Leave(t, d, a, waiting, status) ==
  /\ inThread' = FALSE /\ currentThread' = currentThread
  /\ doing' = [doing EXCEPT ![t] = d,
                   ![Main] = IF YieldsAgain(waiting, status) THEN @ ELSE "run"]
  /\ arg' = [arg EXCEPT ![t] = a]

\* mt_yield in a thread.
Yield(t) ==
  /\ t \in Slots /\ Runs(t)
  /\ Leave(t, "yield", None, numWaitingThreads, runningStatus)
  /\ UNCHANGED <<table, asleep, sems>>

\* mt_exit, or the function of the thread returns; main frees what it had.
End(t) ==
  /\ t \in Slots /\ Runs(t)
  /\ runningStatus' = [runningStatus EXCEPT ![t] = FALSE]
  /\ numWaitingThreads' = numWaitingThreads - 1
  /\ Leave(t, "run", None, numWaitingThreads', runningStatus')
  /\ UNCHANGED <<numThreads, asleep, sems>>

\* Main calls something that yields.
MainCalls(d, a) ==
  /\ Runs(Main)
  /\ d = "sleep" \/ numWaitingThreads > 0
  /\ asleep' = IF d = "sleep" THEN asleep \cup {Main} ELSE asleep
  /\ doing' = [doing EXCEPT ![Main] = d] /\ arg' = [arg EXCEPT ![Main] = a]
  /\ UNCHANGED <<table, turn, sems>>

\* With no thread left mt_yield returns at once and main waits for its time.
MainWakes ==
  /\ ~inThread /\ doing[Main] = "sleep" /\ numWaitingThreads = 0 /\ Main \notin asleep
  /\ doing' = [doing EXCEPT ![Main] = "run"]
  /\ UNCHANGED <<table, turn, asleep, arg, sems>>

\* The loop of mt_sem_down ends in main: it takes the semaphore as the thread that
\* ran last.
MainTakes ==
  /\ ~inThread /\ doing[Main] = "down" /\ CanDown(arg[Main])
  /\ Take(Self, arg[Main])
  /\ doing' = [doing EXCEPT ![Main] = "run"]
  /\ UNCHANGED <<table, turn, asleep, arg>>
-----------------------------------------------------------------------------
(* The calls                                                               *)

\* mt_create
Create ==
  /\ Runs(Me) /\ numThreads < MaxThreads
  /\ runningStatus' = [runningStatus EXCEPT ![numThreads] = TRUE]
  /\ numThreads' = numThreads + 1
  /\ numWaitingThreads' = numWaitingThreads + 1
  /\ UNCHANGED <<turn, asleep, calls, sems>>

\* mt_kill of thread t, by main or another thread.
KillableAnyTime(t) == t < numThreads
Killable(t) == t < numThreads /\ runningStatus[t]
Kill(t) ==
  /\ Runs(Me) /\ t # Me /\ Killable(t)
  /\ runningStatus' = [runningStatus EXCEPT ![t] = FALSE]
  /\ numWaitingThreads' = numWaitingThreads - 1
  /\ UNCHANGED <<numThreads, turn, asleep, calls, sems>>

\* mt_sleep in a thread.
Sleep(t) ==
  /\ t \in Slots /\ Runs(t)
  /\ asleep' = asleep \cup {t}
  /\ Leave(t, "sleep", None, numWaitingThreads, runningStatus)
  /\ UNCHANGED <<table, sems>>

\* time(NULL) reaches the end of c's sleep.
TimePasses(c) ==
  /\ c \in asleep /\ asleep' = asleep \ {c}
  /\ UNCHANGED <<table, turn, calls, sems>>

\* mt_join and mt_joinall in a thread; d is the call.
Join(t, d, a) ==
  /\ t \in Slots /\ Runs(t) /\ numWaitingThreads > 1
  /\ Leave(t, d, a, numWaitingThreads, runningStatus)
  /\ UNCHANGED <<table, asleep, sems>>

\* The list of a semaphore is looked through up to its first empty place.
PlaceOf(s, t) == {i \in Places : /\ threads[s][i] = t
                                 /\ \A j \in 0 .. i - 1 : threads[s][j] \notin {t, None}}

\* mt_sem_down, by a caller that is not in the list.
SemDown(c, s) ==
  /\ Runs(c) /\ PlaceOf(s, Self) = {}
  /\ IF CanDown(s) THEN Take(Self, s) /\ UNCHANGED <<turn, calls>>
     ELSE /\ UNCHANGED sems
          /\ \/ c # Main /\ Leave(c, "down", s, numWaitingThreads, runningStatus)
             \/ /\ c = Main /\ UNCHANGED turn
                /\ doing' = [doing EXCEPT ![Main] = "down"] /\ arg' = [arg EXCEPT ![Main] = s]
  /\ UNCHANGED <<table, asleep>>

\* mt_sem_up, by a caller in the list.
SemUp(c, s) ==
  /\ Runs(c) /\ sVal[s] < 0
  /\ \E i \in PlaceOf(s, Self) : threads' = [threads EXCEPT ![s][i] = None]
  /\ sVal' = [sVal EXCEPT ![s] = @ + 1]
  /\ inside' = [inside EXCEPT ![s] = @ \ {Self}]
  /\ UNCHANGED <<table, turn, asleep, calls>>

\* Thread t, back in its mt_yield, goes on with the call it is in.
Back(t) == /\ doing' = [doing EXCEPT ![t] = "run"] /\ arg' = [arg EXCEPT ![t] = None]
           /\ UNCHANGED turn
Again(t) == Leave(t, doing[t], arg[t], numWaitingThreads, runningStatus)

GoesOn(t) ==
  /\ t \in Slots /\ Me = t
  /\ \/ doing[t] \in {"yield", "sleep"} /\ Back(t) /\ UNCHANGED sems
     \/ /\ doing[t] = "joinall" /\ UNCHANGED sems
        /\ IF numWaitingThreads > 1 THEN Again(t) ELSE Back(t)
     \/ /\ doing[t] = "join" /\ UNCHANGED sems
        /\ IF numWaitingThreads > 1 /\ ~JoinIsOver(runningStatus, arg[t])
             THEN Again(t) ELSE Back(t)
     \/ /\ doing[t] = "down"
        /\ IF CanDown(arg[t]) THEN Back(t) /\ Take(t, arg[t])
                              ELSE Again(t) /\ UNCHANGED sems
  /\ UNCHANGED <<table, asleep>>
-----------------------------------------------------------------------------
Next ==
  \/ Dispatch \/ MainWakes \/ MainTakes \/ Create
  \/ \E d \in {"yield", "sleep", "joinall"} : MainCalls(d, None)
  \/ \E t \in Slots : t < numThreads /\ MainCalls("join", t)
  \/ \E t \in Slots : \/ Kill(t) \/ Yield(t) \/ End(t) \/ Sleep(t) \/ GoesOn(t)
                      \/ Join(t, "joinall", None)
                      \/ \E u \in Slots \ {t} : u < numThreads /\ Join(t, "join", u)
  \/ \E c \in Contexts : TimePasses(c) \/ \E s \in Sems : SemDown(c, s) \/ SemUp(c, s)

Spec == Init /\ [][Next]_vars

\* The library goes on by itself, time passes, and a thread yields sooner or
\* later: nobody can take the CPU from one that does not.
FairSpec ==
  /\ Spec /\ WF_vars(Dispatch)
  /\ \A t \in Slots : WF_vars(GoesOn(t)) /\ WF_vars(Yield(t)) /\ WF_vars(TimePasses(t))
-----------------------------------------------------------------------------
(* Properties                                                              *)

TypeOK ==
  /\ numThreads \in 0 .. MaxThreads /\ numWaitingThreads \in Nat
  /\ runningStatus \in [Slots -> BOOLEAN]
  /\ currentThread \in -1 .. numThreads - 1 /\ inThread \in BOOLEAN
  /\ asleep \subseteq Contexts
  /\ doing \in [Contexts -> {"run", "yield", "sleep", "join", "joinall", "down"}]
  /\ arg \in [Contexts -> Slots \cup Sems \cup {None}]
  /\ sVal \in [Sems -> Int] /\ threads \in [Sems -> [Places -> Ids \cup {None}]]
  /\ inside \in [Sems -> SUBSET Ids]

\* numWaitingThreads is "the total number of active threads" (mt.h), through
\* every order of ends and kills: mt_joinall trusts it, and mt_yield goes round
\* the table for ever when it is too high.
ActiveAreCounted ==
  numWaitingThreads = Cardinality({t \in Slots : runningStatus[t]})

\* A semaphore made with 0 is held under one identity at a time, whoever calls,
\* waits, ends and is killed, its value says so, and a call under that identity
\* finds it in the list and releases it.  Where threads alone use it, as the
\* philosophers do, it is the lock of one of them; main shares the identity of the
\* thread that ran last, and can hold or release what that thread holds.
OneInside ==
  \A s \in Sems : InitVal[s] = 0 =>
     /\ \A t, u \in inside[s] : t = u
     /\ sVal[s] = IF inside[s] = {} THEN 0 ELSE -1
     /\ \A t \in inside[s] : PlaceOf(s, t) # {}

\* While main is in mt_joinall every thread that could run runs again, however
\* many sleep, wait, join, come and go.
EverybodyRuns ==
  \A t \in Slots : (doing[Main] = "joinall" /\ Runnable(t)) ~> (Me = t \/ ~runningStatus[t])
=============================================================================
