--------------------------- MODULE SosPipe_proofs ---------------------------
(***************************************************************************)
(* Proofs about SosPipe, for any number of processes, any buffer size and  *)
(* any sizes of the calls: the buffer and its semaphores, that it is a     *)
(* channel, and that who waits at it is served or comes to its test.       *)
(***************************************************************************)
EXTENDS SosPipe, Sequences, FiniteSetTheorems, TLAPS

(* The inductive invariant, in named parts.                                *)

\* A semaphore's queue is exactly the threads blocked on it, and nobody waits
\* while there is a credit.
Queue(s, l) == /\ s.wait = {p \in Procs : pc[p] = l}
               /\ s.wait # {} => s.credit = 0

Queues == /\ Queue(read_serialize, "rser") /\ Queue(write_serialize, "wser")
          /\ Queue(nelem, "relem")         /\ Queue(nempty, "wempty")

\* read_serialize and write_serialize are free exactly when nobody owns the end.
Serialized == /\ read_serialize.credit  = (IF ReadOwners = {} THEN 1 ELSE 0)
              /\ write_serialize.credit = (IF WriteOwners = {} THEN 1 ELSE 0)

\* A thread that came through down(nelem) or down(nempty) holds a credit.
AtTake == IF \E p \in Procs : pc[p] = "rtake" THEN 1 ELSE 0
AtPut  == IF \E p \in Procs : pc[p] = "wput"  THEN 1 ELSE 0

\* nelem counts the characters, plus the one V of the last writer's close;
\* nempty counts the free places, plus the one V of the last reader's close.
Credits == ~halted =>
  /\ nelem.credit + AtTake - count \in (IF nwriters > 0 THEN {0} ELSE {0, 1})
  /\ nempty.credit + AtPut + count = (IF nreaders > 0 THEN Size ELSE Size + 1)

\* tail is count places after head.
Positions == ~halted => tail = (head + count) % Size

IInv == /\ TypeOK /\ OneAtEachEnd /\ Queues /\ Serialized /\ Credits /\ Positions
        /\ RingInOrder
-----------------------------------------------------------------------------
(* Arithmetic modulo the size of the buffer.                               *)

\* A remainder is an index of the buffer.
LEMMA ModInRange == ASSUME NEW n \in Nat \ {0}, NEW a \in Int
                    PROVE  a % n \in 0 .. n - 1
  OBVIOUS

\* An index is its own remainder.
LEMMA ModSmall == ASSUME NEW n \in Nat \ {0}, NEW a \in 0 .. n - 1
                  PROVE  a % n = a
  OBVIOUS

\* One turn of the buffer past the end comes back.
LEMMA ModOnce == ASSUME NEW n \in Nat \ {0}, NEW a \in n .. 2 * n - 1
                 PROVE  a % n = a - n
  OBVIOUS

\* One turn before the start comes back.
LEMMA ModNeg == ASSUME NEW n \in Nat \ {0}, NEW a \in -n .. -1
                 PROVE  a % n = a + n
  OBVIOUS

\* head moves on: the place k after the new head is the place k + 1 after the old.
LEMMA ModShift == ASSUME NEW n \in Nat \ {0}, NEW h \in 0 .. n - 1, NEW k \in -1 .. n - 1
                  PROVE  (((h + 1) % n) + k) % n = (h + 1 + k) % n
  <1>1. CASE h + 1 < n
    BY <1>1, ModSmall
  <1>2. CASE h + 1 = n
    <2>1. (h + 1) % n = 0
      BY <1>2, ModOnce
    <2>2. CASE k = -1
      BY <1>2, <2>1, <2>2, ModNeg, ModSmall
    <2>3. CASE k \in 0 .. n - 1
      <3>1. n + k \in n .. 2 * n - 1
        BY <2>3
      <3>2. (n + k) % n = k
        BY <3>1, ModOnce
      <3>3. k % n = k
        BY <2>3, ModSmall
      <3>4. h + 1 + k = n + k
        BY <1>2
      <3> QED BY <2>1, <2>3, <3>2, <3>3, <3>4
    <2> QED BY <2>2, <2>3
  <1> QED BY <1>1, <1>2

\* tail moves on.
LEMMA ModStep == ASSUME NEW n \in Nat \ {0}, NEW a \in -1 .. 2 * n - 2
                 PROVE  ((a % n) + 1) % n = (a + 1) % n
  <1>1. CASE a = -1
    BY <1>1, ModNeg, ModOnce, ModSmall
  <1>2. CASE a \in 0 .. n - 1
    BY <1>2, ModSmall
  <1>3. CASE a \in n .. 2 * n - 2
    <2>1. (a % n) + 1 = a + 1 - n /\ a + 1 - n \in 0 .. n - 1 /\ a + 1 \in n .. 2 * n - 1
      BY <1>3, ModOnce
    <2>2. (a + 1 - n) % n = a + 1 - n
      BY <2>1, ModSmall
    <2>3. (a + 1) % n = a + 1 - n
      BY <2>1, ModOnce
    <2> QED BY <2>1, <2>2, <2>3
  <1> QED BY <1>1, <1>2, <1>3

\* Two of the n places after head are the same only if they are one.
LEMMA ModDistinct == ASSUME NEW n \in Nat \ {0}, NEW h \in 0 .. n - 1,
                            NEW j \in 0 .. n - 1, NEW k \in 0 .. n - 1, j < k
                     PROVE  (h + j) % n # (h + k) % n
  <1>1. CASE h + k < n
    BY <1>1, ModSmall
  <1>2. CASE h + j < n /\ h + k >= n
    BY <1>2, ModSmall, ModOnce
  <1>3. CASE h + j >= n
    BY <1>3, ModOnce
  <1> QED BY <1>1, <1>2, <1>3
-----------------------------------------------------------------------------
(* What a semaphore operation and a change of label do.                    *)

\* mt_sem_down takes a credit or queues the thread (do_read and do_write use nothing else).
LEMMA DownFacts ==
  ASSUME NEW s \in Sems, NEW t \in Procs
  PROVE  /\ Down(s, t) \in Sems
         /\ CanDown(s) => /\ Down(s, t).credit = s.credit - 1
                          /\ Down(s, t).wait = s.wait
                          /\ s.credit > 0
         /\ ~CanDown(s) => /\ Down(s, t).credit = s.credit /\ s.credit = 0
                           /\ Down(s, t).wait = s.wait \cup {t}
  BY DEF Sems, Down, CanDown

\* mt_sem_up gives a credit or takes the thread it wakes from the queue.
LEMMA UpFacts ==
  ASSUME NEW s \in Sems, NEW w \in Wakeable(s)
  PROVE  /\ Up(s, w) \in Sems
         /\ \/ /\ w = NoThread /\ s.wait = {}
               /\ Up(s, w).credit = s.credit + 1 /\ Up(s, w).wait = {}
            \/ /\ w \in s.wait /\ w \in Procs /\ w # NoThread
               /\ Up(s, w).credit = s.credit /\ Up(s, w).wait = s.wait \ {w}
  BY SosPipeAssumption DEF Sems, Up, Wakeable

\* A thread woken from a down goes on inside the same call.
LEMMA ResumeFacts ==
  /\ Resume("rser") = "rtop" /\ Resume("relem") = "rtake"
  /\ Resume("wser") = "wtop" /\ Resume("wempty") = "wput"
  BY DEF Resume

\* Only t, and w if it is a thread, change their labels.
LEMMA GotoFacts ==
  ASSUME TypeOK, NEW t \in Procs, NEW l \in Labels,
         NEW w, w = NoThread \/ (w \in Procs /\ pc[w] \in Waiting),
         Goto(t, l, w)
  PROVE  /\ pc' \in [Procs -> Labels] /\ cur' \in Procs \cup {NoThread}
         /\ pc'[t] = l
         /\ \A u \in Procs \ {t} : pc'[u] = IF u = w THEN Resume(pc[u]) ELSE pc[u]
  BY SosPipeAssumption, ResumeFacts
     DEF Goto, TypeOK, Labels, Reading, Writing, Waiting
-----------------------------------------------------------------------------
\* The test of the loop of io_buffer_read_exact keeps the invariant.
LEMMA ReadTopStep == ASSUME IInv, NEW t \in Procs, ReadTop(t)
                     PROVE  IInv'
  <1> USE SosPipeAssumption DEF IInv, ReadTop, Runs, ring, ends, totals
  <1> DEFINE l == IF done[t] < size[t] THEN IF CanDown(nelem) THEN "rtake" ELSE "relem"
                                       ELSE "rdone"
  <1>0. /\ pc' \in [Procs -> Labels] /\ cur' \in Procs \cup {NoThread}
        /\ pc'[t] = l /\ pc[t] = "rtop"
        /\ \A u \in Procs \ {t} : pc'[u] = pc[u]
    <2>1. l \in Labels /\ Goto(t, l, NoThread)
      BY DEF Labels, Reading
    <2> QED BY <2>1, GotoFacts DEF ReadTop
  <1>1. /\ nelem \in Sems /\ nelem' \in Sems
        /\ \/ /\ l = "rtake" /\ nelem.credit > 0
              /\ nelem'.credit = nelem.credit - 1 /\ nelem'.wait = nelem.wait
           \/ /\ l = "relem" /\ nelem.credit = 0
              /\ nelem'.credit = 0 /\ nelem'.wait = nelem.wait \cup {t}
           \/ l = "rdone" /\ nelem' = nelem
    <2>1. nelem \in Sems
      BY DEF TypeOK
    <2>2. CASE done[t] < size[t]
      <3>1. nelem' = Down(nelem, t)
        BY <2>2
      <3>2. CASE CanDown(nelem)
        BY <2>1, <2>2, <3>1, <3>2, DownFacts
      <3>3. CASE ~CanDown(nelem)
        BY <2>1, <2>2, <3>1, <3>3, DownFacts
      <3> QED BY <3>2, <3>3
    <2>3. CASE ~(done[t] < size[t])
      BY <2>1, <2>3
    <2> QED BY <2>2, <2>3
  <1> HIDE DEF l
  <1>2. TypeOK'
    BY <1>0, <1>1 DEF TypeOK
  <1>3. OneAtEachEnd'
    BY <1>0, <1>1 DEF OneAtEachEnd, ReadOwners, WriteOwners, Reading, Writing
  <1>4. Queues'
    <2>1. Queue(nelem, "relem")'
      BY <1>0, <1>1 DEF Queues, Queue
    <2>2. UNCHANGED <<read_serialize, write_serialize, nempty>> 
      OBVIOUS
    <2>3. (Queue(read_serialize, "rser") /\ Queue(write_serialize, "wser")
              /\ Queue(nempty, "wempty"))'
      BY <1>0, <1>1, <2>2 DEF Queues, Queue
    <2> QED BY <2>1, <2>3 DEF Queues
  <1>5. Serialized'
    BY <1>0, <1>1 DEF Serialized, ReadOwners, WriteOwners, Reading, Writing
  <1>6. Credits'
    <2>1. AtPut' = AtPut
      BY <1>0, <1>1 DEF AtPut
    <2>2. AtTake = 0 /\ AtTake' = IF l = "rtake" THEN 1 ELSE 0
      BY <1>0, <1>1 DEF AtTake, OneAtEachEnd, ReadOwners, Reading
    <2>3. /\ nelem.credit \in Nat /\ nelem'.credit \in Nat /\ count \in Int
          /\ AtTake \in {0, 1} /\ AtTake' \in {0, 1}
      BY <1>1 DEF TypeOK, Sems, AtTake
    <2>4. nelem'.credit + AtTake' = nelem.credit + AtTake
      BY <1>1, <2>2 DEF Sems
    <2>5. UNCHANGED <<halted, count, nempty, nreaders, nwriters>> /\ Credits
      OBVIOUS
    <2> HIDE DEF IInv, ReadTop, Runs
    <2>6. nelem'.credit + AtTake' - count' = nelem.credit + AtTake - count
      BY <2>3, <2>4, <2>5
    <2>7. nempty'.credit + AtPut' + count' = nempty.credit + AtPut + count
      BY <2>1, <2>5
    <2> QED BY <2>5, <2>6, <2>7 DEF Credits
  <1>7. Positions' /\ RingInOrder'
    BY DEF Positions, RingInOrder
  <1> QED BY <1>2, <1>3, <1>4, <1>5, <1>6, <1>7

\* Taking a character keeps the invariant: the ring shifts by one place and
\* the room it leaves goes to nempty.
LEMMA ReadTakeStep == ASSUME IInv, NEW t \in Procs, ReadTake(t)
                      PROVE  IInv'
  <1> USE SosPipeAssumption DEF IInv
  <1> DEFINE l == IF buf[head] \in EofBytes \/ Drained THEN "rdone" ELSE "rtop"
  <1>1. PICK w \in Wakeable(nempty) : nempty' = Up(nempty, w) /\ Goto(t, l, w)
    BY DEF ReadTake
  <1>b. /\ ~halted /\ halted' = halted
        /\ head' = Advance(head) /\ count' = count - 1 /\ taken' = taken + 1
        /\ done' = [done EXCEPT ![t] = @ + 1]
        /\ \E r \in {-1, done[t] + 1} : ret' = [ret EXCEPT ![t] = r]
        /\ UNCHANGED <<buf, tail, lefttowrite, nreaders, nwriters, nelem, read_serialize,
                       write_serialize, size, wrote, asked>>
    BY DEF ReadTake, Runs, ends
  <1>2. /\ nempty \in Sems /\ nempty' \in Sems
        /\ \/ /\ w = NoThread /\ nempty.wait = {}
              /\ nempty'.credit = nempty.credit + 1 /\ nempty'.wait = {}
           \/ /\ w \in Procs /\ w # NoThread /\ pc[w] = "wempty" /\ w \in nempty.wait
              /\ nempty'.credit = nempty.credit /\ nempty'.wait = nempty.wait \ {w}
    BY <1>1, UpFacts DEF TypeOK, Queues, Queue
  <1>3. /\ pc' \in [Procs -> Labels] /\ cur' \in Procs \cup {NoThread}
        /\ pc'[t] = l /\ pc[t] = "rtake" /\ l \in {"rdone", "rtop"}
        /\ \A u \in Procs \ {t} : pc'[u] = IF u = w THEN "wput" ELSE pc[u]
    BY <1>1, <1>2, GotoFacts, ResumeFacts DEF Labels, Reading, Waiting, ReadTake
  <1> HIDE DEF l
  <1>a. head' \in 0 .. Size - 1
    BY <1>b, ModInRange DEF Advance, TypeOK
  <1>4. TypeOK'
    <2>1. done' \in [Procs -> Nat] /\ ret' \in [Procs -> Int]
      BY <1>b DEF TypeOK
    <2>2. count' \in Int /\ taken' \in Nat /\ halted' \in BOOLEAN
      BY <1>b DEF TypeOK
    <2> QED BY <1>b, <1>2, <1>3, <1>a, <2>1, <2>2 DEF TypeOK
  <1>5. OneAtEachEnd'
    BY <1>b, <1>2, <1>3 DEF OneAtEachEnd, ReadOwners, WriteOwners, Reading, Writing
  <1>6. Queues'
    <2>1. Queue(nempty, "wempty")'
      BY <1>b, <1>2, <1>3 DEF Queues, Queue
    <2>2. (Queue(read_serialize, "rser") /\ Queue(write_serialize, "wser")
              /\ Queue(nelem, "relem"))'
      BY <1>b, <1>2, <1>3 DEF Queues, Queue
    <2> QED BY <2>1, <2>2 DEF Queues
  <1>7. Serialized'
    BY <1>b, <1>2, <1>3 DEF Serialized, ReadOwners, WriteOwners, Reading, Writing
  <1>8. AtTake = 1 /\ AtTake' = 0
    BY <1>b, <1>2, <1>3 DEF AtTake, OneAtEachEnd, ReadOwners, Reading
  <1>9. w = NoThread => AtPut' = AtPut
    BY <1>b, <1>2, <1>3 DEF AtPut
  <1>10. w # NoThread => AtPut = 0 /\ AtPut' = 1
    BY <1>b, <1>2, <1>3 DEF AtPut, OneAtEachEnd, WriteOwners, Writing
  <1>11. Credits'
    <2>1. /\ nelem.credit \in Nat /\ nempty.credit \in Nat /\ count \in Int
          /\ AtPut \in {0, 1}
      BY DEF TypeOK, Sems, AtPut
    <2>2. nelem.credit + AtTake' - count' = nelem.credit + AtTake - count
      BY <1>b, <1>8, <2>1
    <2>3. nempty'.credit + AtPut' + count' = nempty.credit + AtPut + count
      BY <1>b, <1>2, <1>9, <1>10, <2>1
    <2> QED BY <1>b, <2>2, <2>3 DEF Credits
  <1>12. count \in 0 .. Size /\ head \in 0 .. Size - 1
    <2>1. nelem.credit \in Nat /\ count \in Int /\ head \in 0 .. Size - 1
      BY DEF TypeOK, Sems
    <2> QED BY <1>b, <1>8, <2>1 DEF Credits, RingInOrder
  <1>13. Positions'
    <2>1. (head' + count') % Size = (head + 1 + (count - 1)) % Size
      BY <1>b, <1>12, ModShift DEF Advance
    <2> QED BY <1>b, <2>1, <1>12 DEF Positions
  <1>14. RingInOrder'
    <2>1. ASSUME NEW k \in 0 .. count - 2
          PROVE  buf[(head' + k) % Size] = taken + 1 + k
      <3>1. (head' + k) % Size = (head + (k + 1)) % Size
        BY <1>b, <1>12, ModShift DEF Advance
      <3>2. k + 1 \in 0 .. count - 1 /\ taken \in Nat
        BY <1>12 DEF TypeOK
      <3>3. buf[(head + (k + 1)) % Size] = taken + (k + 1)
        BY <1>b, <3>2 DEF RingInOrder
      <3> QED BY <3>1, <3>2, <3>3
    <2>2. count' - 1 = count - 2
      BY <1>b, <1>12
    <2> QED BY <1>b, <2>1, <2>2, <1>12 DEF RingInOrder, TypeOK
  <1> QED BY <1>4, <1>5, <1>6, <1>7, <1>11, <1>13, <1>14

\* Leaving read_serialize hands the read end to at most one reader.
LEMMA ReadDoneStep == ASSUME IInv, NEW t \in Procs, ReadDone(t)
                      PROVE  IInv'
  <1> USE SosPipeAssumption DEF IInv
  <1>1. PICK w \in Wakeable(read_serialize) :
          read_serialize' = Up(read_serialize, w) /\ Goto(t, "idle", w)
    BY DEF ReadDone
  <1>2. /\ ~halted /\ pc[t] = "rdone"
        /\ UNCHANGED <<buf, head, tail, count, lefttowrite, nreaders, nwriters, nelem, nempty,
                       write_serialize, size, done, ret, halted, wrote, taken, asked>>
    BY DEF ReadDone, Runs, ring, ends, totals
  <1>3. /\ read_serialize \in Sems /\ read_serialize' \in Sems
        /\ \/ /\ w = NoThread /\ read_serialize.wait = {}
              /\ read_serialize'.credit = read_serialize.credit + 1
              /\ read_serialize'.wait = {}
           \/ /\ w \in Procs /\ w # NoThread /\ pc[w] = "rser" /\ w \in read_serialize.wait
              /\ read_serialize'.credit = read_serialize.credit
              /\ read_serialize'.wait = read_serialize.wait \ {w}
    BY <1>1, UpFacts DEF TypeOK, Queues, Queue
  <1>4. /\ pc' \in [Procs -> Labels] /\ cur' \in Procs \cup {NoThread}
        /\ pc'[t] = "idle" /\ pc[t] = "rdone"
        /\ \A u \in Procs \ {t} : pc'[u] = IF u = w THEN "rtop" ELSE pc[u]
    BY <1>1, <1>2, <1>3, GotoFacts, ResumeFacts DEF Labels, Reading, Waiting
  <1>5. TypeOK'
    BY <1>2, <1>3, <1>4 DEF TypeOK
  <1>6. /\ ReadOwners = {t} /\ ReadOwners' = (IF w = NoThread THEN {} ELSE {w})
        /\ WriteOwners' = WriteOwners
    BY <1>3, <1>4 DEF OneAtEachEnd, ReadOwners, WriteOwners, Reading, Writing
  <1>7. OneAtEachEnd'
    BY <1>6 DEF OneAtEachEnd
  <1>8. Queues'
    <2>1. Queue(read_serialize, "rser")'
      BY <1>2, <1>3, <1>4 DEF Queues, Queue
    <2>2. (Queue(write_serialize, "wser") /\ Queue(nelem, "relem") /\ Queue(nempty, "wempty"))'
      BY <1>2, <1>3, <1>4 DEF Queues, Queue
    <2> QED BY <2>1, <2>2 DEF Queues
  <1>9. Serialized'
    BY <1>2, <1>3, <1>6 DEF Serialized, TypeOK, Sems
  <1>10. AtTake' = AtTake /\ AtPut' = AtPut
    BY <1>3, <1>4 DEF AtTake, AtPut
  <1>11. Credits' /\ Positions' /\ RingInOrder'
    BY <1>2, <1>10 DEF Credits, Positions, RingInOrder
  <1> QED BY <1>5, <1>7, <1>8, <1>9, <1>11

\* Leaving write_serialize hands the write end to at most one writer.
LEMMA WriteDoneStep == ASSUME IInv, NEW t \in Procs, WriteDone(t)
                      PROVE  IInv'
  <1> USE SosPipeAssumption DEF IInv
  <1>1. PICK w \in Wakeable(write_serialize) :
          write_serialize' = Up(write_serialize, w) /\ Goto(t, "idle", w)
    BY DEF WriteDone
  <1>2. /\ ~halted /\ pc[t] = "wdone"
        /\ UNCHANGED <<buf, head, tail, count, lefttowrite, nreaders, nwriters, nelem, nempty,
                       read_serialize, size, done, ret, halted, wrote, taken, asked>>
    BY DEF WriteDone, Runs, ring, ends, totals
  <1>3. /\ write_serialize \in Sems /\ write_serialize' \in Sems
        /\ \/ /\ w = NoThread /\ write_serialize.wait = {}
              /\ write_serialize'.credit = write_serialize.credit + 1
              /\ write_serialize'.wait = {}
           \/ /\ w \in Procs /\ w # NoThread /\ pc[w] = "wser" /\ w \in write_serialize.wait
              /\ write_serialize'.credit = write_serialize.credit
              /\ write_serialize'.wait = write_serialize.wait \ {w}
    BY <1>1, UpFacts DEF TypeOK, Queues, Queue
  <1>4. /\ pc' \in [Procs -> Labels] /\ cur' \in Procs \cup {NoThread}
        /\ pc'[t] = "idle" /\ pc[t] = "wdone"
        /\ \A u \in Procs \ {t} : pc'[u] = IF u = w THEN "wtop" ELSE pc[u]
    BY <1>1, <1>2, <1>3, GotoFacts, ResumeFacts DEF Labels, Reading, Waiting
  <1>5. TypeOK'
    BY <1>2, <1>3, <1>4 DEF TypeOK
  <1>6. /\ WriteOwners = {t} /\ WriteOwners' = (IF w = NoThread THEN {} ELSE {w})
        /\ ReadOwners' = ReadOwners
    BY <1>3, <1>4 DEF OneAtEachEnd, ReadOwners, WriteOwners, Reading, Writing
  <1>7. OneAtEachEnd'
    BY <1>6 DEF OneAtEachEnd
  <1>8. Queues'
    <2>1. Queue(write_serialize, "wser")'
      BY <1>2, <1>3, <1>4 DEF Queues, Queue
    <2>2. (Queue(read_serialize, "rser") /\ Queue(nelem, "relem") /\ Queue(nempty, "wempty"))'
      BY <1>2, <1>3, <1>4 DEF Queues, Queue
    <2> QED BY <2>1, <2>2 DEF Queues
  <1>9. Serialized'
    BY <1>2, <1>3, <1>6 DEF Serialized, TypeOK, Sems
  <1>10. AtTake' = AtTake /\ AtPut' = AtPut
    BY <1>3, <1>4 DEF AtTake, AtPut
  <1>11. Credits' /\ Positions' /\ RingInOrder'
    BY <1>2, <1>10 DEF Credits, Positions, RingInOrder
  <1> QED BY <1>5, <1>7, <1>8, <1>9, <1>11

\* The test of the loop of io_buffer_write keeps the invariant.
LEMMA WriteTopStep == ASSUME IInv, NEW t \in Procs, WriteTop(t)
                      PROVE  IInv'
  <1> USE SosPipeAssumption DEF IInv, WriteTop, Runs, ring, ends, totals
  <1> DEFINE l == IF done[t] < size[t] THEN IF CanDown(nempty) THEN "wput" ELSE "wempty"
                                       ELSE "wdone"
  <1>0. /\ pc' \in [Procs -> Labels] /\ cur' \in Procs \cup {NoThread}
        /\ pc'[t] = l /\ pc[t] = "wtop"
        /\ \A u \in Procs \ {t} : pc'[u] = pc[u]
    <2>1. l \in Labels /\ Goto(t, l, NoThread)
      BY DEF Labels, Writing
    <2> QED BY <2>1, GotoFacts DEF WriteTop
  <1>1. /\ nempty \in Sems /\ nempty' \in Sems
        /\ \/ /\ l = "wput" /\ nempty.credit > 0
              /\ nempty'.credit = nempty.credit - 1 /\ nempty'.wait = nempty.wait
           \/ /\ l = "wempty" /\ nempty.credit = 0
              /\ nempty'.credit = 0 /\ nempty'.wait = nempty.wait \cup {t}
           \/ l = "wdone" /\ nempty' = nempty
    BY DownFacts DEF TypeOK
  <1> HIDE DEF l
  <1>2. TypeOK'
    BY <1>0, <1>1 DEF TypeOK
  <1>3. OneAtEachEnd'
    BY <1>0, <1>1 DEF OneAtEachEnd, ReadOwners, WriteOwners, Reading, Writing
  <1>4. Queues'
    <2>1. Queue(nempty, "wempty")'
      BY <1>0, <1>1 DEF Queues, Queue
    <2>2. UNCHANGED <<read_serialize, write_serialize, nelem>>
      OBVIOUS
    <2>3. (Queue(read_serialize, "rser") /\ Queue(write_serialize, "wser")
              /\ Queue(nelem, "relem"))'
      BY <1>0, <1>1, <2>2 DEF Queues, Queue
    <2> QED BY <2>1, <2>3 DEF Queues
  <1>5. Serialized'
    BY <1>0, <1>1 DEF Serialized, ReadOwners, WriteOwners, Reading, Writing
  <1>6. Credits'
    <2>1. AtTake' = AtTake
      BY <1>0, <1>1 DEF AtTake
    <2>2. AtPut = 0 /\ AtPut' = IF l = "wput" THEN 1 ELSE 0
      BY <1>0, <1>1 DEF AtPut, OneAtEachEnd, WriteOwners, Writing
    <2>3. nempty.credit \in Nat /\ nempty'.credit \in Nat /\ count \in Int
      BY <1>1 DEF TypeOK, Sems
    <2>4. nempty'.credit + AtPut' + count = nempty.credit + AtPut + count
      BY <1>1, <2>2, <2>3
    <2> QED BY <2>1, <2>4 DEF Credits
  <1>7. Positions' /\ RingInOrder'
    BY DEF Positions, RingInOrder
  <1> QED BY <1>2, <1>3, <1>4, <1>5, <1>6, <1>7

\* do_read enters read_serialize.
LEMMA ReadCallStep == ASSUME IInv, NEW t \in Procs, NEW n \in 0 .. MaxReq, ReadCall(t, n)
                      PROVE  IInv'
  <1> USE SosPipeAssumption DEF IInv
  <1> DEFINE l == IF CanDown(read_serialize) THEN "rtop" ELSE "rser"
  <1>1. /\ ~halted /\ pc[t] = "idle"
        /\ read_serialize' = Down(read_serialize, t) /\ Goto(t, l, NoThread)
        /\ size' = [size EXCEPT ![t] = n] /\ done' = [done EXCEPT ![t] = 0]
        /\ ret' = [ret EXCEPT ![t] = 0] /\ lefttowrite' \in {lefttowrite, n}
        /\ asked' \in {asked, asked + n}
        /\ UNCHANGED <<buf, head, tail, count, nreaders, nwriters, nelem, nempty,
                       write_serialize, halted, wrote, taken>>
    BY DEF ReadCall, Quiescent, ring, ends, totals
  <1>2. /\ pc' \in [Procs -> Labels] /\ cur' \in Procs \cup {NoThread}
        /\ pc'[t] = l /\ pc[t] = "idle"
        /\ \A u \in Procs \ {t} : pc'[u] = pc[u]
    <2>1. l \in Labels
      BY DEF Labels, Reading, Writing
    <2> QED BY <1>1, <2>1, GotoFacts
  <1>3. /\ read_serialize \in Sems /\ read_serialize' \in Sems
        /\ \/ /\ l = "rtop" /\ read_serialize.credit > 0
              /\ read_serialize'.credit = read_serialize.credit - 1
              /\ read_serialize'.wait = read_serialize.wait
           \/ /\ l = "rser" /\ read_serialize.credit = 0
              /\ read_serialize'.credit = 0
              /\ read_serialize'.wait = read_serialize.wait \cup {t}
    BY <1>1, DownFacts DEF TypeOK
  <1> HIDE DEF l
  <1>4. TypeOK'
    <2>1. /\ size' \in [Procs -> Nat] /\ done' \in [Procs -> Nat]
          /\ ret' \in [Procs -> Int] /\ lefttowrite' \in Int /\ asked' \in Nat
      BY <1>1 DEF TypeOK
    <2> QED BY <1>1, <1>2, <1>3, <2>1 DEF TypeOK
  <1>5. /\ ReadOwners' = (IF l = "rtop" THEN ReadOwners \cup {t} ELSE ReadOwners)
        /\ WriteOwners' = WriteOwners
    BY <1>2, <1>3 DEF ReadOwners, WriteOwners, Reading, Writing
  <1>6. l = "rtop" => ReadOwners = {}
    BY <1>3 DEF Serialized
  <1>7. OneAtEachEnd'
    BY <1>5, <1>6 DEF OneAtEachEnd
  <1>8. Queues'
    <2>1. Queue(read_serialize, "rser")'
      BY <1>1, <1>2, <1>3 DEF Queues, Queue
    <2>2. (Queue(write_serialize, "wser") /\ Queue(nelem, "relem") /\ Queue(nempty, "wempty"))'
      BY <1>1, <1>2, <1>3 DEF Queues, Queue
    <2> QED BY <2>1, <2>2 DEF Queues
  <1>9. Serialized'
    <2>1. read_serialize'.credit = (IF ReadOwners' = {} THEN 1 ELSE 0)
      BY <1>3, <1>5, <1>6 DEF Serialized
    <2> QED BY <1>1, <1>5, <2>1 DEF Serialized
  <1>10. AtTake' = AtTake /\ AtPut' = AtPut
    BY <1>2, <1>3 DEF AtTake, AtPut
  <1>11. Credits' /\ Positions' /\ RingInOrder'
    BY <1>1, <1>10 DEF Credits, Positions, RingInOrder
  <1> QED BY <1>4, <1>7, <1>8, <1>9, <1>11

\* do_write enters write_serialize.
LEMMA WriteCallStep == ASSUME IInv, NEW t \in Procs, NEW n \in 0 .. MaxReq, WriteCall(t, n)
                      PROVE  IInv'
  <1> USE SosPipeAssumption DEF IInv
  <1> DEFINE l == IF CanDown(write_serialize) THEN "wtop" ELSE "wser"
  <1>1. /\ ~halted /\ pc[t] = "idle"
        /\ write_serialize' = Down(write_serialize, t) /\ Goto(t, l, NoThread)
        /\ size' = [size EXCEPT ![t] = n] /\ done' = [done EXCEPT ![t] = 0]
        /\ ret' = [ret EXCEPT ![t] = 0] /\ lefttowrite' \in {lefttowrite, n}
        /\ asked' \in {asked, asked + n}
        /\ UNCHANGED <<buf, head, tail, count, nreaders, nwriters, nelem, nempty,
                       read_serialize, halted, wrote, taken>>
    BY DEF WriteCall, Quiescent, ring, ends, totals
  <1>2. /\ pc' \in [Procs -> Labels] /\ cur' \in Procs \cup {NoThread}
        /\ pc'[t] = l /\ pc[t] = "idle"
        /\ \A u \in Procs \ {t} : pc'[u] = pc[u]
    <2>1. l \in Labels
      BY DEF Labels, Reading, Writing
    <2> QED BY <1>1, <2>1, GotoFacts
  <1>3. /\ write_serialize \in Sems /\ write_serialize' \in Sems
        /\ \/ /\ l = "wtop" /\ write_serialize.credit > 0
              /\ write_serialize'.credit = write_serialize.credit - 1
              /\ write_serialize'.wait = write_serialize.wait
           \/ /\ l = "wser" /\ write_serialize.credit = 0
              /\ write_serialize'.credit = 0
              /\ write_serialize'.wait = write_serialize.wait \cup {t}
    BY <1>1, DownFacts DEF TypeOK
  <1> HIDE DEF l
  <1>4. TypeOK'
    <2>1. /\ size' \in [Procs -> Nat] /\ done' \in [Procs -> Nat]
          /\ ret' \in [Procs -> Int] /\ lefttowrite' \in Int /\ asked' \in Nat
      BY <1>1 DEF TypeOK
    <2> QED BY <1>1, <1>2, <1>3, <2>1 DEF TypeOK
  <1>5. /\ WriteOwners' = (IF l = "wtop" THEN WriteOwners \cup {t} ELSE WriteOwners)
        /\ ReadOwners' = ReadOwners
    BY <1>2, <1>3 DEF ReadOwners, WriteOwners, Reading, Writing
  <1>6. l = "wtop" => WriteOwners = {}
    BY <1>3 DEF Serialized
  <1>7. OneAtEachEnd'
    BY <1>5, <1>6 DEF OneAtEachEnd
  <1>8. Queues'
    <2>1. Queue(write_serialize, "wser")'
      BY <1>1, <1>2, <1>3 DEF Queues, Queue
    <2>2. (Queue(read_serialize, "rser") /\ Queue(nelem, "relem") /\ Queue(nempty, "wempty"))'
      BY <1>1, <1>2, <1>3 DEF Queues, Queue
    <2> QED BY <2>1, <2>2 DEF Queues
  <1>9. Serialized'
    <2>1. write_serialize'.credit = (IF WriteOwners' = {} THEN 1 ELSE 0)
      BY <1>3, <1>5, <1>6 DEF Serialized
    <2> QED BY <1>1, <1>5, <2>1 DEF Serialized
  <1>10. AtTake' = AtTake /\ AtPut' = AtPut
    BY <1>2, <1>3 DEF AtTake, AtPut
  <1>11. Credits' /\ Positions' /\ RingInOrder'
    BY <1>1, <1>10 DEF Credits, Positions, RingInOrder
  <1> QED BY <1>4, <1>7, <1>8, <1>9, <1>11

\* A step that leaves the labels, the ring and the semaphores alone and neither
\* takes the last descriptor of an end away nor brings a first one.
LEMMA QuietStep ==
  ASSUME IInv, nreaders' \in Nat, nwriters' \in Nat,
         nreaders' > 0 <=> nreaders > 0,
         nwriters > 0 \/ nwriters' = nwriters,
         nwriters' = 0 => nwriters = 0 \/ nreaders = 0,
         ret' \in [Procs -> Int],
         UNCHANGED <<buf, head, tail, count, lefttowrite, nelem, nempty, read_serialize,
                     write_serialize, pc, size, done, cur, halted, wrote, taken, asked>>
  PROVE  IInv'
  <1> USE DEF IInv
  <1>1. TypeOK'
    BY DEF TypeOK
  <1>2. ReadOwners' = ReadOwners /\ WriteOwners' = WriteOwners
    BY DEF ReadOwners, WriteOwners
  <1>3. OneAtEachEnd' /\ Serialized'
    BY <1>2 DEF OneAtEachEnd, Serialized
  <1>4. Queues'
    BY DEF Queues, Queue
  <1>5. AtTake' = AtTake /\ AtPut' = AtPut
    BY DEF AtTake, AtPut
  <1>6. Credits'
    <2>1. nelem.credit + AtTake - count \in (IF nwriters' > 0 THEN {0} ELSE {0, 1})
             \/ halted
      BY DEF Credits, TypeOK
    <2> QED BY <1>5, <2>1 DEF Credits
  <1>7. Positions' /\ RingInOrder'
    BY DEF Positions, RingInOrder
  <1> QED BY <1>1, <1>3, <1>4, <1>6, <1>7

\* A read() that returns 0 at once touches nothing the invariant is about.
LEMMA ReadEofStep == ASSUME IInv, NEW t \in Procs, ReadEof(t)
                     PROVE  IInv'
  <1>1. /\ UNCHANGED <<buf, head, tail, count, lefttowrite, nreaders, nwriters, nelem, nempty,
                       read_serialize, write_serialize, pc, size, done, cur, halted,
                       wrote, taken, asked>>
        /\ ret' = [ret EXCEPT ![t] = 0]
    BY DEF ReadEof, ring, ends, sems, totals
  <1>2. ret' \in [Procs -> Int] /\ nreaders \in Nat /\ nwriters \in Nat
    BY <1>1 DEF IInv, TypeOK
  <1> QED BY <1>1, <1>2, QuietStep

\* do_fork and do_dup2 only raise a count that is not 0.
LEMMA ShareStep == ASSUME IInv, NEW e \in {"r", "w"}, Share(e)
                   PROVE  IInv'
  <1>1. /\ nreaders' \in Nat /\ nwriters' \in Nat /\ ret \in [Procs -> Int]
        /\ nreaders > 0 <=> nreaders' > 0
        /\ nwriters > 0 \/ nwriters' = nwriters
        /\ nwriters' = 0 => nwriters = 0
    BY SosPipeAssumption DEF IInv, Share, TypeOK
  <1>2. UNCHANGED <<buf, head, tail, count, lefttowrite, nelem, nempty, read_serialize,
                    write_serialize, pc, size, done, ret, cur, halted, wrote, taken, asked>>
    BY DEF Share, ring, sems, threads, totals
  <1> QED BY <1>1, <1>2, QuietStep

\* The V(nempty) of the last close makes a credit only when no reader is left.
LEMMA CloseReadStep == ASSUME IInv, CloseRead
                    PROVE  IInv'
  <1> USE SosPipeAssumption DEF IInv
  <1>1. /\ ~halted /\ nreaders' = nreaders - 1
        /\ UNCHANGED <<buf, head, tail, count, lefttowrite, nwriters, nelem, read_serialize,
                       write_serialize, size, done, ret, halted, wrote, taken, asked>>
    BY DEF CloseRead, Quiescent, ring, totals
  <1>2. nreaders > 0 /\ nreaders \in Nat
    BY DEF CloseRead, TypeOK
  <1>3. CASE nreaders - 1 = 0
    <2>1. PICK w \in Wakeable(nempty) : nempty' = Up(nempty, w) /\ Wakes(w)
      BY <1>1, <1>3 DEF CloseRead, LastReader
    <2>2. /\ nempty \in Sems /\ nempty' \in Sems
          /\ \/ /\ w = NoThread /\ nempty.wait = {}
                /\ nempty'.credit = nempty.credit + 1 /\ nempty'.wait = {}
             \/ /\ w \in Procs /\ w # NoThread /\ pc[w] = "wempty" /\ w \in nempty.wait
                /\ nempty'.credit = nempty.credit /\ nempty'.wait = nempty.wait \ {w}
      BY <2>1, UpFacts DEF TypeOK, Queues, Queue
    <2>3. /\ pc' \in [Procs -> Labels] /\ cur' = cur
          /\ \A u \in Procs : pc'[u] = IF u = w THEN "wput" ELSE pc[u]
      BY <2>1, <2>2, ResumeFacts DEF Wakes, TypeOK, Labels, Reading, Writing
    <2>4. TypeOK'
      <3>1. nreaders' \in Nat /\ nwriters' \in Nat
        BY <1>1, <1>2 DEF TypeOK
      <3> QED BY <1>1, <2>2, <2>3, <3>1 DEF TypeOK
    <2>5. ReadOwners' = ReadOwners /\ WriteOwners' = WriteOwners
      BY <2>2, <2>3 DEF ReadOwners, WriteOwners, Reading, Writing
    <2>6. OneAtEachEnd' /\ Serialized'
      BY <1>1, <2>5 DEF OneAtEachEnd, Serialized
    <2>7. Queues'
      <3>1. Queue(nempty, "wempty")'
        BY <2>2, <2>3 DEF Queues, Queue
      <3>2. (Queue(read_serialize, "rser") /\ Queue(write_serialize, "wser")
               /\ Queue(nelem, "relem"))'
        BY <1>1, <2>2, <2>3 DEF Queues, Queue
      <3> QED BY <3>1, <3>2 DEF Queues
    <2>8. AtTake' = AtTake
      BY <2>2, <2>3 DEF AtTake, AtPut
    <2>9. w = NoThread => AtPut' = AtPut
      BY <2>2, <2>3 DEF AtPut
    <2>10. w # NoThread => AtPut = 0 /\ AtPut' = 1
      BY <2>2, <2>3 DEF AtPut, OneAtEachEnd, ReadOwners, WriteOwners, Reading, Writing
    <2>11. nempty'.credit + AtPut' = nempty.credit + AtPut + 1
      BY <2>2, <2>9, <2>10 DEF Sems, AtPut
    <2>12. /\ nelem.credit \in Nat /\ nempty.credit \in Nat /\ nempty'.credit \in Nat
           /\ count \in Int /\ AtPut \in {0, 1} /\ AtPut' \in {0, 1}
      BY <2>2 DEF TypeOK, Sems, AtPut
    <2>13. Credits'
      BY <1>1, <1>2, <1>3, <2>8, <2>11, <2>12 DEF Credits
    <2> QED BY <1>1, <2>4, <2>6, <2>7, <2>13 DEF Positions, RingInOrder
  <1>4. CASE ~(nreaders - 1 = 0)
    <2>1. UNCHANGED <<nempty, pc, cur>>
      BY <1>1, <1>4 DEF CloseRead, LastReader
    <2>2. /\ nreaders' \in Nat /\ nwriters' \in Nat /\ ret \in [Procs -> Int]
          /\ nreaders > 0 <=> nreaders' > 0
          /\ nwriters > 0 \/ nwriters' = nwriters
          /\ nwriters' = 0 => nwriters = 0 \/ nreaders = 0
      BY <1>1, <1>2, <1>4 DEF TypeOK
    <2> QED BY <1>1, <2>1, <2>2, QuietStep
  <1> QED BY <1>3, <1>4

\* The V(nelem) of the last close makes a credit only when no writer is left.
LEMMA CloseWriteStep == ASSUME IInv, CloseWrite
                    PROVE  IInv'
  <1> USE SosPipeAssumption DEF IInv
  <1>1. /\ ~halted /\ nwriters' = nwriters - 1
        /\ UNCHANGED <<buf, head, tail, count, lefttowrite, nreaders, nempty, read_serialize,
                       write_serialize, size, done, ret, halted, wrote, taken, asked>>
    BY DEF CloseWrite, Quiescent, ring, totals
  <1>2. nwriters > 0 /\ nwriters \in Nat
    BY DEF CloseWrite, TypeOK
  <1>3. CASE nwriters - 1 = 0 /\ nreaders > 0
    <2>1. PICK w \in Wakeable(nelem) : nelem' = Up(nelem, w) /\ Wakes(w)
      BY <1>1, <1>3 DEF CloseWrite, LastReader
    <2>2. /\ nelem \in Sems /\ nelem' \in Sems
          /\ \/ /\ w = NoThread /\ nelem.wait = {}
                /\ nelem'.credit = nelem.credit + 1 /\ nelem'.wait = {}
             \/ /\ w \in Procs /\ w # NoThread /\ pc[w] = "relem" /\ w \in nelem.wait
                /\ nelem'.credit = nelem.credit /\ nelem'.wait = nelem.wait \ {w}
      BY <2>1, UpFacts DEF TypeOK, Queues, Queue
    <2>3. /\ pc' \in [Procs -> Labels] /\ cur' = cur
          /\ \A u \in Procs : pc'[u] = IF u = w THEN "rtake" ELSE pc[u]
      BY <2>1, <2>2, ResumeFacts DEF Wakes, TypeOK, Labels, Reading, Writing
    <2>4. TypeOK'
      <3>1. nreaders' \in Nat /\ nwriters' \in Nat
        BY <1>1, <1>2 DEF TypeOK
      <3> QED BY <1>1, <2>2, <2>3, <3>1 DEF TypeOK
    <2>5. ReadOwners' = ReadOwners /\ WriteOwners' = WriteOwners
      BY <2>2, <2>3 DEF ReadOwners, WriteOwners, Reading, Writing
    <2>6. OneAtEachEnd' /\ Serialized'
      BY <1>1, <2>5 DEF OneAtEachEnd, Serialized
    <2>7. Queues'
      <3>1. Queue(nelem, "relem")'
        BY <2>2, <2>3 DEF Queues, Queue
      <3>2. (Queue(read_serialize, "rser") /\ Queue(write_serialize, "wser")
               /\ Queue(nempty, "wempty"))'
        BY <1>1, <2>2, <2>3 DEF Queues, Queue
      <3> QED BY <3>1, <3>2 DEF Queues
    <2>8. AtPut' = AtPut
      BY <2>2, <2>3 DEF AtTake, AtPut
    <2>9. w = NoThread => AtTake' = AtTake
      BY <2>2, <2>3 DEF AtTake
    <2>10. w # NoThread => AtTake = 0 /\ AtTake' = 1
      BY <2>2, <2>3 DEF AtTake, OneAtEachEnd, ReadOwners, WriteOwners, Reading, Writing
    <2>11. nelem'.credit + AtTake' = nelem.credit + AtTake + 1
      BY <2>2, <2>9, <2>10 DEF Sems, AtTake
    <2>12. /\ nelem.credit \in Nat /\ nempty.credit \in Nat /\ nelem'.credit \in Nat
           /\ count \in Int /\ AtTake \in {0, 1} /\ AtTake' \in {0, 1}
      BY <2>2 DEF TypeOK, Sems, AtTake
    <2>13. Credits'
      <3>1. nwriters' = 0 /\ nwriters > 0
        BY <1>1, <1>2, <1>3
      <3>2. nelem.credit + AtTake - count = 0
        BY <1>1, <3>1, <2>12 DEF Credits
      <3>3. nelem'.credit + AtTake' - count = 1
        <4> DEFINE c == nelem.credit
                   d == nelem'.credit
                   a == AtTake
                   b == AtTake'
        <4>1. c + a - count = 0 /\ d + b = c + a + 1
          BY <3>2, <2>11
        <4>2. c \in Nat /\ d \in Nat /\ a \in Int /\ b \in Int /\ count \in Int
          BY <2>12
        <4> HIDE DEF c, d, a, b
        <4>3. d + b - count = 1
          BY <4>1, <4>2
        <4> QED BY <4>3 DEF b, d
      <3> QED BY <1>1, <2>8, <3>1, <3>3 DEF Credits
    <2> QED BY <1>1, <2>4, <2>6, <2>7, <2>13 DEF Positions, RingInOrder
  <1>4. CASE ~(nwriters - 1 = 0 /\ nreaders > 0)
    <2>1. UNCHANGED <<nelem, pc, cur>>
      BY <1>1, <1>4 DEF CloseWrite, LastReader
    <2>2. /\ nreaders' \in Nat /\ nwriters' \in Nat /\ ret \in [Procs -> Int]
          /\ nreaders > 0 <=> nreaders' > 0
          /\ nwriters > 0 \/ nwriters' = nwriters
          /\ nwriters' = 0 => nwriters = 0 \/ nreaders = 0
      BY <1>1, <1>2, <1>4 DEF TypeOK
    <2> QED BY <1>1, <2>1, <2>2, QuietStep
  <1> QED BY <1>3, <1>4

\* The character goes to the place after the last one, which is free.
LEMMA WritePutStep == ASSUME IInv, NEW t \in Procs, WritePut(t)
                      PROVE  IInv'
  <1> USE SosPipeAssumption DEF IInv
  <1>1. /\ ~halted /\ pc[t] = "wput"
        /\ buf' = [buf EXCEPT ![tail] = wrote] /\ tail' = Advance(tail)
        /\ count' = count + 1 /\ lefttowrite' = lefttowrite - 1 /\ wrote' = wrote + 1
        /\ done' = [done EXCEPT ![t] = @ + 1] /\ ret' = [ret EXCEPT ![t] = done[t] + 1]
        /\ UNCHANGED <<head, nreaders, nwriters, nempty, read_serialize, write_serialize,
                       size, taken, asked>>
    BY DEF WritePut, Runs, ends
  <1>2. /\ buf' \in [0 .. Size - 1 -> Nat] /\ tail' \in 0 .. Size - 1
        /\ count' \in Int /\ lefttowrite' \in Int /\ wrote' \in Nat
        /\ done' \in [Procs -> Nat] /\ ret' \in [Procs -> Int]
    <2>1. /\ tail' \in 0 .. Size - 1 /\ count' \in Int /\ lefttowrite' \in Int /\ wrote' \in Nat
      BY <1>1, ModInRange DEF TypeOK, Advance
    <2>2. /\ buf' \in [0 .. Size - 1 -> Nat]
          /\ done' \in [Procs -> Nat] /\ ret' \in [Procs -> Int]
      BY <1>1 DEF TypeOK
    <2> QED BY <2>1, <2>2
  <1>3. CASE nreaders = 0
    <2>1. halted' = TRUE /\ UNCHANGED <<nelem, pc, cur>>
      BY <1>3 DEF WritePut
    <2>2. TypeOK'
      BY <1>1, <1>2, <2>1 DEF TypeOK
    <2>3. ReadOwners' = ReadOwners /\ WriteOwners' = WriteOwners
      BY <2>1 DEF ReadOwners, WriteOwners
    <2>4. OneAtEachEnd' /\ Serialized'
      BY <1>1, <2>3 DEF OneAtEachEnd, Serialized
    <2>5. Queues'
      BY <1>1, <2>1 DEF Queues, Queue
    <2>6. Credits' /\ Positions'
      BY <2>1 DEF Credits, Positions
    <2>7. RingInOrder'
      BY <1>1, <2>1 DEF RingInOrder, TypeOK
    <2> QED BY <2>2, <2>4, <2>5, <2>6, <2>7
  <1>4. CASE nreaders # 0
    <2>1. halted' = FALSE
      BY <1>4 DEF WritePut
    <2>2. PICK w \in Wakeable(nelem) : nelem' = Up(nelem, w) /\ Goto(t, "wtop", w)
      BY <1>4 DEF WritePut
    <2>3. /\ nelem \in Sems /\ nelem' \in Sems
          /\ \/ /\ w = NoThread /\ nelem.wait = {}
                /\ nelem'.credit = nelem.credit + 1 /\ nelem'.wait = {}
             \/ /\ w \in Procs /\ w # NoThread /\ pc[w] = "relem" /\ w \in nelem.wait
                /\ nelem'.credit = nelem.credit /\ nelem'.wait = nelem.wait \ {w}
      BY <2>2, UpFacts DEF TypeOK, Queues, Queue
    <2>4. /\ pc' \in [Procs -> Labels] /\ cur' \in Procs \cup {NoThread}
          /\ pc'[t] = "wtop" /\ pc[t] = "wput"
          /\ \A u \in Procs \ {t} : pc'[u] = IF u = w THEN "rtake" ELSE pc[u]
      BY <1>1, <2>2, <2>3, GotoFacts, ResumeFacts DEF Labels, Writing, Waiting
    <2>5. TypeOK'
      BY <1>1, <1>2, <2>1, <2>3, <2>4 DEF TypeOK
    <2>6. ReadOwners' = ReadOwners /\ WriteOwners' = WriteOwners
      BY <2>3, <2>4 DEF ReadOwners, WriteOwners, Reading, Writing
    <2>7. OneAtEachEnd' /\ Serialized'
      BY <1>1, <2>6 DEF OneAtEachEnd, Serialized
    <2>8. Queues'
      <3>1. Queue(nelem, "relem")'
        BY <2>3, <2>4 DEF Queues, Queue
      <3>2. (Queue(read_serialize, "rser") /\ Queue(write_serialize, "wser")
               /\ Queue(nempty, "wempty"))'
        BY <1>1, <2>3, <2>4 DEF Queues, Queue
      <3> QED BY <3>1, <3>2 DEF Queues
    <2>9. AtPut = 1 /\ AtPut' = 0
      BY <2>3, <2>4 DEF AtPut, OneAtEachEnd, WriteOwners, Writing
    <2>10. w = NoThread => AtTake' = AtTake
      BY <2>3, <2>4 DEF AtTake
    <2>11. w # NoThread => AtTake = 0 /\ AtTake' = 1
      BY <2>3, <2>4 DEF AtTake, OneAtEachEnd, ReadOwners, Reading
    <2>12. /\ nelem.credit \in Nat /\ nempty.credit \in Nat /\ count \in Int
           /\ AtTake \in {0, 1} /\ head \in 0 .. Size - 1 /\ nreaders > 0
      BY <1>4 DEF TypeOK, Sems, AtTake
    <2>13. nelem'.credit + AtTake' - count' = nelem.credit + AtTake - count
      BY <1>1, <2>3, <2>10, <2>11, <2>12
    <2>14. nempty.credit + AtPut' + count' = nempty.credit + AtPut + count
      BY <1>1, <2>9, <2>12
    <2>15. Credits'
      BY <1>1, <2>1, <2>13, <2>14 DEF Credits
    <2>16. count \in -1 .. Size - 1
      BY <1>1, <2>9, <2>12 DEF Credits
    <2>17. Positions'
      BY <1>1, <2>12, <2>16, ModStep DEF Positions, Advance
    <2>18. RingInOrder'
      <3>1. ASSUME NEW k \in 0 .. count
            PROVE  buf'[(head + k) % Size] = taken + k
        <4>1. CASE k = count
          <5>1. (head + k) % Size = tail /\ buf'[tail] = wrote
            BY <1>1, <4>1 DEF Positions, TypeOK
          <5>2. wrote = taken + count
            BY <2>12 DEF RingInOrder, TypeOK
          <5> QED BY <4>1, <5>1, <5>2
        <4>2. CASE k < count
          <5>1. (head + k) % Size # tail
            <6>1. k \in 0 .. Size - 1 /\ count \in 0 .. Size - 1
              BY <2>16, <4>2
            <6> QED BY <1>1, <2>12, <4>2, <6>1, ModDistinct DEF Positions
          <5>2. (head + k) % Size \in 0 .. Size - 1
            BY <2>12, ModInRange
          <5>3. buf[(head + k) % Size] = taken + k
            BY <1>1, <2>16, <4>2 DEF RingInOrder
          <5> QED BY <1>1, <5>1, <5>2, <5>3 DEF TypeOK
        <4> QED BY <2>16, <4>1, <4>2
      <3>2. count' - 1 = count /\ count' = wrote' - taken'
        BY <1>1, <2>16 DEF RingInOrder, TypeOK
      <3> QED BY <1>1, <2>16, <3>1, <3>2 DEF RingInOrder
    <2> QED BY <2>5, <2>7, <2>8, <2>15, <2>17, <2>18
  <1> QED BY <1>3, <1>4
-----------------------------------------------------------------------------
\* The invariant holds when make_io_buffer returns.
LEMMA InitIInv == Init => IInv
  <1> SUFFICES ASSUME Init PROVE IInv
    OBVIOUS
  <1> USE SosPipeAssumption DEF Init, NewSem, EmptySlots, SerializeCredit
  <1>1. TypeOK
    <2>1. nelem \in Sems /\ nempty \in Sems /\ read_serialize \in Sems
             /\ write_serialize \in Sems
      BY DEF Sems
    <2>2. /\ head \in 0 .. Size - 1 /\ tail \in 0 .. Size - 1
          /\ buf \in [0 .. Size - 1 -> Nat] /\ pc \in [Procs -> Labels]
          /\ size \in [Procs -> Nat] /\ done \in [Procs -> Nat] /\ ret \in [Procs -> Int]
      BY DEF Labels
    <2>3. /\ count \in Int /\ lefttowrite \in Int /\ nreaders \in Nat /\ nwriters \in Nat
          /\ cur \in Procs \cup {NoThread}
          /\ wrote \in Nat /\ taken \in Nat /\ asked \in Nat
      OBVIOUS
    <2>4. halted \in BOOLEAN
      BY Zenon
    <2> HIDE DEF Init
    <2> QED BY <2>1, <2>2, <2>3, <2>4 DEF TypeOK
  <1>2. ReadOwners = {} /\ WriteOwners = {}
    BY DEF ReadOwners, WriteOwners, Reading, Writing
  <1>3. OneAtEachEnd /\ Serialized
    BY <1>2 DEF OneAtEachEnd, Serialized
  <1>4. Queues
    BY DEF Queues, Queue
  <1>5. AtTake = 0 /\ AtPut = 0
    BY DEF AtTake, AtPut
  <1>6. Credits /\ RingInOrder
    BY <1>5 DEF Credits, RingInOrder
  <1>7. Positions
    BY ModSmall DEF Positions
  <1> QED BY <1>1, <1>3, <1>4, <1>6, <1>7 DEF IInv

\* Every step keeps the invariant.
LEMMA NextIInv == IInv /\ [Next]_vars => IInv'
  <1> SUFFICES ASSUME IInv, [Next]_vars PROVE IInv'
    OBVIOUS
  <1>1. ASSUME NEW t \in Procs, KernelStep(t) PROVE IInv'
    BY <1>1, ReadTopStep, ReadTakeStep, ReadDoneStep, WriteTopStep, WritePutStep,
       WriteDoneStep DEF KernelStep
  <1>2. ASSUME NEW t \in MayRead, ReadEof(t) PROVE IInv'
    BY <1>2, ReadEofStep, SosPipeAssumption
  <1>3. ASSUME NEW t \in MayRead, NEW n \in 0 .. MaxReq, ReadCall(t, n) PROVE IInv'
    BY <1>3, ReadCallStep, SosPipeAssumption
  <1>4. ASSUME NEW t \in MayWrite, NEW n \in 0 .. MaxReq, WriteCall(t, n) PROVE IInv'
    BY <1>4, WriteCallStep, SosPipeAssumption
  <1>5. ASSUME NEW e \in {"r", "w"}, Share(e) PROVE IInv'
    BY <1>5, ShareStep
  <1>6. CASE CloseRead
    BY <1>6, CloseReadStep
  <1>7. CASE CloseWrite
    BY <1>7, CloseWriteStep
  <1>8. CASE UNCHANGED vars
    <2>1. ret \in [Procs -> Int] /\ nreaders \in Nat /\ nwriters \in Nat
      BY DEF IInv, TypeOK
    <2> QED BY <1>8, <2>1, QuietStep DEF vars, ring, ends, sems, threads, totals
  <1> QED BY <1>1, <1>2, <1>3, <1>4, <1>5, <1>6, <1>7, <1>8 DEF Next

\* The inductive invariant holds in every behaviour.
LEMMA Invariant == Spec => []IInv
  BY InitIInv, NextIInv, PTL DEF Spec

\* The variables keep their types: head and tail never leave the buffer.
THEOREM TypeCorrect == Spec => []TypeOK
  <1>1. IInv => TypeOK
    BY DEF IInv
  <1> QED BY <1>1, Invariant, PTL

\* At most one thread reads the buffer and at most one writes it
\* (read_serialize and write_serialize, io.c).
THEOREM EndsAreExclusive == Spec => []OneAtEachEnd
  <1>1. IInv => OneAtEachEnd
    BY DEF IInv
  <1> QED BY <1>1, Invariant, PTL

\* Whatever the sizes and however many processes: the circular buffer of io.c
\* never overflows and keeps the bytes in the order they were written.
THEOREM RingKeepsOrder == Spec => []RingInOrder
  <1>1. IInv => RingInOrder
    BY DEF IInv
  <1> QED BY <1>1, Invariant, PTL

\* A thread that sleeps on a semaphore of the buffer has a reason to.
THEOREM WakeupsAreNotLost == Spec => []NoLostWakeup
  <1>1. ASSUME IInv, ~halted PROVE NoLostWakeup
    <2> USE SosPipeAssumption DEF IInv
    <2>0. /\ nelem.credit \in Nat /\ nempty.credit \in Nat /\ count \in Int
          /\ nreaders \in Nat
      BY <1>1 DEF TypeOK, Sems
    <2>1. ASSUME NEW p \in Procs, pc[p] = "relem" PROVE count <= 0
      <3>1. nelem.credit = 0
        BY <1>1, <2>1 DEF Queues, Queue
      <3>2. AtTake = 0
        BY <1>1, <2>1 DEF AtTake, OneAtEachEnd, ReadOwners, Reading
      <3> QED BY <1>1, <2>0, <3>1, <3>2 DEF Credits
    <2>2. ASSUME NEW p \in Procs, pc[p] = "wempty" PROVE count = Size
      <3>1. nempty.credit = 0
        BY <1>1, <2>2 DEF Queues, Queue
      <3>2. AtPut = 0
        BY <1>1, <2>2 DEF AtPut, OneAtEachEnd, WriteOwners, Writing
      <3>3. count <= Size
        BY <1>1 DEF RingInOrder
      <3> QED BY <1>1, <2>0, <3>1, <3>2, <3>3 DEF Credits
    <2>3. ASSUME NEW p \in Procs, pc[p] = "rser" PROVE ReadOwners # {}
      BY <1>1, <2>3 DEF Queues, Queue, Serialized
    <2>4. ASSUME NEW p \in Procs, pc[p] = "wser" PROVE WriteOwners # {}
      BY <1>1, <2>4 DEF Queues, Queue, Serialized
    <2> QED BY <1>1, <2>1, <2>2, <2>3, <2>4 DEF NoLostWakeup
  <1>2. IInv => NoLostWakeup
    BY <1>1 DEF NoLostWakeup
  <1> QED BY <1>2, Invariant, PTL
-----------------------------------------------------------------------------
(* The pipe implements the abstract channel.                               *)

\* The bytes from a on, n of them.
Interval(a, n) == [i \in 1 .. n |-> a + i - 1]

\* A sequence of consecutive serial numbers: what Append and Tail make of it.
LEMMA IntervalFacts ==
  ASSUME NEW a \in Nat, NEW n \in Nat
  PROVE  /\ Interval(a, n) \in Seq(Nat) /\ Len(Interval(a, n)) = n
         /\ Append(Interval(a, n), a + n) = Interval(a, n + 1)
         /\ n > 0 => Interval(a, n) # << >> /\ Tail(Interval(a, n)) = Interval(a + 1, n - 1)
  <1>1. Interval(a, n) \in Seq(Nat) /\ Len(Interval(a, n)) = n
    BY DEF Interval
  <1>2. Append(Interval(a, n), a + n) = Interval(a, n + 1)
    BY <1>1 DEF Interval
  <1>3. ASSUME n > 0
        PROVE  Interval(a, n) # << >> /\ Tail(Interval(a, n)) = Interval(a + 1, n - 1)
    BY <1>1, <1>3 DEF Interval
  <1> QED BY <1>1, <1>2, <1>3

\* SOS stops only when the readers are gone.
HaltedBroken == halted => nreaders = 0
CInv == IInv /\ HaltedBroken

\* The stronger invariant is inductive too.
LEMMA NextCInv == CInv /\ [Next]_vars => CInv'
  <1> SUFFICES ASSUME CInv, [Next]_vars PROVE HaltedBroken'
    BY NextIInv DEF CInv
  <1>1. ASSUME NEW t \in Procs, KernelStep(t) PROVE HaltedBroken'
    BY <1>1 DEF KernelStep, ReadTop, ReadTake, ReadDone, WriteTop, WritePut, WriteDone,
                Runs, HaltedBroken, ends
  <1>2. ASSUME Quiescent, halted' = halted PROVE HaltedBroken'
    BY <1>2 DEF Quiescent, HaltedBroken
  <1>3. CASE UNCHANGED vars
    BY <1>3 DEF vars, ends, HaltedBroken, CInv
  <1> QED BY <1>1, <1>2, <1>3
             DEF Next, ReadEof, ReadCall, WriteCall, Share, CloseRead, CloseWrite

\* Until SOS stops the ring is such a sequence; it is one place short of empty
\* only after the writers have closed.
LEMMA RingFacts ==
  ASSUME CInv, ~halted
  PROVE  /\ count \in -1 .. Size /\ count = wrote - taken /\ wrote \in Nat /\ taken \in Nat
         /\ nwriters > 0 => count >= 0
         /\ count >= 0 => Bytes = Interval(taken, count)
         /\ count <= 0 => Bytes = << >>
  <1> USE SosPipeAssumption DEF CInv, IInv
  <1>1. /\ nelem.credit \in Nat /\ count \in Int /\ AtTake \in {0, 1} /\ Size \in Nat
        /\ wrote \in Nat /\ taken \in Nat /\ head \in Nat /\ nwriters \in Nat
    BY DEF TypeOK, Sems, AtTake
  <1>2. /\ nelem.credit + AtTake - count \in {0, 1}
        /\ nwriters > 0 => nelem.credit + AtTake - count = 0
    BY DEF Credits
  <1>3. count \in -1 .. Size /\ (nwriters > 0 => count >= 0)
    <2>1. count <= Size
      BY DEF RingInOrder
    <2> HIDE DEF CInv, IInv
    <2> QED BY <1>1, <1>2, <2>1
  <1>4. count = wrote - taken
    BY DEF RingInOrder
  <1>5. ASSUME NEW i \in 1 .. count
        PROVE  buf[(head + i - 1) % Size] = taken + i - 1
    <2>1. i - 1 \in 0 .. count - 1 /\ head + i - 1 = head + (i - 1)
      BY <1>1, <1>3
    <2>2. buf[(head + (i - 1)) % Size] = taken + (i - 1)
      BY <2>1 DEF RingInOrder
    <2> QED BY <1>1, <1>3, <2>1, <2>2
  <1>6. Bytes = Interval(taken, count)
    BY <1>5 DEF Interval, Bytes
  <1>7. count <= 0 => Bytes = << >>
    BY <1>1 DEF Bytes
  <1> QED BY <1>1, <1>3, <1>4, <1>6, <1>7

\* A step that changes neither the ring nor the ends is a stutter.
LEMMA QuietChannel ==
  ASSUME UNCHANGED <<buf, head, count, wrote, nreaders, nwriters, halted>>
  PROVE  UNCHANGED <<Bytes, Serial, Owed, OpenEnds>>
  <1>1. Bytes' = Bytes
    BY DEF Bytes
  <1>2. Serial' = Serial /\ Owed' = Owed
    BY DEF Serial, Owed
  <1>3. OpenEnds' = OpenEnds
    BY DEF OpenEnds
  <1> QED BY <1>1, <1>2, <1>3

\* Taking a character is Take, or TakeUnwritten from an empty ring.
LEMMA TakeOfChannel ==
  ASSUME CInv, CInv', NEW t \in Procs, ReadTake(t)
  PROVE  Channel!Take \/ Channel!TakeUnwritten
  <1>1. /\ count' = count - 1 /\ wrote' = wrote /\ taken' = taken + 1
        /\ nreaders' = nreaders /\ nwriters' = nwriters /\ ~halted /\ ~halted'
    BY DEF ReadTake, ends, Runs
  <1>2. Serial' = Serial /\ OpenEnds' = OpenEnds
    BY <1>1 DEF Serial, OpenEnds
  <1>3. /\ count \in -1 .. Size /\ taken \in Nat
        /\ count >= 0 => Bytes = Interval(taken, count)
        /\ count <= 0 => Bytes = << >>
    BY <1>1, RingFacts
  <1>4. (~halted => /\ count \in -1 .. Size
                    /\ nwriters > 0 => count >= 0
                    /\ count >= 0 => Bytes = Interval(taken, count)
                    /\ count <= 0 => Bytes = << >>)'
    BY RingFacts, PTL
  <1>5. Size \in Nat /\ nwriters \in Nat
    BY SosPipeAssumption DEF CInv, IInv, TypeOK
  <1>6. CASE count > 0
    <2>1. count \in Nat /\ count' >= 0
      BY <1>1, <1>3, <1>5, <1>6
    <2>2. /\ Interval(taken, count) # << >>
          /\ Tail(Interval(taken, count)) = Interval(taken + 1, count - 1)
      BY <1>3, <1>6, <2>1, IntervalFacts
    <2>3. Bytes # << >> /\ Bytes' = Tail(Bytes)
      BY <1>1, <1>3, <1>4, <2>1, <2>2
    <2>4. Owed' = Owed
      BY <1>1, <1>3, <1>5, <1>6, <2>1 DEF Owed
    <2> QED BY <1>2, <2>3, <2>4 DEF Channel!Take
  <1>7. CASE count = 0
    <2>1. ~Owed /\ Owed'
      BY <1>1, <1>7 DEF Owed
    <2>2. Bytes = << >> /\ Bytes' = << >>
      BY <1>1, <1>3, <1>4, <1>7
    <2>3. ~(nwriters > 0)
      BY <1>1, <1>4, <1>7
    <2>4. "w" \notin OpenEnds
      BY <2>3 DEF OpenEnds
    <2> QED BY <1>2, <2>1, <2>2, <2>4 DEF Channel!TakeUnwritten
  <1>8. count # -1
    BY <1>1, <1>4, <1>5
  <1> QED BY <1>3, <1>5, <1>6, <1>7, <1>8

\* Storing a character is Put while there are readers, and Halt after that.
LEMMA PutOfChannel ==
  ASSUME CInv, CInv', NEW t \in Procs, WritePut(t)
  PROVE  Channel!Put \/ Channel!Halt
  <1>1. /\ count' = count + 1 /\ wrote' = wrote + 1 /\ taken' = taken
        /\ nreaders' = nreaders /\ nwriters' = nwriters /\ ~halted
        /\ halted' <=> nreaders = 0
    BY DEF WritePut, ends, Runs
  <1>2. /\ Size \in Nat \ {0} /\ nreaders \in Nat
    BY SosPipeAssumption DEF CInv, IInv, TypeOK
  <1>3. CASE nreaders = 0
    <2>1. "r" \notin OpenEnds
      BY <1>3 DEF OpenEnds
    <2>2. Bytes' = << >> /\ Serial' = 0 /\ Owed' = FALSE /\ OpenEnds' = {}
      BY <1>1, <1>3 DEF Bytes, Serial, Owed, OpenEnds
    <2> QED BY <2>1, <2>2 DEF Channel!Halt
  <1>4. CASE nreaders # 0
    <2>1. "r" \in OpenEnds /\ OpenEnds' = OpenEnds
      BY <1>1, <1>2, <1>4 DEF OpenEnds
    <2>2. /\ count \in -1 .. Size /\ taken \in Nat /\ wrote = taken + count
          /\ count >= 0 => Bytes = Interval(taken, count)
          /\ count <= 0 => Bytes = << >>
      <3>1. /\ count \in -1 .. Size /\ taken \in Nat /\ wrote \in Nat /\ count = wrote - taken
            /\ count >= 0 => Bytes = Interval(taken, count)
            /\ count <= 0 => Bytes = << >>
        BY <1>1, RingFacts
      <3> QED BY <3>1, <1>2
    <2>3. (~halted => /\ count \in -1 .. Size
                      /\ count >= 0 => Bytes = Interval(taken, count)
                      /\ count <= 0 => Bytes = << >>)'
      BY RingFacts, PTL
    <2>4. /\ Serial = wrote /\ Serial' = wrote + 1
          /\ Owed <=> count < 0
          /\ Owed' <=> count' < 0
      BY <1>1, <1>4 DEF Serial, Owed
    <2>5. ~Owed' /\ count' <= Size /\ count' >= 0
      BY <1>1, <1>2, <1>4, <2>2, <2>3, <2>4
    <2>6. CASE count = -1
      <3>1. Bytes = << >> /\ Bytes' = << >> /\ Owed
        BY <1>1, <1>4, <2>2, <2>3, <2>4, <2>6
      <3>2. Len(Bytes) < Size
        BY <1>2, <3>1
      <3> QED BY <2>1, <2>4, <2>5, <3>1, <3>2 DEF Channel!Put
    <2>7. CASE count # -1
      <3>1. count \in Nat /\ count < Size /\ ~Owed
        BY <1>1, <1>2, <2>2, <2>4, <2>5, <2>7
      <3>2. /\ Append(Interval(taken, count), taken + count) = Interval(taken, count + 1)
            /\ Len(Interval(taken, count)) = count
        BY <2>2, <3>1, IntervalFacts
      <3>3. Bytes = Interval(taken, count)
        BY <2>2, <3>1
      <3>4. Bytes' = Interval(taken, count + 1)
        BY <1>1, <1>4, <2>3, <2>5
      <3>5. Bytes' = Append(Bytes, Serial)
        BY <2>2, <2>4, <3>2, <3>3, <3>4
      <3>6. Len(Bytes) < Size
        BY <3>1, <3>2, <3>3
      <3> QED BY <2>1, <2>4, <2>5, <3>1, <3>5, <3>6 DEF Channel!Put
    <2> QED BY <2>6, <2>7
  <1> QED BY <1>3, <1>4

\* Closing the last descriptor of an end is Close; of another one, a stutter.
LEMMA CloseOfChannel ==
  ASSUME CInv, CloseRead \/ CloseWrite
  PROVE  Channel!Close \/ UNCHANGED <<Bytes, Serial, Owed, OpenEnds>>
  <1>1. /\ UNCHANGED <<buf, head, count, wrote, halted>> /\ ~halted
        /\ nreaders \in Nat /\ nwriters \in Nat
        /\ \/ nreaders > 0 /\ nreaders' = nreaders - 1 /\ nwriters' = nwriters
           \/ nwriters > 0 /\ nwriters' = nwriters - 1 /\ nreaders' = nreaders
    <2>1. nreaders \in Nat /\ nwriters \in Nat
      BY DEF CInv, IInv, TypeOK
    <2> QED BY <2>1 DEF CloseRead, CloseWrite, Quiescent, ring, totals
  <1>2. Bytes' = Bytes
    BY <1>1 DEF Bytes
  <1>3. Serial' = Serial /\ Owed' = Owed
    BY <1>1 DEF Serial, Owed
  <1>4. OpenEnds' = OpenEnds \/ \E e \in OpenEnds : OpenEnds' = OpenEnds \ {e}
    <2>1. CASE nreaders' = 0 /\ nreaders # 0
      <3>1. "r" \in OpenEnds /\ OpenEnds' = OpenEnds \ {"r"}
        BY <1>1, <2>1 DEF OpenEnds
      <3> QED BY <3>1
    <2>2. CASE nwriters' = 0 /\ nwriters # 0
      <3>1. "w" \in OpenEnds /\ OpenEnds' = OpenEnds \ {"w"}
        BY <1>1, <2>2 DEF OpenEnds
      <3> QED BY <3>1
    <2>3. CASE (nreaders' = 0 <=> nreaders = 0) /\ (nwriters' = 0 <=> nwriters = 0)
      <3>1. (nreaders' > 0 <=> nreaders > 0) /\ (nwriters' > 0 <=> nwriters > 0)
        BY <1>1, <2>3
      <3> QED BY <1>1, <3>1 DEF OpenEnds
    <2> QED BY <1>1, <2>1, <2>2, <2>3
  <1> QED BY <1>2, <1>3, <1>4 DEF Channel!Close

\* Every step of the pipe is a step of the channel or a stutter.
LEMMA ChannelStep ==
  ASSUME CInv, CInv', [Next]_vars
  PROVE  [Channel!Next]_(Channel!vars)
  <1> USE SosPipeAssumption
  <1>1. ASSUME UNCHANGED <<Bytes, Serial, Owed, OpenEnds>>
        PROVE  UNCHANGED Channel!vars
    BY <1>1 DEF Channel!vars
  <1>2. ASSUME UNCHANGED <<buf, head, count, wrote, nreaders, nwriters, halted>>
        PROVE  UNCHANGED Channel!vars
    BY <1>1, <1>2, QuietChannel
  <1>3. ASSUME NEW t \in Procs, KernelStep(t)
        PROVE  Channel!Next \/ UNCHANGED Channel!vars
    <2>1. CASE ReadTake(t)
      BY <2>1, TakeOfChannel DEF Channel!Next
    <2>2. CASE WritePut(t)
      BY <2>2, PutOfChannel DEF Channel!Next
    <2>3. CASE ReadTop(t) \/ ReadDone(t) \/ WriteTop(t) \/ WriteDone(t)
      BY <1>2, <2>3 DEF ReadTop, ReadDone, WriteTop, WriteDone, ring, totals, ends
    <2> QED BY <1>3, <2>1, <2>2, <2>3 DEF KernelStep
  <1>4. ASSUME NEW t \in Procs, NEW n \in 0 .. MaxReq,
               ReadEof(t) \/ ReadCall(t, n) \/ WriteCall(t, n)
        PROVE  UNCHANGED Channel!vars
    BY <1>2, <1>4 DEF ReadEof, ReadCall, WriteCall, ring, totals, ends
  <1>5. ASSUME NEW e \in {"r", "w"}, Share(e) PROVE UNCHANGED Channel!vars
    <2>1. UNCHANGED <<buf, head, count, wrote, halted>>
      BY <1>5 DEF Share, ring, totals
    <2>2. nreaders \in Nat /\ nwriters \in Nat
      BY DEF CInv, IInv, TypeOK
    <2>3. (nreaders' > 0 <=> nreaders > 0) /\ (nwriters' > 0 <=> nwriters > 0)
      BY <1>5, <2>2 DEF Share
    <2>4. Bytes' = Bytes
      BY <2>1 DEF Bytes
    <2>5. Serial' = Serial /\ Owed' = Owed
      BY <2>1 DEF Serial, Owed
    <2>6. OpenEnds' = OpenEnds
      BY <2>1, <2>3 DEF OpenEnds
    <2> QED BY <1>1, <2>4, <2>5, <2>6
  <1>6. ASSUME CloseRead \/ CloseWrite PROVE Channel!Next \/ UNCHANGED Channel!vars
    BY <1>1, <1>6, CloseOfChannel DEF Channel!Next
  <1>7. ASSUME UNCHANGED vars PROVE UNCHANGED Channel!vars
    BY <1>2, <1>7 DEF vars, ring, totals, ends
  <1>8. 0 \in 0 .. MaxReq
    OBVIOUS
  <1> QED BY <1>3, <1>4, <1>5, <1>6, <1>7, <1>8 DEF Next

\* The pipe implements the channel, whatever its processes share and close and
\* through whichever end they read and write: storing a character is Put, or Halt
\* when the readers have closed, removing one is Take, and TakeUnwritten is the
\* reader that the last close of the write ends lets through to an empty ring.
THEOREM PipeIsChannel == Spec => ImplementsChannel
  <1>1. Init => CInv /\ Channel!Init
    <2> SUFFICES ASSUME Init PROVE CInv /\ Channel!Init
      OBVIOUS
    <2>1. CInv
      BY InitIInv DEF CInv, HaltedBroken, Init
    <2>2. Bytes = << >> /\ Serial = 0 /\ Owed = FALSE /\ OpenEnds = {"r", "w"}
      BY DEF Init, Bytes, Serial, Owed, OpenEnds
    <2> QED BY <2>1, <2>2 DEF Channel!Init
  <1>2. CInv /\ [Next]_vars => CInv' /\ [Channel!Next]_(Channel!vars)
    BY NextCInv, ChannelStep
  <1> QED BY <1>1, <1>2, PTL DEF Spec, ImplementsChannel, Channel!Spec
-----------------------------------------------------------------------------
(* A reader that waits is served, and a broken pipe is noticed: the safety   *)
(* parts of ReadReturns and BrokenPipeIsNoticed.                             *)

\* One process alone calls write(); it is what lefttowrite is made for.
OneWriter == \A p, q \in MayWrite : p = q

\* Thread q is not blocked on its way to the next character it stores.
MovesOn(q) == pc[q] = "wput" \/ (pc[q] = "wtop" /\ CanDown(nempty))

\* A writer that owns the buffer, has characters left and no reader; the steps it
\* is away from exit(1).
Broken(p) == nreaders = 0 /\ p \in WriteOwners /\ done[p] < size[p]
Steps(p)  == IF pc[p] = "wtop" THEN 2 ELSE 1

\* A reader that has a character and waits for another has a writer under way
\* that brings it.
Served ==
  ~halted /\ nwriters > 0 =>
    \A p \in Procs : pc[p] = "relem" /\ done[p] > 0 =>
      \E q \in WriteOwners : done[q] < size[q] /\ MovesOn(q)

\* How far a writer is in its call; a reader that has not had its turn has nothing.
Within(q) == pc[q] \in Writing =>
  /\ done[q] <= size[q]
  /\ pc[q] \in {"wempty", "wput"} => done[q] < size[q]
  /\ pc[q] = "wdone" => done[q] = size[q]
Calls ==
  /\ Writers \subseteq MayWrite
  /\ ~halted => \A q \in Procs : Within(q)
  /\ \A p \in Procs : pc[p] = "rser" => done[p] = 0

\* What lefttowrite says, until somebody else writes or the writers are gone: a
\* reader does not ask for more unless it is positive.
Announced == OneWriter /\ nwriters > 0 /\ ~halted =>
  /\ \A q \in Writers : lefttowrite = size[q] - done[q]
  /\ Writers = {} => lefttowrite \in {-1, 0}
  /\ lefttowrite = -1 => (wrote = 0 /\ \A p \in Readers : done[p] = 0)
  /\ \A p \in Procs :
       pc[p] \in {"rtop", "relem"} /\ done[p] > 0 /\ count = 0 => lefttowrite > 0

AInv == IInv /\ Calls /\ Announced

\* What a step does to a thread that does not take it: nothing, or it is woken.
Stays(u) == /\ pc'[u] = pc[u] \/ (pc[u] \in Waiting /\ pc'[u] = Resume(pc[u]))
            /\ done'[u] = done[u] /\ size'[u] = size[u]

\* Such a thread stays in its call, and is where it was in it.
LEMMA StaysFacts ==
  ASSUME AInv, ~halted, NEW u \in Procs, Stays(u)
  PROVE  /\ u \in Writers' <=> u \in Writers
         /\ u \in Readers' <=> u \in Readers
         /\ Within(u)' /\ (pc'[u] = "rser" => done'[u] = 0)
         /\ pc'[u] \in {"rtop", "relem"} /\ done'[u] > 0 => pc[u] \in {"rtop", "relem"}
  <1>1. Within(u) /\ (pc[u] = "rser" => done[u] = 0)
    BY DEF AInv, Calls
  <1>2. CASE pc'[u] = pc[u]
    BY <1>1, <1>2 DEF Stays, Within, Writers, Readers
  <1>3. CASE pc[u] \in Waiting /\ pc'[u] = Resume(pc[u])
    <2>1. CASE pc[u] \in {"rser", "relem"}
      BY <1>1, <1>3, <2>1, ResumeFacts DEF Stays, Within, Writers, Readers, Reading, Writing
    <2>2. CASE pc[u] \in {"wser", "wempty"}
      BY <1>1, <1>3, <2>2, ResumeFacts DEF Stays, Within, Writers, Readers, Reading, Writing
    <2> QED BY <1>3, <2>1, <2>2 DEF Waiting
  <1> QED BY <1>2, <1>3 DEF Stays

\* The threads that the steps of the others leave or wake.
LEMMA GotoStays ==
  ASSUME IInv, NEW t \in Procs, NEW l \in Labels,
         NEW w, w = NoThread \/ (w \in Procs /\ pc[w] \in Waiting), Goto(t, l, w),
         \A u \in Procs \ {t} : done'[u] = done[u] /\ size'[u] = size[u]
  PROVE  pc'[t] = l /\ \A u \in Procs \ {t} : Stays(u)
  <1>1. /\ pc'[t] = l
        /\ \A u \in Procs \ {t} : pc'[u] = IF u = w THEN Resume(pc[u]) ELSE pc[u]
    BY GotoFacts DEF IInv
  <1>2. ASSUME NEW u \in Procs \ {t} PROVE Stays(u)
    BY <1>1, SosPipeAssumption DEF Stays
  <1> QED BY <1>1, <1>2

\* Who is woken from a semaphore of the pipe was blocked on it.
LEMMA WokenWaits ==
  ASSUME IInv, NEW s \in {nelem, nempty, read_serialize, write_serialize},
         NEW w \in Wakeable(s)
  PROVE  w = NoThread \/ (w \in Procs /\ pc[w] \in Waiting)
  BY DEF IInv, Wakeable, Queues, Queue, Waiting

\* The general part of the invariant, by what the step does to the one who takes it.
LEMMA CallsStep ==
  ASSUME AInv, ~halted, NEW t \in Procs, \A u \in Procs \ {t} : Stays(u),
         t \in Writers' => t \in MayWrite,
         Within(t)' \/ halted', pc'[t] = "rser" => done'[t] = 0
  PROVE  Calls'
  <1>1. \A u \in Procs \ {t} :
          /\ u \in Writers' <=> u \in Writers
          /\ Within(u)' /\ (pc'[u] = "rser" => done'[u] = 0)
    BY StaysFacts
  <1>2. Writers' \subseteq MayWrite
    BY <1>1 DEF AInv, Calls, Writers
  <1>3. \A p \in Procs : pc'[p] = "rser" => done'[p] = 0
    BY <1>1
  <1>4. halted' \/ \A q \in Procs : Within(q)'
    BY <1>1
  <1> QED BY <1>2, <1>3, <1>4 DEF Calls

\* The part about lefttowrite, when neither it nor what is written changes.
LEMMA AnnouncedKept ==
  ASSUME AInv, ~halted, nwriters' > 0 => nwriters > 0,
         NEW t \in Procs, \A u \in Procs \ {t} : Stays(u),
         lefttowrite' = lefttowrite, wrote' = wrote, count' = count,
         t \in Writers' <=> t \in Writers,
         t \in Writers => size'[t] = size[t] /\ done'[t] = done[t],
         t \in Readers' => done'[t] = 0 \/ (t \in Readers /\ done'[t] = done[t]),
         pc'[t] \in {"rtop", "relem"} /\ done'[t] > 0 => pc[t] \in {"rtop", "relem"}
  PROVE  Announced'
  <1> SUFFICES ASSUME OneWriter, nwriters > 0
               PROVE  Announced'
    BY DEF Announced, OneWriter
  <1>1. /\ \A q \in Writers : lefttowrite = size[q] - done[q]
        /\ Writers = {} => lefttowrite \in {-1, 0}
        /\ lefttowrite = -1 => (wrote = 0 /\ \A p \in Readers : done[p] = 0)
        /\ \A p \in Procs :
             pc[p] \in {"rtop", "relem"} /\ done[p] > 0 /\ count = 0 => lefttowrite > 0
    BY DEF AInv, Announced
  <1>2. \A u \in Procs \ {t} :
          /\ u \in Writers' <=> u \in Writers
          /\ u \in Readers' <=> u \in Readers
          /\ pc'[u] \in {"rtop", "relem"} /\ done'[u] > 0 => pc[u] \in {"rtop", "relem"}
          /\ done'[u] = done[u] /\ size'[u] = size[u]
    BY StaysFacts DEF Stays
  <1>3. Writers' = Writers
    BY <1>2 DEF Writers
  <1>4. \A q \in Writers' : lefttowrite' = size'[q] - done'[q]
    BY <1>1, <1>2, <1>3 DEF Writers
  <1>5. Writers' = {} => lefttowrite' \in {-1, 0}
    BY <1>1, <1>3
  <1>6. lefttowrite' = -1 => (wrote' = 0 /\ \A p \in Readers' : done'[p] = 0)
    BY <1>1, <1>2 DEF Readers
  <1>7. ASSUME NEW p \in Procs, pc'[p] \in {"rtop", "relem"}, done'[p] > 0, count' = 0
        PROVE  lefttowrite' > 0
    <2>1. CASE p # t
      BY <1>1, <1>2, <1>7, <2>1
    <2>2. CASE p = t
      <3>1. t \in Readers' /\ done'[t] # 0
        BY <1>7, <2>2 DEF Readers, Reading, IInv, TypeOK
      <3> QED BY <1>1, <1>7, <2>2, <3>1
    <2> QED BY <2>1, <2>2
  <1> QED BY <1>4, <1>5, <1>6, <1>7 DEF Announced

\* The steps of the reader.
LEMMA ReadTopAnnounced == ASSUME AInv, NEW t \in Procs, ReadTop(t) PROVE Calls' /\ Announced'
  <1>1. /\ ~halted /\ pc[t] = "rtop" /\ ~halted'
        /\ UNCHANGED <<lefttowrite, wrote, count, nwriters, done, size>>
    BY DEF ReadTop, Runs, ring, ends, totals
  <1>2. PICK l \in {"rtake", "relem", "rdone"} : Goto(t, l, NoThread)
    BY DEF ReadTop
  <1>3. pc'[t] = l /\ \A u \in Procs \ {t} : Stays(u)
    BY <1>1, <1>2, GotoStays DEF AInv, Labels, Reading
  <1>4. t \notin Writers /\ t \notin Writers' /\ t \in Readers
    BY <1>1, <1>3 DEF Writers, Writing, Readers, Reading
  <1>5. Within(t)' /\ pc'[t] # "rser"
    BY <1>3 DEF Within, Writing
  <1>6. Calls'
    BY <1>1, <1>3, <1>4, <1>5, CallsStep
  <1>7. Announced'
    BY <1>1, <1>3, <1>4, AnnouncedKept
  <1> QED BY <1>6, <1>7

LEMMA ReadDoneAnnounced == ASSUME AInv, NEW t \in Procs, ReadDone(t) PROVE Calls' /\ Announced'
  <1>1. /\ ~halted /\ pc[t] = "rdone"
        /\ UNCHANGED <<lefttowrite, wrote, count, nwriters, done, size>>
    BY DEF ReadDone, Runs, ring, ends, totals
  <1>2. PICK w \in Wakeable(read_serialize) : Goto(t, "idle", w)
    BY DEF ReadDone
  <1>3. pc'[t] = "idle" /\ \A u \in Procs \ {t} : Stays(u)
    BY <1>1, <1>2, WokenWaits, GotoStays DEF AInv, Labels
  <1>4. t \notin Writers /\ t \notin Writers' /\ t \notin Readers'
    BY <1>1, <1>3 DEF Writers, Writing, Readers, Reading
  <1>5. Within(t)' /\ pc'[t] # "rser"
    BY <1>3 DEF Within, Writing
  <1>6. Calls'
    BY <1>1, <1>3, <1>4, <1>5, CallsStep
  <1>7. Announced'
    BY <1>1, <1>3, <1>4, AnnouncedKept
  <1> QED BY <1>6, <1>7

LEMMA ReadCallAnnounced ==
  ASSUME AInv, NEW t \in Procs, NEW n \in 0 .. MaxReq, ReadCall(t, n)
  PROVE  Calls' /\ Announced'
  <1>1. /\ ~halted /\ pc[t] = "idle"
        /\ UNCHANGED <<lefttowrite, wrote, count, nwriters>>
        /\ size' = [size EXCEPT ![t] = n] /\ done' = [done EXCEPT ![t] = 0]
    BY DEF ReadCall, Quiescent, ring, ends, totals
  <1>2. PICK l \in {"rtop", "rser"} : Goto(t, l, NoThread)
    BY DEF ReadCall
  <1>3. done'[t] = 0 /\ \A u \in Procs \ {t} : done'[u] = done[u] /\ size'[u] = size[u]
    BY <1>1 DEF AInv, IInv, TypeOK
  <1>4. pc'[t] = l /\ \A u \in Procs \ {t} : Stays(u)
    BY <1>2, <1>3, GotoStays DEF AInv, Labels, Reading
  <1>5. t \notin Writers /\ t \notin Writers'
    BY <1>1, <1>4 DEF Writers, Writing
  <1>6. Within(t)'
    BY <1>4 DEF Within, Writing
  <1>7. Calls'
    BY <1>1, <1>3, <1>4, <1>5, <1>6, CallsStep
  <1>8. Announced'
    BY <1>1, <1>3, <1>4, <1>5, AnnouncedKept
  <1> QED BY <1>7, <1>8

\* What the counts say while SOS runs and somebody can write.
LEMMA CountFacts ==
  ASSUME IInv, ~halted, nwriters > 0
  PROVE  /\ count \in Nat /\ count = wrote - taken /\ wrote \in Nat /\ taken \in Nat
         /\ nelem.credit \in Nat /\ AtTake \in {0, 1} /\ count = nelem.credit + AtTake
  <1>1. /\ nelem.credit \in Nat /\ AtTake \in {0, 1} /\ count \in Int
        /\ wrote \in Nat /\ taken \in Nat
    BY DEF IInv, TypeOK, Sems, AtTake
  <1>2. nelem.credit + AtTake - count = 0
    BY DEF IInv, Credits
  <1>3. count = nelem.credit + AtTake
    BY <1>1, <1>2
  <1> QED BY <1>1, <1>3 DEF IInv, RingInOrder

\* A reader that goes on for more does so because lefttowrite is positive.
LEMMA ReadTakeAnnounced == ASSUME AInv, NEW t \in Procs, ReadTake(t) PROVE Calls' /\ Announced'
  <1>1. /\ ~halted /\ pc[t] = "rtake" /\ halted' = halted
        /\ UNCHANGED <<lefttowrite, wrote, nwriters, size>>
        /\ count' = count - 1 /\ done' = [done EXCEPT ![t] = @ + 1]
    BY DEF ReadTake, Runs, ends
  <1> DEFINE l == IF buf[head] \in EofBytes \/ Drained THEN "rdone" ELSE "rtop"
  <1>2. PICK w \in Wakeable(nempty) : Goto(t, l, w)
    BY DEF ReadTake
  <1>3. \A u \in Procs \ {t} : done'[u] = done[u] /\ size'[u] = size[u]
    BY <1>1 DEF AInv, IInv, TypeOK
  <1>4. pc'[t] = l /\ \A u \in Procs \ {t} : Stays(u)
    BY <1>2, <1>3, WokenWaits, GotoStays DEF AInv, Labels, Reading
  <1>5. l = "rtop" => ~Drained
    OBVIOUS
  <1>6. l \in {"rdone", "rtop"}
    OBVIOUS
  <1> HIDE DEF l
  <1>7. t \notin Writers /\ t \notin Writers' /\ t \in Readers
    BY <1>1, <1>4, <1>6 DEF Writers, Writing, Readers, Reading
  <1>8. Within(t)' /\ pc'[t] # "rser"
    BY <1>4, <1>6 DEF Within, Writing
  <1>9. Calls'
    BY <1>1, <1>4, <1>7, <1>8, CallsStep
  <1>10. ASSUME OneWriter, nwriters > 0 PROVE Announced'
    <2>1. /\ \A q \in Writers : lefttowrite = size[q] - done[q]
          /\ Writers = {} => lefttowrite \in {-1, 0}
          /\ lefttowrite = -1 => wrote = 0
      BY <1>1, <1>10 DEF AInv, Announced
    <2>2. \A u \in Procs \ {t} : /\ u \in Writers' <=> u \in Writers
                                 /\ done'[u] = done[u] /\ size'[u] = size[u]
      BY <1>1, <1>4, StaysFacts DEF Stays
    <2>3. Writers' = Writers
      BY <1>7, <2>2 DEF Writers
    <2>4. AtTake = 1
      BY <1>1 DEF AtTake
    <2>5. lefttowrite # -1
      BY <1>1, <1>10, <2>1, <2>4, CountFacts DEF AInv
    <2>6. lefttowrite >= 0
      <3>1. CASE Writers = {}
        BY <2>1, <2>5, <3>1
      <3>2. ASSUME NEW q \in Writers PROVE lefttowrite >= 0
        <4>1. done[q] <= size[q] /\ done[q] \in Nat /\ size[q] \in Nat
          BY <1>1, <3>2 DEF AInv, Calls, Within, Writers, IInv, TypeOK
        <4> QED BY <2>1, <3>2, <4>1
      <3> QED BY <3>1, <3>2
    <2>7. \A q \in Writers' : lefttowrite' = size'[q] - done'[q]
      BY <1>1, <1>7, <2>1, <2>2, <2>3 DEF Writers
    <2>8. ASSUME NEW p \in Procs, pc'[p] \in {"rtop", "relem"}, done'[p] > 0, count' = 0
          PROVE  lefttowrite' > 0
      <3>1. p = t
        <4> SUFFICES ASSUME p # t PROVE FALSE
          OBVIOUS
        <4>1. pc[p] \in {"rtop", "relem"}
          BY <1>1, <1>4, <2>8, StaysFacts
        <4> QED BY <1>1, <4>1 DEF AInv, IInv, OneAtEachEnd, ReadOwners, Reading
      <3>2. ~Drained
        BY <1>4, <1>5, <1>6, <2>8, <3>1
      <3>3. lefttowrite # 0
        BY <1>1, <2>8, <3>2 DEF Drained
      <3> QED BY <1>1, <2>6, <3>3 DEF AInv, IInv, TypeOK
    <2>9. Writers' = {} => lefttowrite' \in {-1, 0}
      BY <1>1, <2>1, <2>3
    <2> QED BY <1>1, <2>5, <2>7, <2>8, <2>9 DEF Announced
  <1> QED BY <1>1, <1>9, <1>10 DEF Announced, OneWriter

\* The steps of the writer.
LEMMA WriteCallAnnounced ==
  ASSUME AInv, NEW t \in MayWrite, NEW n \in 0 .. MaxReq, WriteCall(t, n)
  PROVE  Calls' /\ Announced'
  <1> USE SosPipeAssumption
  <1>1. /\ ~halted /\ pc[t] = "idle" /\ t \in Procs
        /\ UNCHANGED <<wrote, count, nwriters>> /\ lefttowrite' = n
        /\ size' = [size EXCEPT ![t] = n] /\ done' = [done EXCEPT ![t] = 0]
    BY DEF WriteCall, Quiescent, ring, ends
  <1>2. PICK l \in {"wtop", "wser"} : Goto(t, l, NoThread)
    BY DEF WriteCall
  <1>3. /\ done'[t] = 0 /\ size'[t] = n /\ n \in Nat
        /\ \A u \in Procs \ {t} : done'[u] = done[u] /\ size'[u] = size[u]
    BY <1>1 DEF AInv, IInv, TypeOK
  <1>4. pc'[t] = l /\ \A u \in Procs \ {t} : Stays(u)
    BY <1>1, <1>2, <1>3, GotoStays DEF AInv, Labels, Writing
  <1>5. t \notin Writers /\ t \notin Readers /\ t \notin Readers'
    BY <1>1, <1>4 DEF Writers, Writing, Readers, Reading
  <1>6. Within(t)' /\ pc'[t] # "rser"
    BY <1>3, <1>4 DEF Within
  <1>7. Calls'
    BY <1>1, <1>4, <1>6, CallsStep
  <1>8. ASSUME OneWriter, nwriters > 0 PROVE Announced'
    <2>1. Writers = {}
      BY <1>5, <1>8 DEF AInv, Calls, OneWriter
    <2>2. /\ lefttowrite \in {-1, 0}
          /\ \A p \in Procs :
               ~(pc[p] \in {"rtop", "relem"} /\ done[p] > 0 /\ count = 0)
      BY <1>1, <1>8, <2>1 DEF AInv, Announced
    <2>3. \A u \in Procs \ {t} :
            /\ u \in Writers' <=> u \in Writers
            /\ pc'[u] \in {"rtop", "relem"} /\ done'[u] > 0 => pc[u] \in {"rtop", "relem"}
      BY <1>1, <1>4, StaysFacts
    <2>4. \A q \in Writers' : q = t
      BY <2>1, <2>3 DEF Writers
    <2>5. t \in Writers'
      BY <1>1, <1>4 DEF Writers, Writing
    <2>6. \A q \in Writers' : lefttowrite' = size'[q] - done'[q]
      BY <1>1, <1>3, <2>4
    <2>7. \A p \in Procs :
            ~(pc'[p] \in {"rtop", "relem"} /\ done'[p] > 0 /\ count' = 0)
      BY <1>1, <1>3, <1>4, <2>2, <2>3
    <2>8. lefttowrite' # -1
      BY <1>1, <1>3
    <2> QED BY <2>5, <2>6, <2>7, <2>8 DEF Announced
  <1> QED BY <1>1, <1>7, <1>8 DEF Announced, OneWriter

LEMMA WriteTopAnnounced == ASSUME AInv, NEW t \in Procs, WriteTop(t) PROVE Calls' /\ Announced'
  <1>1. /\ ~halted /\ pc[t] = "wtop"
        /\ UNCHANGED <<lefttowrite, wrote, count, nwriters, done, size>>
    BY DEF WriteTop, Runs, ring, ends, totals
  <1>2. PICK l \in {"wput", "wempty", "wdone"} :
          /\ Goto(t, l, NoThread)
          /\ l = "wdone" <=> ~(done[t] < size[t])
    BY DEF WriteTop
  <1>3. pc'[t] = l /\ \A u \in Procs \ {t} : Stays(u)
    BY <1>1, <1>2, GotoStays DEF AInv, Labels, Writing
  <1>4. t \in Writers /\ t \in Writers' /\ t \notin Readers'
    BY <1>1, <1>3 DEF Writers, Writing, Readers, Reading
  <1>5. done[t] <= size[t] /\ done[t] \in Nat /\ size[t] \in Nat
    BY <1>1 DEF AInv, Calls, Within, Writing, IInv, TypeOK
  <1>6. Within(t)' /\ pc'[t] # "rser"
    BY <1>1, <1>2, <1>3, <1>5 DEF Within
  <1>7. t \in MayWrite
    BY <1>4 DEF AInv, Calls
  <1>8. Calls'
    BY <1>1, <1>3, <1>6, <1>7, CallsStep
  <1>9. Announced'
    BY <1>1, <1>3, <1>4, AnnouncedKept
  <1> QED BY <1>8, <1>9

\* A character stored is one less to write and one more to read.
LEMMA WritePutAnnounced == ASSUME AInv, NEW t \in Procs, WritePut(t) PROVE Calls' /\ Announced'
  <1>1. /\ ~halted /\ pc[t] = "wput"
        /\ UNCHANGED <<nwriters, size>>
        /\ count' = count + 1 /\ lefttowrite' = lefttowrite - 1 /\ wrote' = wrote + 1
        /\ done' = [done EXCEPT ![t] = @ + 1]
    BY DEF WritePut, Runs, ends
  <1>2. \A u \in Procs \ {t} : done'[u] = done[u] /\ size'[u] = size[u]
    BY <1>1 DEF AInv, IInv, TypeOK
  <1>3. /\ done'[t] = done[t] + 1 /\ done[t] < size[t]
        /\ done[t] \in Nat /\ size[t] \in Nat
    BY <1>1 DEF AInv, IInv, TypeOK, Calls, Within, Writing
  <1>4. t \in Writers /\ t \in MayWrite
    BY <1>1 DEF AInv, Calls, Writers, Writing
  <1>5. CASE nreaders = 0
    <2>1. halted' /\ pc' = pc
      BY <1>5 DEF WritePut
    <2>2. \A u \in Procs \ {t} : Stays(u)
      BY <1>2, <2>1 DEF Stays
    <2>3. Calls'
      BY <1>1, <1>4, <2>1, <2>2, CallsStep
    <2> QED BY <2>1, <2>3 DEF Announced
  <1>6. CASE nreaders # 0
    <2>1. PICK w \in Wakeable(nelem) : Goto(t, "wtop", w)
      BY <1>6 DEF WritePut
    <2>2. pc'[t] = "wtop" /\ \A u \in Procs \ {t} : Stays(u)
      BY <1>2, <2>1, WokenWaits, GotoStays DEF AInv, Labels, Writing
    <2>3. Within(t)' /\ pc'[t] # "rser"
      BY <1>1, <1>3, <2>2 DEF Within
    <2>4. Calls'
      BY <1>1, <1>4, <2>2, <2>3, CallsStep
    <2>5. ASSUME OneWriter, nwriters > 0 PROVE Announced'
      <3>1. lefttowrite = size[t] - done[t]
        BY <1>1, <1>4, <2>5 DEF AInv, Announced
      <3>2. \A q \in Writers' : q = t
        BY <1>4, <2>4, <2>5 DEF Calls, OneWriter
      <3>3. t \in Writers'
        BY <2>2 DEF Writers, Writing
      <3>4. lefttowrite' = size'[t] - done'[t] /\ lefttowrite' >= 0
        BY <1>1, <1>3, <3>1
      <3>5. count' # 0
        BY <1>1, <2>5, CountFacts DEF AInv
      <3> QED BY <3>2, <3>3, <3>4, <3>5 DEF Announced
    <2> QED BY <1>1, <2>4, <2>5 DEF Announced, OneWriter
  <1> QED BY <1>5, <1>6

\* The writer that leaves has nothing left to write.
LEMMA WriteDoneAnnounced == ASSUME AInv, NEW t \in Procs, WriteDone(t) PROVE Calls' /\ Announced'
  <1>1. /\ ~halted /\ pc[t] = "wdone"
        /\ UNCHANGED <<lefttowrite, wrote, count, nwriters, done, size>>
    BY DEF WriteDone, Runs, ring, ends, totals
  <1>2. PICK w \in Wakeable(write_serialize) : Goto(t, "idle", w)
    BY DEF WriteDone
  <1>3. pc'[t] = "idle" /\ \A u \in Procs \ {t} : Stays(u)
    BY <1>1, <1>2, WokenWaits, GotoStays DEF AInv, Labels
  <1>4. t \in Writers /\ t \notin Writers' /\ t \notin Readers' /\ t \notin Readers
    BY <1>1, <1>3 DEF Writers, Writing, Readers, Reading
  <1>5. Within(t)' /\ pc'[t] # "rser"
    BY <1>3 DEF Within, Writing
  <1>6. Calls'
    BY <1>1, <1>3, <1>4, <1>5, CallsStep
  <1>7. ASSUME OneWriter, nwriters > 0 PROVE Announced'
    <2>1. /\ lefttowrite = size[t] - done[t]
          /\ \A p \in Procs :
               pc[p] \in {"rtop", "relem"} /\ done[p] > 0 /\ count = 0 => lefttowrite > 0
      BY <1>1, <1>4, <1>7 DEF AInv, Announced
    <2>2. done[t] = size[t] /\ done[t] \in Nat
      BY <1>1 DEF AInv, IInv, TypeOK, Calls, Within, Writing
    <2>3. lefttowrite = 0
      BY <2>1, <2>2
    <2>4. \A u \in Procs \ {t} :
            /\ u \in Writers' <=> u \in Writers
            /\ pc'[u] \in {"rtop", "relem"} /\ done'[u] > 0 => pc[u] \in {"rtop", "relem"}
      BY <1>1, <1>3, StaysFacts
    <2>5. Writers' = {}
      BY <1>4, <1>7, <2>4 DEF AInv, Calls, OneWriter, Writers
    <2>6. \A p \in Procs :
            ~(pc'[p] \in {"rtop", "relem"} /\ done'[p] > 0 /\ count' = 0)
      BY <1>1, <1>3, <2>1, <2>3, <2>4
    <2> QED BY <1>1, <2>3, <2>5, <2>6 DEF Announced
  <1> QED BY <1>1, <1>6, <1>7 DEF Announced, OneWriter

\* Closing wakes at most one thread, and brings no end back.
LEMMA ClosingAnnounced ==
  ASSUME AInv, NEW s \in {nelem, nempty}, NEW w, w = NoThread \/ w \in Wakeable(s),
         Wakes(w), ~halted, nwriters' > 0 => nwriters > 0,
         UNCHANGED <<lefttowrite, wrote, count, done, size, halted>>
  PROVE  Calls' /\ Announced'
  <1>1. w = NoThread \/ (w \in Procs /\ pc[w] \in Waiting)
    BY WokenWaits DEF AInv
  <1>2. \A u \in Procs : Stays(u)
    BY <1>1, SosPipeAssumption DEF Wakes, Stays
  <1>3. ASSUME NEW t \in Procs PROVE Calls' /\ Announced'
    <2>1. /\ t \in Writers' <=> t \in Writers
          /\ t \in Readers' <=> t \in Readers
          /\ Within(t)' /\ (pc'[t] = "rser" => done'[t] = 0)
          /\ pc'[t] \in {"rtop", "relem"} /\ done'[t] > 0 => pc[t] \in {"rtop", "relem"}
      BY <1>2, StaysFacts
    <2>2. t \in Writers => t \in MayWrite
      BY DEF AInv, Calls
    <2>3. Calls'
      BY <1>2, <2>1, <2>2, CallsStep
    <2>4. Announced'
      BY <1>2, <2>1, AnnouncedKept
    <2> QED BY <2>3, <2>4
  <1>4. CASE Procs = {}
    <2>1. Calls' /\ Writers' = {} /\ Readers' = {} /\ Writers = {}
      BY <1>4 DEF Calls, Writers, Readers
    <2>2. ASSUME OneWriter, nwriters > 0 PROVE Announced'
      BY <1>4, <2>1, <2>2 DEF AInv, Announced
    <2> QED BY <2>1, <2>2 DEF Announced, OneWriter
  <1> QED BY <1>3, <1>4

\* The invariant is inductive.
LEMMA InitAInv == Init => AInv
  <1> SUFFICES ASSUME Init PROVE Calls /\ Announced
    BY InitIInv DEF AInv
  <1>1. Writers = {} /\ Readers = {}
    BY DEF Init, Writers, Readers, Reading, Writing
  <1>2. Calls
    BY <1>1 DEF Init, Calls, Within, Writing
  <1>3. Announced
    BY <1>1 DEF Init, Announced
  <1> QED BY <1>2, <1>3

LEMMA NextAInv == AInv /\ [Next]_vars => AInv'
  <1> SUFFICES ASSUME AInv, [Next]_vars PROVE Calls' /\ Announced'
    BY NextIInv DEF AInv
  <1>1. ASSUME NEW t \in Procs, KernelStep(t) PROVE Calls' /\ Announced'
    BY <1>1, ReadTopAnnounced, ReadTakeAnnounced, ReadDoneAnnounced, WriteTopAnnounced,
       WritePutAnnounced, WriteDoneAnnounced DEF KernelStep
  <1>2. ASSUME UNCHANGED <<pc, done, size, lefttowrite, wrote, count, halted>>,
               nwriters' > 0 => nwriters > 0
        PROVE  Calls' /\ Announced'
    <2>1. Writers' = Writers /\ Readers' = Readers /\ \A q \in Procs : Within(q)' = Within(q)
      BY <1>2 DEF Writers, Readers, Within
    <2>2. Calls'
      BY <1>2, <2>1 DEF AInv, Calls
    <2>3. Announced'
      BY <1>2, <2>1 DEF AInv, Announced, OneWriter
    <2> QED BY <2>2, <2>3
  <1>3. ASSUME NEW t \in MayRead, ReadEof(t) PROVE Calls' /\ Announced'
    BY <1>2, <1>3 DEF ReadEof, ring, ends, totals
  <1>4. ASSUME NEW t \in MayRead, NEW n \in 0 .. MaxReq, ReadCall(t, n)
        PROVE  Calls' /\ Announced'
    BY <1>4, ReadCallAnnounced, SosPipeAssumption
  <1>5. ASSUME NEW t \in MayWrite, NEW n \in 0 .. MaxReq, WriteCall(t, n)
        PROVE  Calls' /\ Announced'
    BY <1>5, WriteCallAnnounced
  <1>6. ASSUME NEW e \in {"r", "w"}, Share(e) PROVE Calls' /\ Announced'
    <2>1. nwriters' > 0 => nwriters > 0
      BY <1>6 DEF Share
    <2> QED BY <1>2, <1>6, <2>1 DEF Share, ring, threads, totals
  <1>7. CASE CloseRead
    <2>1. ~halted /\ UNCHANGED <<lefttowrite, wrote, count, nwriters, done, size, halted>>
      BY <1>7 DEF CloseRead, Quiescent, ring, totals
    <2>2. CASE LastReader
      BY <1>7, <2>1, <2>2, ClosingAnnounced DEF CloseRead
    <2>3. CASE ~LastReader
      BY <1>2, <1>7, <2>1, <2>3 DEF CloseRead
    <2> QED BY <2>2, <2>3
  <1>8. CASE CloseWrite
    <2>1. ~halted /\ UNCHANGED <<lefttowrite, wrote, count, done, size, halted>>
      BY <1>8 DEF CloseWrite, Quiescent, ring, totals
    <2>2. nwriters' > 0 => nwriters > 0
      BY <1>8 DEF CloseWrite, AInv, IInv, TypeOK
    <2>3. CASE nwriters' = 0 /\ nreaders > 0
      BY <1>8, <2>1, <2>2, <2>3, ClosingAnnounced DEF CloseWrite
    <2>4. CASE ~(nwriters' = 0 /\ nreaders > 0)
      BY <1>2, <1>8, <2>1, <2>2, <2>4 DEF CloseWrite
    <2> QED BY <2>3, <2>4
  <1>9. CASE UNCHANGED vars
    BY <1>2, <1>9 DEF vars, ring, ends, threads, totals
  <1> QED BY <1>1, <1>3, <1>4, <1>5, <1>6, <1>7, <1>8, <1>9 DEF Next

\* A reader that has got a character never waits for one that nobody brings: while
\* SOS runs and somebody can write, the one writer has characters left and is not
\* blocked (the test of lefttowrite in io_buffer_read_exact, line 122).
THEOREM ReadersAreServed == OneWriter => (Spec => []Served)
  <1>1. ASSUME AInv, OneWriter, ~halted, nwriters > 0,
               NEW p \in Procs, pc[p] = "relem", done[p] > 0
        PROVE  \E q \in WriteOwners : done[q] < size[q] /\ MovesOn(q)
    <2> USE <1>1
    <2>1. nelem.credit = 0
      BY DEF AInv, IInv, Queues, Queue
    <2>2. AtTake = 0
      BY DEF AInv, IInv, AtTake, OneAtEachEnd, ReadOwners, Reading
    <2>3. count = 0
      BY <2>1, <2>2, CountFacts DEF AInv
    <2>4. lefttowrite > 0
      BY <2>3 DEF AInv, Announced
    <2>5. PICK q \in Writers : lefttowrite = size[q] - done[q]
      BY <2>4 DEF AInv, Announced
    <2>6. q \in Procs /\ done[q] \in Nat /\ size[q] \in Nat
      BY DEF Writers, AInv, IInv, TypeOK
    <2>7. done[q] < size[q]
      BY <2>4, <2>5, <2>6
    <2>8. q \in WriteOwners
      <3> SUFFICES ASSUME pc[q] = "wser" PROVE FALSE
        BY <2>6 DEF Writers, WriteOwners
      <3>1. WriteOwners # {}
        BY <2>6 DEF AInv, IInv, Queues, Queue, Serialized
      <3>2. \A r \in WriteOwners : r = q
        BY DEF WriteOwners, Writers, AInv, Calls, OneWriter
      <3>3. q \notin WriteOwners
        BY DEF WriteOwners
      <3> QED BY <3>1, <3>2, <3>3
    <2>9. pc[q] # "wdone"
      BY <2>6, <2>7 DEF AInv, Calls, Within, Writing
    <2>10. /\ nempty.credit \in Nat /\ Size \in Nat \ {0}
           /\ nempty.credit + AtPut \in {Size, Size + 1}
      <3>1. nempty.credit \in Nat /\ AtPut \in {0, 1} /\ Size \in Nat \ {0}
        BY SosPipeAssumption DEF AInv, IInv, TypeOK, Sems, AtPut
      <3>2. nempty.credit + AtPut + count \in {Size, Size + 1}
        BY DEF AInv, IInv, Credits
      <3> QED BY <2>3, <3>1, <3>2
    <2>11. pc[q] # "wput" => AtPut = 0
      BY <2>8 DEF AInv, IInv, AtPut, OneAtEachEnd, WriteOwners, Writing
    <2>12. pc[q] # "wput" => nempty.credit > 0
      BY <2>10, <2>11
    <2>13. pc[q] # "wempty"
      BY <2>6, <2>12 DEF AInv, IInv, Queues, Queue
    <2>14. MovesOn(q)
      BY <2>6, <2>8, <2>9, <2>12, <2>13 DEF MovesOn, WriteOwners, Writing, CanDown
    <2> QED BY <2>7, <2>8, <2>14
  <1>2. OneWriter /\ AInv => Served
    BY <1>1 DEF Served
  <1>3. OneWriter => OneWriter'
    BY DEF OneWriter
  <1>4. OneWriter /\ Spec => [](OneWriter /\ AInv)
    BY <1>3, InitAInv, NextAInv, PTL DEF Spec
  <1> QED BY <1>2, <1>4, PTL

\* What a broken pipe leaves to its writer.
LEMMA BrokenMovesOn ==
  ASSUME AInv, ~halted, NEW p \in Procs, Broken(p)
  PROVE  MovesOn(p)
  <1>1. p \in WriteOwners /\ done[p] < size[p] /\ nreaders = 0
    BY DEF Broken
  <1>2. pc[p] # "wdone"
    BY <1>1 DEF AInv, Calls, Within, Writing, IInv, TypeOK
  <1>3. nempty.credit + AtPut > 0 /\ nempty.credit \in Nat /\ AtPut \in {0, 1}
    <2>1. nempty.credit \in Nat /\ AtPut \in {0, 1} /\ count \in Int /\ Size \in Nat
      BY SosPipeAssumption DEF AInv, IInv, TypeOK, Sems, AtPut
    <2>2. nempty.credit + AtPut + count = Size + 1 /\ count <= Size
      BY <1>1 DEF AInv, IInv, Credits, RingInOrder
    <2> QED BY <2>1, <2>2
  <1>4. pc[p] # "wput" => AtPut = 0
    BY <1>1 DEF AInv, IInv, AtPut, OneAtEachEnd, WriteOwners, Writing
  <1>5. pc[p] # "wput" => nempty.credit > 0
    BY <1>3, <1>4
  <1>6. pc[p] # "wempty"
    BY <1>5 DEF AInv, IInv, Queues, Queue
  <1> QED BY <1>1, <1>2, <1>5, <1>6 DEF MovesOn, WriteOwners, Writing, CanDown

\* When the last reader has left, the writer that has the buffer and characters to
\* write is not blocked, however it was: its own next two steps bring it to the test
\* of nreaders in io_buffer_write and to what stands there, exit(1), and no other
\* step takes it back (the V(nempty) of close_fd).
THEOREM BrokenPipeEnds ==
  Spec => /\ [](~halted => \A p \in Procs : Broken(p) => MovesOn(p))
          /\ [][\A p \in Procs : Broken(p) /\ ~halted =>
                  \/ halted'
                  \/ /\ Broken(p)'
                     /\ IF KernelStep(p) THEN Steps(p)' < Steps(p)
                                         ELSE Steps(p)' = Steps(p)]_vars
  <1>1. AInv => (~halted => \A p \in Procs : Broken(p) => MovesOn(p))
    BY BrokenMovesOn
  <1>2. ASSUME AInv, [Next]_vars, NEW p \in Procs, Broken(p), ~halted, ~halted'
        PROVE  /\ Broken(p)'
               /\ IF KernelStep(p) THEN Steps(p)' < Steps(p) ELSE Steps(p)' = Steps(p)
    <2>1. MovesOn(p) /\ p \in WriteOwners /\ done[p] < size[p] /\ nreaders = 0
      BY <1>2, BrokenMovesOn DEF Broken
    <2>2. pc[p] \in {"wput", "wtop"} /\ ~Quiescent
      BY <2>1 DEF MovesOn, Quiescent, Waiting
    <2>3. CASE KernelStep(p)
      <3>1. WriteTop(p) \/ WritePut(p)
        BY <2>2, <2>3 DEF KernelStep, ReadTop, ReadTake, ReadDone, WriteDone
      <3>2. ~WritePut(p)
        BY <1>2, <2>1 DEF WritePut
      <3>3. pc[p] = "wtop" /\ CanDown(nempty)
        BY <2>1, <3>1, <3>2 DEF WriteTop, MovesOn
      <3>4. Goto(p, "wput", NoThread) /\ UNCHANGED <<nreaders, done, size>>
        <4>1. WriteTop(p)
          BY <3>1, <3>2
        <4>2. UNCHANGED <<nreaders, done, size>>
          BY <4>1 DEF WriteTop, ends
        <4>3. Goto(p, IF CanDown(nempty) THEN "wput" ELSE "wempty", NoThread)
          BY <2>1, <4>1 DEF WriteTop
        <4> QED BY <3>3, <4>2, <4>3
      <3>5. pc'[p] = "wput"
        BY <1>2, <3>4, GotoFacts DEF AInv, IInv, Labels, Writing
      <3>6. Broken(p)'
        BY <2>1, <3>4, <3>5 DEF Broken, WriteOwners, Writing
      <3>7. Steps(p)' < Steps(p)
        BY <3>3, <3>5 DEF Steps
      <3> QED BY <2>3, <3>6, <3>7
    <2>4. CASE ~KernelStep(p)
      <3>1. UNCHANGED vars \/ \E t \in Procs \ {p} : KernelStep(t)
        BY <1>2, <2>2, <2>4
           DEF Next, ReadEof, ReadCall, WriteCall, Share, CloseRead, CloseWrite
      <3>2. ASSUME NEW t \in Procs \ {p}, KernelStep(t)
            PROVE  pc'[p] = pc[p] /\ UNCHANGED nreaders /\ done'[p] = done[p]
                   /\ size'[p] = size[p]
        <4>1. /\ UNCHANGED <<nreaders, size>>
              /\ done' = done \/ done' = [done EXCEPT ![t] = @ + 1]
          BY <3>2 DEF KernelStep, ReadTop, ReadTake, ReadDone, WriteTop, WritePut,
                      WriteDone, ends
        <4>2. pc[p] \notin Waiting
          BY <2>2 DEF Waiting
        <4>3. ASSUME NEW l, NEW s \in {nelem, nempty, read_serialize, write_serialize},
                     NEW w, w = NoThread \/ w \in Wakeable(s), Goto(t, l, w)
              PROVE  pc'[p] = pc[p]
          <5>1. w = NoThread \/ (w \in Procs /\ pc[w] \in Waiting)
            BY <1>2, <4>3, WokenWaits DEF AInv
          <5>2. w # p
            BY <4>2, <5>1, SosPipeAssumption
          <5> QED BY <4>3, <5>2, <3>2 DEF Goto
        <4>4. pc'[p] = pc[p]
          <5>1. CASE ReadTop(t)
            BY <4>3, <5>1 DEF ReadTop
          <5>2. CASE ReadTake(t)
            BY <4>3, <5>2 DEF ReadTake
          <5>3. CASE ReadDone(t)
            BY <4>3, <5>3 DEF ReadDone
          <5>4. CASE WriteTop(t)
            BY <4>3, <5>4 DEF WriteTop
          <5>5. CASE WritePut(t)
            BY <1>2, <4>3, <5>5 DEF WritePut
          <5>6. CASE WriteDone(t)
            BY <4>3, <5>6 DEF WriteDone
          <5> QED BY <3>2, <5>1, <5>2, <5>3, <5>4, <5>5, <5>6 DEF KernelStep
        <4> QED BY <1>2, <4>1, <4>4 DEF AInv, IInv, TypeOK
      <3>3. pc'[p] = pc[p] /\ UNCHANGED nreaders /\ done'[p] = done[p] /\ size'[p] = size[p]
        BY <3>1, <3>2 DEF vars, ends, threads
      <3>4. Broken(p)' /\ Steps(p)' = Steps(p)
        BY <2>1, <3>3 DEF Broken, WriteOwners, Steps
      <3> QED BY <2>4, <3>4
    <2> QED BY <2>3, <2>4
  <1>3. ASSUME AInv, [Next]_vars
        PROVE  [\A p \in Procs : Broken(p) /\ ~halted =>
                  \/ halted'
                  \/ /\ Broken(p)'
                     /\ IF KernelStep(p) THEN Steps(p)' < Steps(p)
                                         ELSE Steps(p)' = Steps(p)]_vars
    BY <1>2, <1>3
  <1> QED BY <1>1, <1>3, InitAInv, NextAInv, PTL DEF Spec
=============================================================================
