------------------------------ MODULE SosPipe ------------------------------
(***************************************************************************)
(* One pipe of SOS Lab 3: the bounded circular IO_Buffer of io.c and the   *)
(* kernel threads that serve read() and write() on it.                     *)
(*                                                                         *)
(* Kernel threads are not preempted: a thread runs until it blocks on a    *)
(* semaphore or ends (cur), and a user process runs, and can make a system *)
(* call, only when every kernel thread is blocked or done (Quiescent), for *)
(* schedule() starts with mt_joinall().  An action is the code between two *)
(* semaphore downs.  A process serves one call at a time, so a kernel      *)
(* thread is named by its process.                                         *)
(*                                                                         *)
(* A byte is its serial number in the order bytes are stored; EofBytes are *)
(* the ones whose value is 0xFF, which `c == EOF' takes for end of file.   *)
(* The number of descriptors of each end is what SosFiles computes; here   *)
(* Share and Close raise and lower the counts nreaders and nwriters.       *)
(* do_read and do_write never test which end a descriptor is of: with any  *)
(* descriptor of the pipe a process reads and writes.                      *)
(***************************************************************************)
EXTENDS Integers, FiniteSets, MtSem

CONSTANTS Procs,        \* processes that use the pipe
          MayRead, MayWrite,   \* those that call read(), write()
          Size,         \* PIPEBUFSIZE
          MaxReq,       \* bound on the size argument of a call
          MaxBytes,     \* bound on the bytes ever requested for writing
          MaxEnds,      \* bound on the descriptors of one end
          EofBytes,     \* serial numbers of the bytes with value 0xFF
          Closable      \* the ends ("r", "w") whose descriptors get closed

ASSUME SosPipeAssumption ==
  /\ NoThread \notin Procs
  /\ IsFiniteSet(Procs) /\ MayRead \subseteq Procs /\ MayWrite \subseteq Procs
  /\ Size \in Nat \ {0}
  /\ MaxReq \in Nat
  /\ MaxBytes \in Nat
  /\ MaxEnds \in Nat \ {0}
  /\ EofBytes \subseteq Nat
  /\ Closable \subseteq {"r", "w"}

VARIABLES buf, head, tail, count, lefttowrite, nreaders, nwriters,
          nelem, nempty, read_serialize, write_serialize,
          pc,           \* where the kernel thread of each process stands
          size,         \* the size argument of its call
          done,         \* the characters it has transferred: read / write
          ret,          \* the value its last call returned
          cur,          \* the kernel thread that runs
          halted,       \* exit(1) was called: SOS is gone
          wrote, taken, asked   \* bytes stored, removed, requested so far

ring    == <<buf, head, tail, count>>
sems    == <<nelem, nempty, read_serialize, write_serialize>>
ends    == <<nreaders, nwriters>>
threads == <<pc, size, done, ret, cur>>
totals  == <<wrote, taken, asked>>
vars    == <<ring, lefttowrite, ends, sems, threads, halted, totals>>

\* r* is a reader's label, w* a writer's.  Waiting: blocked in a down.
Reading == {"rser", "rtop", "relem", "rtake", "rdone"}
Writing == {"wser", "wtop", "wempty", "wput", "wdone"}
Waiting == {"rser", "relem", "wser", "wempty"}
Labels  == {"idle"} \cup Reading \cup Writing

\* The label at which a thread woken from a down goes on.
Resume(l) == CASE l = "rser"   -> "rtop"
               [] l = "relem"  -> "rtake"
               [] l = "wser"   -> "wtop"
               [] l = "wempty" -> "wput"

Readers == {p \in Procs : pc[p] \in Reading}
Writers == {p \in Procs : pc[p] \in Writing}

\* A process inside a call holds a descriptor, of either end, that stays open;
\* an idle one still has a descriptor when there are more than those.
Inside == {p \in Procs : pc[p] # "idle"}
SpareDescriptor == Cardinality(Inside) < nreaders + nwriters

Runs(t)   == ~halted /\ cur \in {t, NoThread}
Quiescent == /\ ~halted /\ cur = NoThread
             /\ \A t \in Procs : pc[t] \in Waiting \cup {"idle"}

\* Thread t goes to label l and w, if it is a thread, is woken.
Goto(t, l, w) ==
  /\ pc' = [u \in Procs |-> IF u = t THEN l
                            ELSE IF u = w THEN Resume(pc[u]) ELSE pc[u]]
  /\ cur' = IF l \in Waiting \cup {"idle"} THEN NoThread ELSE t

Wakes(w) == /\ pc' = [u \in Procs |-> IF u = w THEN Resume(pc[u]) ELSE pc[u]]
            /\ cur' = cur

AdvanceNoWrap(i) == i + 1
Advance(i) == (i + 1) % Size

\* The initial values of nempty and of the two serializing semaphores.
EmptySlotsMany == Size + 1
EmptySlotsFew  == Size - 1
EmptySlots == Size
SerializeCreditTwo == 2
SerializeCredit == 1

Init ==
  /\ buf = [i \in 0 .. Size - 1 |-> 0]
  /\ head = 0 /\ tail = 0 /\ count = 0
  /\ lefttowrite = -1
  /\ nreaders = 1 /\ nwriters = 1
  /\ nelem = NewSem(0) /\ nempty = NewSem(EmptySlots)
  /\ read_serialize = NewSem(SerializeCredit)
  /\ write_serialize = NewSem(SerializeCredit)
  /\ pc = [p \in Procs |-> "idle"]
  /\ size = [p \in Procs |-> 0]
  /\ done = [p \in Procs |-> 0]
  /\ ret = [p \in Procs |-> 0]
  /\ cur = NoThread
  /\ halted = FALSE
  /\ wrote = 0 /\ taken = 0 /\ asked = 0
-----------------------------------------------------------------------------
(* read(): do_read and io_buffer_read_exact                                *)

\* The writers are gone and the buffer is empty: read() returns 0.
ReadEof(t) ==
  /\ Quiescent /\ pc[t] = "idle"
  /\ SpareDescriptor
  /\ nwriters = 0 /\ count = 0
  /\ ret' = [ret EXCEPT ![t] = 0]
  /\ UNCHANGED <<ring, lefttowrite, ends, sems, pc, size, done, cur, halted, totals>>

ReadCall(t, n) ==
  /\ Quiescent /\ pc[t] = "idle"
  /\ SpareDescriptor
  /\ ~(nwriters = 0 /\ count = 0)
  /\ size' = [size EXCEPT ![t] = n]
  /\ done' = [done EXCEPT ![t] = 0]
  /\ ret'  = [ret EXCEPT ![t] = 0]
  /\ read_serialize' = Down(read_serialize, t)
  /\ Goto(t, IF CanDown(read_serialize) THEN "rtop" ELSE "rser", NoThread)
  /\ UNCHANGED <<ring, lefttowrite, ends, nelem, nempty, write_serialize, halted, totals>>

\* while (read < size) mt_sem_down(nelem)
ReadTop(t) ==
  /\ Runs(t) /\ pc[t] = "rtop"
  /\ IF done[t] < size[t]
       THEN /\ nelem' = Down(nelem, t)
            /\ Goto(t, IF CanDown(nelem) THEN "rtake" ELSE "relem", NoThread)
       ELSE /\ nelem' = nelem
            /\ Goto(t, "rdone", NoThread)
  /\ UNCHANGED <<ring, lefttowrite, ends, nempty, read_serialize, write_serialize,
                 size, done, ret, halted, totals>>

\* No character is left and no writer has more (lines 122-125).
DrainedEarlier == count = 0 /\ lefttowrite = 0
Drained == count - 1 = 0 /\ lefttowrite = 0

\* The body of the loop: take the character at head and V(nempty).
ReadTake(t) ==
  /\ Runs(t) /\ pc[t] = "rtake"
  /\ head'  = Advance(head)
  /\ count' = count - 1
  /\ taken' = taken + 1
  /\ done'  = [done EXCEPT ![t] = @ + 1]
  /\ ret' = [ret EXCEPT ![t] = IF buf[head] \in EofBytes THEN -1 ELSE done[t] + 1]
  /\ \E w \in Wakeable(nempty) :
       /\ nempty' = Up(nempty, w)
       /\ Goto(t, IF buf[head] \in EofBytes \/ Drained THEN "rdone" ELSE "rtop", w)
  /\ UNCHANGED <<buf, tail, lefttowrite, ends, nelem, read_serialize, write_serialize,
                 size, halted, wrote, asked>>

\* V(read_serialize) and syscall_return
ReadDone(t) ==
  /\ Runs(t) /\ pc[t] = "rdone"
  /\ \E w \in Wakeable(read_serialize) :
       /\ read_serialize' = Up(read_serialize, w)
       /\ Goto(t, "idle", w)
  /\ UNCHANGED <<ring, lefttowrite, ends, nelem, nempty, write_serialize,
                 size, done, ret, halted, totals>>
-----------------------------------------------------------------------------
(* write(): do_write and io_buffer_write                                   *)

\* lefttowrite is set before the writer owns the buffer.
WriteCall(t, n) ==
  /\ Quiescent /\ pc[t] = "idle"
  /\ SpareDescriptor
  /\ asked + n <= MaxBytes
  /\ asked' = asked + n
  /\ lefttowrite' = n
  /\ size' = [size EXCEPT ![t] = n]
  /\ done' = [done EXCEPT ![t] = 0]
  /\ ret'  = [ret EXCEPT ![t] = 0]
  /\ write_serialize' = Down(write_serialize, t)
  /\ Goto(t, IF CanDown(write_serialize) THEN "wtop" ELSE "wser", NoThread)
  /\ UNCHANGED <<ring, ends, nelem, nempty, read_serialize, halted, wrote, taken>>

\* while (write < size) mt_sem_down(nempty)
WriteTop(t) ==
  /\ Runs(t) /\ pc[t] = "wtop"
  /\ IF done[t] < size[t]
       THEN /\ nempty' = Down(nempty, t)
            /\ Goto(t, IF CanDown(nempty) THEN "wput" ELSE "wempty", NoThread)
       ELSE /\ nempty' = nempty
            /\ Goto(t, "wdone", NoThread)
  /\ UNCHANGED <<ring, lefttowrite, ends, nelem, read_serialize, write_serialize,
                 size, done, ret, halted, totals>>

\* The character is stored; then, with no reader left, exit(1), else V(nelem).
WritePut(t) ==
  /\ Runs(t) /\ pc[t] = "wput"
  /\ buf'  = [buf EXCEPT ![tail] = wrote]
  /\ tail' = Advance(tail)
  /\ count' = count + 1
  /\ lefttowrite' = lefttowrite - 1
  /\ wrote' = wrote + 1
  /\ done' = [done EXCEPT ![t] = @ + 1]
  /\ ret'  = [ret EXCEPT ![t] = done[t] + 1]
  /\ IF nreaders = 0
       THEN halted' = TRUE /\ UNCHANGED <<nelem, pc, cur>>
       ELSE /\ halted' = FALSE
            /\ \E w \in Wakeable(nelem) :
                 nelem' = Up(nelem, w) /\ Goto(t, "wtop", w)
  /\ UNCHANGED <<head, ends, nempty, read_serialize, write_serialize, size, taken, asked>>

\* V(write_serialize) and syscall_return
WriteDone(t) ==
  /\ Runs(t) /\ pc[t] = "wdone"
  /\ \E w \in Wakeable(write_serialize) :
       /\ write_serialize' = Up(write_serialize, w)
       /\ Goto(t, "idle", w)
  /\ UNCHANGED <<ring, lefttowrite, ends, nelem, nempty, read_serialize,
                 size, done, ret, halted, totals>>
-----------------------------------------------------------------------------
(* Descriptors                                                             *)

\* do_fork and do_dup2 add a descriptor of an end.
Share(e) ==
  /\ Quiescent /\ SpareDescriptor
  /\ \/ e = "r" /\ nreaders \in 1 .. MaxEnds - 1
        /\ nreaders' = nreaders + 1 /\ nwriters' = nwriters
     \/ e = "w" /\ nwriters \in 1 .. MaxEnds - 1
        /\ nwriters' = nwriters + 1 /\ nreaders' = nreaders
  /\ UNCHANGED <<ring, lefttowrite, sems, threads, halted, totals>>

LastReaderLate == nreaders = 0
LastReader == nreaders - 1 = 0

\* close_fd lowers nreaders; the last reader to go wakes a blocked writer.
CloseRead ==
  /\ Quiescent /\ "r" \in Closable
  /\ SpareDescriptor /\ nreaders > 0
  /\ nreaders' = nreaders - 1
  /\ IF LastReader
       THEN \E w \in Wakeable(nempty) : nempty' = Up(nempty, w) /\ Wakes(w)
       ELSE UNCHANGED <<nempty, pc, cur>>
  /\ UNCHANGED <<ring, lefttowrite, nwriters, nelem, read_serialize, write_serialize,
                 size, done, ret, halted, totals>>

\* ... and the last writer to go wakes a blocked reader, if readers remain.
CloseWrite ==
  /\ Quiescent /\ "w" \in Closable
  /\ SpareDescriptor /\ nwriters > 0
  /\ nwriters' = nwriters - 1
  /\ IF nwriters' = 0 /\ nreaders > 0
       THEN \E w \in Wakeable(nelem) : nelem' = Up(nelem, w) /\ Wakes(w)
       ELSE UNCHANGED <<nelem, pc, cur>>
  /\ UNCHANGED <<ring, lefttowrite, nreaders, nempty, read_serialize, write_serialize,
                 size, done, ret, halted, totals>>
-----------------------------------------------------------------------------
KernelStep(t) == \/ ReadTop(t)  \/ ReadTake(t) \/ ReadDone(t)
                 \/ WriteTop(t) \/ WritePut(t) \/ WriteDone(t)

Next == \/ \E t \in Procs : KernelStep(t)
        \/ \E t \in MayRead : ReadEof(t) \/ \E n \in 0 .. MaxReq : ReadCall(t, n)
        \/ \E t \in MayWrite, n \in 0 .. MaxReq : WriteCall(t, n)
        \/ \E e \in {"r", "w"} : Share(e)
        \/ CloseRead \/ CloseWrite

Spec == Init /\ [][Next]_vars

\* mt_joinall runs every kernel thread that can run before the next process.
FairSpec == Spec /\ \A t \in Procs : WF_vars(KernelStep(t))
-----------------------------------------------------------------------------
(* Properties                                                              *)

Sems == [credit : Nat, wait : SUBSET Procs]

\* Type correctness of the pipe: the indices stay inside the buffer.
TypeOK ==
  /\ buf \in [0 .. Size - 1 -> Nat]
  /\ head \in 0 .. Size - 1 /\ tail \in 0 .. Size - 1
  /\ count \in Int /\ lefttowrite \in Int
  /\ nreaders \in Nat /\ nwriters \in Nat
  /\ nelem \in Sems /\ nempty \in Sems
  /\ read_serialize \in Sems /\ write_serialize \in Sems
  /\ pc \in [Procs -> Labels]
  /\ size \in [Procs -> Nat] /\ done \in [Procs -> Nat] /\ ret \in [Procs -> Int]
  /\ cur \in Procs \cup {NoThread}
  /\ halted \in BOOLEAN
  /\ wrote \in Nat /\ taken \in Nat /\ asked \in Nat

\* The threads that own the read side and the write side of the buffer.
ReadOwners  == {p \in Procs : pc[p] \in Reading \ {"rser"}}
WriteOwners == {p \in Procs : pc[p] \in Writing \ {"wser"}}

\* read_serialize and write_serialize let one thread at a time at each end of
\* the buffer, whatever blocks, wakes or closes in between.
OneAtEachEnd == /\ \A p, q \in ReadOwners : p = q
                /\ \A p, q \in WriteOwners : p = q

\* The circular buffer holds the bytes stored and not yet removed, in order: no
\* byte is doubled, reordered or overwritten before its turn.  (taken counts the
\* place a reader passes over when the V of the last writer's close let it in.)
RingInOrder ==
  /\ count = wrote - taken
  /\ ~halted => count <= Size
  /\ ~halted => \A k \in 0 .. count - 1 : buf[(head + k) % Size] = taken + k

\* No thread sleeps through its condition: a reader waits for a character only
\* when there is none, a writer for room only when the buffer is full, and for
\* its turn only while another thread has it.
NoLostWakeup == ~halted =>
  /\ (\E p \in Procs : pc[p] = "relem")  => count <= 0
  /\ (\E p \in Procs : pc[p] = "wempty") => count = Size
  /\ (\E p \in Procs : pc[p] = "rser")   => ReadOwners # {}
  /\ (\E p \in Procs : pc[p] = "wser")   => WriteOwners # {}

\* What the channel sees of the pipe: the bytes in the ring, the serial number of
\* the next one, whether a place was passed over, and the ends that are open.
Bytes  == IF halted THEN << >> ELSE [i \in 1 .. count |-> buf[(head + i - 1) % Size]]
Serial == IF halted THEN 0 ELSE wrote
Owed   == ~halted /\ count < 0
OpenEnds == IF halted THEN {}
            ELSE {e \in {"r", "w"} : IF e = "r" THEN nreaders > 0 ELSE nwriters > 0}

\* The pipe carries bytes like the abstract channel (ByteChannel), whatever its
\* processes share and close and whichever end they read or write through: what
\* was written is read in order and only once, nothing is written once the readers
\* have closed, and only once the writers have closed can a reader take a byte
\* that nobody wrote, for which the next byte, if one is still written, is lost.
Channel == INSTANCE ByteChannel WITH
             queue <- Bytes, next <- Serial, owed <- Owed, open <- OpenEnds,
             Capacity <- Size
ImplementsChannel == Channel!Spec

\* A read that has got a character returns, while the pipe has readers: the writer
\* goes on, or has left lefttowrite at zero (io_buffer_read_exact line 122).  With
\* the read ends closed the next write ends SOS, whoever still reads through a
\* write descriptor.
ReadReturns == \A p \in Procs : (pc[p] \in Reading /\ done[p] > 0)
                                 ~> (pc[p] \notin Reading \/ nreaders = 0)

\* A writer with characters left and no reader comes to the test of nreaders
\* (io.c 149): the V(nempty) of the last close reaches it however it is blocked.
\* What the code does there, exit(1) of SOS where cook_book Step 10 has the process
\* killed, is not part of the claim.
BrokenPipeIsNoticed == \A p \in Procs :
  (nreaders = 0 /\ p \in WriteOwners /\ done[p] < size[p]) ~> (pc[p] = "wput")

\* cook_book Step 7: the readers blocked when the last writer goes return.
CloseReleasesReader == \A p \in Procs :
                         (nwriters = 0 /\ p \in Readers) ~> (p \notin Readers)
=============================================================================
