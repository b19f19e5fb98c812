----------------------------- MODULE SosConsole -----------------------------
(***************************************************************************)
(* Console input and output of SOS Lab 3 (io.c): the two kernel threads    *)
(* read_console_io and write_console_io, the buffers they share with the   *)
(* processes in read() and write(), and the two console interrupts.        *)
(*                                                                         *)
(* Kernel threads run one at a time, each until it blocks or ends (cur); an*)
(* interrupt is taken, and a process makes a call, only when no thread can *)
(* run.  The rings are queues here (SosPipe models their indices), and     *)
(* nempty of the input buffer, which nobody waits for, is left out.  The   *)
(* descriptors of the console stay open (SosFiles has their counts).       *)
(***************************************************************************)
EXTENDS MtSem, Sequences

CONSTANTS Readers, Writers,   \* the processes that read and that write
          InSize, OutSize,    \* elements of the two buffers (256 and 1)
          MaxReq,             \* most characters one call asks for
          MaxTyped            \* bound on the characters typed

ASSUME SosConsoleAssumption ==
  /\ Readers \cap Writers = {} /\ {"rc", "wc", NoThread} \cap (Readers \cup Writers) = {}
  /\ NoThread \notin {"rc", "wc"}
  /\ InSize \in Nat \ {0} /\ OutSize \in Nat \ {0}
  /\ MaxReq \in Nat /\ MaxTyped \in Nat

Procs   == Readers \cup Writers
Threads == Procs \cup {"rc", "wc"}       \* rc, wc: read_, write_console_io

\* newline, end of file (EOF, 255 or -1) and any other character
Chars == {"nl", "eof", "ch"}
Ends  == {"nl", "eof"}

VARIABLES inq, in_nelem, read_serialize, consoleWait, key, typed,
          outq, out_nelem, out_nempty, write_serialize, writeok, device,
          pc, cur, size, done, shown

input   == <<inq, in_nelem, read_serialize, consoleWait, key, typed>>
output  == <<outq, out_nelem, out_nempty, write_serialize, writeok, device, shown>>
vars    == <<input, output, pc, cur, size, done>>

\* The labels at which a thread is blocked, and where it goes on from there.
Resume == [rser |-> "rtop", relem |-> "rtake", wser |-> "wtop", wempty |-> "wput",
           wait |-> "get", elem |-> "put", ok |-> "top"]
Blocked == DOMAIN Resume
Reading == {"rser", "rtop", "relem", "rtake", "rdone"}
Writing == {"wser", "wtop", "wempty", "wput", "wdone"}

Runs(t)   == cur \in {t, NoThread}
Quiescent == cur = NoThread /\ \A t \in Threads : pc[t] \in Blocked \cup {"idle"}

\* Thread t goes to label l and wakes w, if w is a thread.
Goto(t, l, w) ==
  /\ pc' = [u \in Threads |-> IF u = t THEN l ELSE IF u = w THEN Resume[pc[u]] ELSE pc[u]]
  /\ cur' = IF l \in Blocked \cup {"idle"} THEN NoThread ELSE t
Wakes(w) ==
  /\ pc' = [u \in Threads |-> IF u = w THEN Resume[pc[u]] ELSE pc[u]]
  /\ cur' = cur

\* The values of nempty and of the serializing semaphores at the start.
OutSlots == OutSize
WriteCreditTwo == 2
WriteCredit == 1

\* shown: the last character sent to the console, as the call it is from, its
\* place in the call and the length of the call.
Init ==
  /\ inq = <<>> /\ in_nelem = NewSem(0) /\ read_serialize = NewSem(1)
  /\ consoleWait = NewSem(0) /\ key = "ch" /\ typed = 0
  /\ outq = <<>> /\ out_nelem = NewSem(0) /\ out_nempty = NewSem(OutSlots)
  /\ write_serialize = NewSem(WriteCredit) /\ writeok = NewSem(0) /\ device = "ready"
  /\ pc = [t \in Threads |-> IF t \in {"rc", "wc"} THEN "top" ELSE "idle"]
  /\ cur = NoThread
  /\ size = [p \in Procs |-> 0] /\ done = [p \in Procs |-> 0]
  /\ shown = [call |-> NoThread, at |-> 0, of |-> 0]
-----------------------------------------------------------------------------
(* Input                                                                   *)

ConsoleReadIntAnyTime(c) ==
  /\ typed < MaxTyped
  /\ typed' = typed + 1 /\ key' = c
  /\ \E w \in Wakeable(consoleWait) : consoleWait' = Up(consoleWait, w) /\ Wakes(w)
  /\ UNCHANGED <<inq, in_nelem, read_serialize, output, size, done>>

\* interruptHandler, ConsoleReadInt: a character was typed.
ConsoleReadInt(c) ==
  /\ Quiescent /\ typed < MaxTyped
  /\ typed' = typed + 1 /\ key' = c
  /\ \E w \in Wakeable(consoleWait) : consoleWait' = Up(consoleWait, w) /\ Wakes(w)
  /\ UNCHANGED <<inq, in_nelem, read_serialize, output, size, done>>

\* read_console_io: mt_sem_down(consoleWait)
RcTop ==
  /\ Runs("rc") /\ pc["rc"] = "top"
  /\ consoleWait' = Down(consoleWait, "rc")
  /\ Goto("rc", IF CanDown(consoleWait) THEN "get" ELSE "wait", NoThread)
  /\ UNCHANGED <<inq, in_nelem, read_serialize, key, typed, output, size, done>>

\* ... console_read(), and the character is stored or thrown away.
RoomAlways(q) == TRUE
Room(q) == Len(q) < InSize
RcGetUpsAlways ==
  /\ Runs("rc") /\ pc["rc"] = "get"
  /\ inq' = IF Room(inq) THEN Append(inq, key) ELSE inq
  /\ \E w \in Wakeable(in_nelem) : in_nelem' = Up(in_nelem, w) /\ Goto("rc", "top", w)
  /\ UNCHANGED <<read_serialize, consoleWait, key, typed, output, size, done>>
RcGet ==
  /\ Runs("rc") /\ pc["rc"] = "get"
  /\ IF Room(inq)
       THEN /\ inq' = Append(inq, key)
            /\ \E w \in Wakeable(in_nelem) :
                 in_nelem' = Up(in_nelem, w) /\ Goto("rc", "top", w)
       ELSE UNCHANGED <<inq, in_nelem>> /\ Goto("rc", "top", NoThread)
  /\ UNCHANGED <<read_serialize, consoleWait, key, typed, output, size, done>>

\* do_read and io_buffer_read
ReadCall(p, n) ==
  /\ Quiescent /\ pc[p] = "idle"
  /\ size' = [size EXCEPT ![p] = n] /\ done' = [done EXCEPT ![p] = 0]
  /\ read_serialize' = Down(read_serialize, p)
  /\ Goto(p, IF CanDown(read_serialize) THEN "rtop" ELSE "rser", NoThread)
  /\ UNCHANGED <<inq, in_nelem, consoleWait, key, typed, output>>

ReadTop(p) ==
  /\ Runs(p) /\ pc[p] = "rtop"
  /\ IF done[p] < size[p]
       THEN /\ in_nelem' = Down(in_nelem, p)
            /\ Goto(p, IF CanDown(in_nelem) THEN "rtake" ELSE "relem", NoThread)
       ELSE UNCHANGED in_nelem /\ Goto(p, "rdone", NoThread)
  /\ UNCHANGED <<inq, read_serialize, consoleWait, key, typed, output, size, done>>

\* The line ends with a newline or the end of file.
StopsNever(c) == FALSE
Stops(c) == c \in Ends

ReadTake(p) ==
  /\ Runs(p) /\ pc[p] = "rtake"
  /\ inq' = Tail(inq)
  /\ done' = [done EXCEPT ![p] = @ + 1]
  /\ Goto(p, IF Stops(Head(inq)) THEN "rdone" ELSE "rtop", NoThread)
  /\ UNCHANGED <<in_nelem, read_serialize, consoleWait, key, typed, output, size>>

ReadDone(p) ==
  /\ Runs(p) /\ pc[p] = "rdone"
  /\ \E w \in Wakeable(read_serialize) :
       read_serialize' = Up(read_serialize, w) /\ Goto(p, "idle", w)
  /\ UNCHANGED <<inq, in_nelem, consoleWait, key, typed, output, size, done>>
-----------------------------------------------------------------------------
(* Output                                                                  *)

\* do_write and io_buffer_write
WriteCall(p, n) ==
  /\ Quiescent /\ pc[p] = "idle"
  /\ size' = [size EXCEPT ![p] = n] /\ done' = [done EXCEPT ![p] = 0]
  /\ write_serialize' = Down(write_serialize, p)
  /\ Goto(p, IF CanDown(write_serialize) THEN "wtop" ELSE "wser", NoThread)
  /\ UNCHANGED <<input, outq, out_nelem, out_nempty, writeok, device, shown>>

WriteTop(p) ==
  /\ Runs(p) /\ pc[p] = "wtop"
  /\ IF done[p] < size[p]
       THEN /\ out_nempty' = Down(out_nempty, p)
            /\ Goto(p, IF CanDown(out_nempty) THEN "wput" ELSE "wempty", NoThread)
       ELSE UNCHANGED out_nempty /\ Goto(p, "wdone", NoThread)
  /\ UNCHANGED <<input, outq, out_nelem, write_serialize, writeok, device, shown, size, done>>

WritePut(p) ==
  /\ Runs(p) /\ pc[p] = "wput"
  /\ outq' = Append(outq, [call |-> p, at |-> done[p] + 1, of |-> size[p]])
  /\ done' = [done EXCEPT ![p] = @ + 1]
  /\ \E w \in Wakeable(out_nelem) : out_nelem' = Up(out_nelem, w) /\ Goto(p, "wtop", w)
  /\ UNCHANGED <<input, out_nempty, write_serialize, writeok, device, shown, size>>

WriteDone(p) ==
  /\ Runs(p) /\ pc[p] = "wdone"
  /\ \E w \in Wakeable(write_serialize) :
       write_serialize' = Up(write_serialize, w) /\ Goto(p, "idle", w)
  /\ UNCHANGED <<input, outq, out_nelem, out_nempty, writeok, device, shown, size, done>>

\* write_console_io: mt_sem_down(nelem)
WcTop ==
  /\ Runs("wc") /\ pc["wc"] = "top"
  /\ out_nelem' = Down(out_nelem, "wc")
  /\ Goto("wc", IF CanDown(out_nelem) THEN "put" ELSE "elem", NoThread)
  /\ UNCHANGED <<input, outq, out_nempty, write_serialize, writeok, device, shown, size, done>>

\* ... console_write(), the V of nempty, and the wait for the device.
WcPutNoWait ==
  /\ Runs("wc") /\ pc["wc"] = "put"
  /\ shown' = Head(outq) /\ outq' = Tail(outq) /\ device' = "busy"
  /\ writeok' = writeok
  /\ \E w \in Wakeable(out_nempty) : out_nempty' = Up(out_nempty, w) /\ Goto("wc", "top", w)
  /\ UNCHANGED <<input, out_nelem, write_serialize, size, done>>
WcPut ==
  /\ Runs("wc") /\ pc["wc"] = "put"
  /\ shown' = Head(outq) /\ outq' = Tail(outq) /\ device' = "busy"
  /\ writeok' = Down(writeok, "wc")
  /\ \E w \in Wakeable(out_nempty) :
       /\ out_nempty' = Up(out_nempty, w)
       /\ Goto("wc", IF CanDown(writeok) THEN "top" ELSE "ok", w)
  /\ UNCHANGED <<input, out_nelem, write_serialize, size, done>>

ConsoleWriteIntLost ==
  /\ Quiescent /\ device = "busy"
  /\ device' = "ready" /\ UNCHANGED <<writeok, pc, cur>>
  /\ UNCHANGED <<input, outq, out_nelem, out_nempty, write_serialize, shown, size, done>>

\* interruptHandler, ConsoleWriteInt: the console can take another character.
ConsoleWriteInt ==
  /\ Quiescent /\ device = "busy"
  /\ device' = "ready"
  /\ \E w \in Wakeable(writeok) : writeok' = Up(writeok, w) /\ Wakes(w)
  /\ UNCHANGED <<input, outq, out_nelem, out_nempty, write_serialize, shown, size, done>>
-----------------------------------------------------------------------------
Thread(t) == \/ t = "rc" /\ (RcTop \/ RcGet)
             \/ t = "wc" /\ (WcTop \/ WcPut)
             \/ t \in Readers /\ (ReadTop(t) \/ ReadTake(t) \/ ReadDone(t))
             \/ t \in Writers /\ (WriteTop(t) \/ WritePut(t) \/ WriteDone(t))

Next == \/ \E t \in Threads : Thread(t)
        \/ \E c \in Chars : ConsoleReadInt(c)
        \/ ConsoleWriteInt
        \/ \E n \in 0 .. MaxReq : \/ \E p \in Readers : ReadCall(p, n)
                                  \/ \E p \in Writers : WriteCall(p, n)

Spec == Init /\ [][Next]_vars

\* mt_joinall runs every thread that can run; the console finishes what it
\* was given, and its interrupt stays pending until no thread can run, which
\* may be for a moment only.  Nobody has to type.
FairSpec == /\ Spec /\ SF_vars(ConsoleWriteInt)
            /\ \A t \in Threads : WF_vars(Thread(t))
-----------------------------------------------------------------------------
(* Properties                                                              *)

Sems == [credit : Nat, wait : SUBSET Threads]
Labels == {"idle", "top", "get", "put"} \cup Blocked \cup Reading \cup Writing

\* Type correctness; the buffers never hold more than they have room for.
TypeOK ==
  /\ inq \in Seq(Chars) /\ Len(inq) <= InSize /\ Len(outq) <= OutSize
  /\ {in_nelem, read_serialize, consoleWait, out_nelem, out_nempty,
      write_serialize, writeok} \subseteq Sems
  /\ key \in Chars /\ typed \in Nat /\ device \in {"ready", "busy"}
  /\ pc \in [Threads -> Labels] /\ cur \in Threads \cup {NoThread}
  /\ size \in [Procs -> Nat] /\ done \in [Procs -> Nat]

\* What two processes write does not mix on the console: a character follows
\* its neighbour of the same call, or starts a call after the last character
\* of another, although the writer blocks for every character.
WritesAreWhole ==
  [][shown' # shown =>
       \/ shown'.call = shown.call /\ shown'.at = shown.at + 1
       \/ shown'.at = 1 /\ shown.at = shown.of]_vars

\* console_write() is never called before the console is ready for it.
DeviceIsReady == pc["wc"] = "put" => device = "ready"

\* The character of one interrupt is taken before the next interrupt comes:
\* the thread that reads the console never falls behind, full buffer or not.
KeyIsTaken == [][typed' # typed => consoleWait.credit = 0 /\ pc["rc"] # "get"]_vars

\* nelem is the number of characters in the buffer nobody is about to take,
\* so a process that sleeps in read() sleeps on an empty buffer.
CharsAreCounted ==
  /\ Len(inq) = in_nelem.credit
       + (IF \E p \in Readers : pc[p] = "rtake" THEN 1 ELSE 0)
  /\ (\E p \in Readers : pc[p] = "relem") => inq = <<>>

\* Every write() to the console returns, whatever the others write and read.
WritesReturn == \A p \in Writers : pc[p] \in Writing ~> pc[p] = "idle"

\* The process that is reading returns once a line end is in the buffer.
LineEndsRead ==
  \A p \in Readers :
    (pc[p] \in Reading \ {"rser"} /\ \E i \in 1 .. Len(inq) : inq[i] \in Ends)
       ~> pc[p] = "idle"
=============================================================================
