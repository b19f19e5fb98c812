------------------------- MODULE SosConsole_proofs -------------------------
(***************************************************************************)
(* For any processes, buffers and calls: the two rings of the console with *)
(* the threads that block on them.  The input and the output share only    *)
(* the scheduler, so each has an invariant of its own, which the steps of  *)
(* the other leave alone.                                                  *)
(***************************************************************************)
EXTENDS SosConsole, SequenceTheorems, TLAPS

Ins  == Readers \cup {"rc"}
Outs == Writers \cup {"wc"}

\* Semaphore s with the threads of T that are at label l, by the labels P.
Waits(s, P, T, l) == /\ s \in Sems /\ s.wait = {t \in T : P[t] = l}
                     /\ s.wait # {} => s.credit = 0

\* A semaphore that is free exactly when nobody owns what it guards.
Guards(s, owners) == /\ s.credit = (IF owners = {} THEN 1 ELSE 0)
                     /\ \A p, q \in owners : p = q

ReadOwners  == {p \in Readers : pc[p] \in Reading \ {"rser"}}
WriteOwners == {p \in Writers : pc[p] \in Writing \ {"wser"}}

\* Who came through a down() of nelem or nempty and holds a credit.
AtTake == IF \E p \in Readers : pc[p] = "rtake" THEN 1 ELSE 0
AtPut  == IF \E p \in Writers : pc[p] = "wput" THEN 1 ELSE 0
AtShow == IF pc["wc"] = "put" THEN 1 ELSE 0

Common == /\ pc \in [Threads -> Labels] /\ cur \in Threads \cup {NoThread}
          /\ size \in [Procs -> Nat] /\ done \in [Procs -> Nat]

InLabels == /\ pc["rc"] \in {"top", "get", "wait"}
            /\ \A p \in Readers : pc[p] \in Reading \cup {"idle"}
InQueues == /\ Waits(consoleWait, pc, Ins, "wait") /\ Waits(in_nelem, pc, Ins, "relem")
            /\ Waits(read_serialize, pc, Ins, "rser")
InCounts == Len(inq) = in_nelem.credit + AtTake
InInv == /\ inq \in Seq(Chars) /\ Len(inq) <= InSize /\ key \in Chars /\ typed \in Nat
         /\ InLabels /\ InQueues /\ InCounts /\ Guards(read_serialize, ReadOwners)

OutLabels == /\ pc["wc"] \in {"top", "put", "elem", "ok"}
             /\ \A p \in Writers : pc[p] \in Writing \cup {"idle"}
OutQueues == /\ Waits(out_nelem, pc, Outs, "elem") /\ Waits(out_nempty, pc, Outs, "wempty")
             /\ Waits(writeok, pc, Outs, "ok") /\ Waits(write_serialize, pc, Outs, "wser")
OutCounts == /\ Len(outq) = out_nelem.credit + AtShow
             /\ Len(outq) + out_nempty.credit + AtPut = OutSize

\* The device is busy exactly while write_console_io waits for its interrupt.
Device == /\ writeok.credit = 0 /\ device \in {"ready", "busy"}
          /\ device = "busy" <=> pc["wc"] = "ok"

\* How far a write() is.
Progress == \A p \in Writers : /\ pc[p] = "wser" => done[p] = 0
                               /\ pc[p] \in {"wput", "wempty"} => done[p] < size[p]
                               /\ pc[p] \in Writing => done[p] <= size[p]
                               /\ pc[p] = "wdone" => done[p] = size[p]

\* Character b may come after a; the buffer holds such a chain from the character
\* that is shown to the last one of the process that writes.
Items == [call : Threads \cup {NoThread}, at : Nat, of : Nat]
Follows(a, b) == \/ b.call = a.call /\ b.at = a.at + 1
                 \/ b.at = 1 /\ a.at = a.of
LastItem(a, q) == IF q = <<>> THEN a ELSE q[Len(q)]
Chain(a, q) == /\ q # <<>> => Follows(a, q[1])
               /\ \A i \in 1 .. Len(q) - 1 : Follows(q[i], q[i + 1])
Whole(i) == i.at = i.of
Text == /\ shown \in Items /\ outq \in Seq(Items) /\ Chain(shown, outq)
        /\ \A p \in WriteOwners :
             IF done[p] = 0 THEN Whole(LastItem(shown, outq))
             ELSE LastItem(shown, outq) = [call |-> p, at |-> done[p], of |-> size[p]]
        /\ WriteOwners = {} => Whole(LastItem(shown, outq))

OutInv == /\ OutLabels /\ OutQueues /\ OutCounts /\ Device /\ Progress /\ Text
          /\ Guards(write_serialize, WriteOwners)

IInv == Common /\ InInv /\ OutInv
-----------------------------------------------------------------------------
(* Semaphores and labels.                                                  *)

\* mt_sem_down by t, which is queued at l when there is no credit: d is what it leaves.
DownIs(s, d) == /\ CanDown(s) => s.credit > 0 /\ d.credit = s.credit - 1
                /\ ~CanDown(s) => s.credit = 0 /\ d.credit = 0

LEMMA QueueDown ==
  ASSUME NEW T \in SUBSET Threads, NEW l, NEW P, NEW Q, NEW s, NEW t \in T,
         Waits(s, P, T, l), P[t] # l,
         Q[t] = l <=> ~CanDown(s), \A u \in T \ {t} : Q[u] = P[u]
  PROVE  Waits(Down(s, t), Q, T, l) /\ DownIs(s, Down(s, t))
<1>1. CASE CanDown(s) BY <1>1 DEF Waits, Down, CanDown, Sems, DownIs
<1>2. CASE ~CanDown(s) BY <1>2 DEF Waits, Down, CanDown, Sems, DownIs
<1> QED BY <1>1, <1>2

\* Whom mt_sem_up may wake: a thread that waits at l, or nobody when none does.
WokenIs(T, l, P, s, w) ==
  \/ /\ w = NoThread /\ s.wait = {} /\ Up(s, w).credit = s.credit + 1
  \/ /\ w \in T /\ w \in Threads /\ w # NoThread /\ P[w] = l
     /\ Up(s, w).credit = s.credit /\ s.credit = 0

LEMMA Woken ==
  ASSUME NEW T \in SUBSET Threads, NEW l, NEW P, NEW s, Waits(s, P, T, l),
         NEW w \in Wakeable(s)
  PROVE  WokenIs(T, l, P, s, w)
BY SosConsoleAssumption DEF Waits, Wakeable, Up, Sems, Threads, Procs, WokenIs

LEMMA QueueUp ==
  ASSUME NEW T \in SUBSET Threads, NEW l, NEW P, NEW Q, NEW s, Waits(s, P, T, l),
         NEW w \in Wakeable(s),
         \A u \in T : Q[u] = l <=> P[u] = l /\ u # w
  PROVE  Waits(Up(s, w), Q, T, l)
<1>1. NoThread \notin T BY SosConsoleAssumption DEF Threads, Procs
<1>2. CASE w = NoThread BY <1>1, <1>2 DEF Waits, Wakeable, Up, Sems
<1>3. CASE w # NoThread BY <1>1, <1>3 DEF Waits, Wakeable, Up, Sems
<1> QED BY <1>2, <1>3

LEMMA WaitsKept ==
  ASSUME NEW T, NEW l, NEW P, NEW Q, NEW s, Waits(s, P, T, l),
         \A u \in T : Q[u] = l <=> P[u] = l
  PROVE  Waits(s, Q, T, l)
BY DEF Waits

\* Who is who.
LEMMA Names ==
  /\ Ins \in SUBSET Threads /\ Outs \in SUBSET Threads /\ Ins \cap Outs = {}
  /\ Threads = Ins \cup Outs /\ NoThread \notin Threads
  /\ "rc" \in Ins /\ "wc" \in Outs /\ "rc" \notin Readers /\ "wc" \notin Writers
  /\ Readers \subseteq Ins /\ Writers \subseteq Outs
  /\ Readers \subseteq Procs /\ Writers \subseteq Procs
BY SosConsoleAssumption DEF Ins, Outs, Threads, Procs

LEMMA ResumeFacts ==
  /\ Resume["rser"] = "rtop" /\ Resume["relem"] = "rtake"
  /\ Resume["wser"] = "wtop" /\ Resume["wempty"] = "wput"
  /\ Resume["wait"] = "get" /\ Resume["elem"] = "put" /\ Resume["ok"] = "top"
  /\ Blocked = {"rser", "relem", "wser", "wempty", "wait", "elem", "ok"}
BY DEF Resume, Blocked

\* Only t, and w if it is a thread, change their labels.
LEMMA GotoFacts ==
  ASSUME Common, NEW t \in Threads, NEW l \in Labels,
         NEW w, w = NoThread \/ (w \in Threads /\ pc[w] \in Blocked),
         Goto(t, l, w)
  PROVE  /\ pc' \in [Threads -> Labels] /\ cur' \in Threads \cup {NoThread}
         /\ pc'[t] = l
         /\ \A u \in Threads \ {t} : pc'[u] = IF u = w THEN Resume[pc[u]] ELSE pc[u]
<1>1. \A k \in Blocked : Resume[k] \in Labels
  BY ResumeFacts DEF Labels, Reading, Writing
<1>2. /\ pc' = [u \in Threads |-> IF u = t THEN l ELSE IF u = w THEN Resume[pc[u]] ELSE pc[u]]
      /\ cur' \in {NoThread, t} /\ NoThread \notin Threads
  BY Names DEF Goto
<1>3. pc' \in [Threads -> Labels] BY <1>1, <1>2 DEF Common
<1> QED BY <1>2, <1>3

LEMMA GotoAlone ==
  ASSUME Common, NEW t \in Threads, NEW l \in Labels, Goto(t, l, NoThread)
  PROVE  /\ pc' \in [Threads -> Labels] /\ cur' \in Threads \cup {NoThread}
         /\ pc'[t] = l /\ \A u \in Threads \ {t} : pc'[u] = pc[u]
BY Names DEF Goto, Common

LEMMA WakesFacts ==
  ASSUME Common, NEW w, w = NoThread \/ (w \in Threads /\ pc[w] \in Blocked), Wakes(w)
  PROVE  /\ pc' \in [Threads -> Labels] /\ cur' = cur
         /\ \A u \in Threads : pc'[u] = IF u = w THEN Resume[pc[u]] ELSE pc[u]
<1>1. \A k \in Blocked : Resume[k] \in Labels
  BY ResumeFacts DEF Labels, Reading, Writing
<1>2. NoThread \notin Threads BY Names
<1> QED BY <1>1, <1>2 DEF Wakes, Common

\* A step of the one side leaves the other alone.
LEMMA InKept ==
  ASSUME IInv, UNCHANGED input, \A t \in Ins : pc'[t] = pc[t]
  PROVE  InInv'
<1>1. ReadOwners' = ReadOwners /\ AtTake' = AtTake
  BY Names DEF ReadOwners, AtTake
<1>2. InLabels' BY Names DEF IInv, InInv, InLabels
<1>3. InQueues' BY WaitsKept DEF IInv, InInv, InQueues, input
<1> QED BY <1>1, <1>2, <1>3 DEF IInv, InInv, InCounts, input

LEMMA OutKept ==
  ASSUME IInv, UNCHANGED output, \A t \in Outs : pc'[t] = pc[t],
         \A p \in Writers : done'[p] = done[p] /\ size'[p] = size[p]
  PROVE  OutInv'
<1>1. WriteOwners' = WriteOwners /\ AtPut' = AtPut /\ AtShow' = AtShow
      /\ WriteOwners \subseteq Writers
  BY Names DEF WriteOwners, AtPut, AtShow
<1>2. OutLabels' /\ Progress' BY Names DEF IInv, OutInv, OutLabels, Progress
<1>3. OutQueues' BY WaitsKept DEF IInv, OutInv, OutQueues, output
<1>4. Device' BY Names DEF IInv, OutInv, Device, output
<1>5. Text' BY <1>1 DEF IInv, OutInv, Text, output
<1> QED BY <1>1, <1>2, <1>3, <1>4, <1>5 DEF IInv, OutInv, OutCounts, output
-----------------------------------------------------------------------------
(* The steps of the input.                                                 *)

\* What has to be shown of a step of the input, once the labels are known.
LEMMA InStep ==
  ASSUME IInv, pc' \in [Threads -> Labels], cur' \in Threads \cup {NoThread},
         size' \in [Procs -> Nat], done' \in [Procs -> Nat],
         UNCHANGED output, \A t \in Outs : pc'[t] = pc[t],
         \A p \in Writers : done'[p] = done[p] /\ size'[p] = size[p],
         InInv'
  PROVE  IInv'
BY OutKept DEF IInv, Common

\* A key is typed: read_console_io has taken the one before.
LEMMA ConsoleReadIntStep ==
  ASSUME IInv, NEW c \in Chars, ConsoleReadInt(c)
  PROVE  IInv' /\ pc["rc"] = "wait" /\ consoleWait.credit = 0
<1>1. PICK w \in Wakeable(consoleWait) : consoleWait' = Up(consoleWait, w) /\ Wakes(w)
  BY DEF ConsoleReadInt
<1>2. /\ Quiescent /\ typed' = typed + 1 /\ key' = c
      /\ UNCHANGED <<inq, in_nelem, read_serialize, output, size, done>>
  BY DEF ConsoleReadInt
<1>3. pc["rc"] = "wait"
  BY <1>2, Names, ResumeFacts DEF Quiescent, IInv, InInv, InLabels
<1>4. Waits(consoleWait, pc, Ins, "wait") BY DEF IInv, InInv, InQueues
<1>5. "rc" \in consoleWait.wait /\ consoleWait.credit = 0
  BY <1>3, <1>4, Names DEF Waits
<1>6. w \in Ins /\ pc[w] = "wait" /\ w \in Threads
  BY <1>1, <1>4, <1>5, Names DEF Waits, Wakeable
<1>7. w = "rc"
  <2>1. \A p \in Readers : pc[p] # "wait" BY DEF IInv, InInv, InLabels, Reading
  <2> QED BY <1>6, <2>1 DEF Ins
<1>8. /\ pc' \in [Threads -> Labels] /\ cur' = cur
      /\ \A u \in Threads : pc'[u] = IF u = "rc" THEN "get" ELSE pc[u]
  BY <1>1, <1>3, <1>7, Names, ResumeFacts, WakesFacts DEF IInv
<1>9. InInv'
  <2>1. ReadOwners' = ReadOwners /\ AtTake' = AtTake
    BY <1>8, Names DEF ReadOwners, AtTake
  <2>2. InLabels' BY <1>8, Names DEF IInv, InInv, InLabels
  <2>3. Waits(consoleWait', pc', Ins, "wait")
    BY <1>1, <1>3, <1>4, <1>7, <1>8, Names, QueueUp
  <2>4. Waits(in_nelem', pc', Ins, "relem") /\ Waits(read_serialize', pc', Ins, "rser")
    BY <1>2, <1>3, <1>8, Names, WaitsKept DEF IInv, InInv, InQueues
  <2> QED BY <1>2, <2>1, <2>2, <2>3, <2>4 DEF IInv, InInv, InCounts, InQueues
<1>10. IInv'
  <2>1. "rc" \notin Outs /\ Outs \subseteq Threads BY Names
  <2> QED BY <1>2, <1>8, <1>9, <2>1, InStep DEF IInv, Common
<1> QED BY <1>3, <1>5, <1>10

\* read_console_io asks for the next key.
LEMMA RcTopStep == ASSUME IInv, RcTop PROVE IInv'
<1> DEFINE l == IF CanDown(consoleWait) THEN "get" ELSE "wait"
<1>1. /\ pc["rc"] = "top" /\ consoleWait' = Down(consoleWait, "rc")
      /\ Goto("rc", l, NoThread)
      /\ UNCHANGED <<inq, in_nelem, read_serialize, key, typed, output, size, done>>
  BY DEF RcTop
<1>2. l \in Labels BY ResumeFacts DEF Labels
<1>3. /\ pc' \in [Threads -> Labels] /\ cur' \in Threads \cup {NoThread} /\ pc'["rc"] = l
      /\ \A u \in Threads \ {"rc"} : pc'[u] = pc[u]
  <2>1. "rc" \in Threads /\ Common BY Names DEF IInv
  <2> HIDE DEF l
  <2> QED BY <1>1, <1>2, <2>1, GotoAlone
<1>4. \A u \in Ins \ {"rc"} : pc'[u] = pc[u] BY <1>3, Names
<1>5. InInv'
  <2>1. ReadOwners' = ReadOwners /\ AtTake' = AtTake
    BY <1>4, Names DEF ReadOwners, AtTake
  <2>2. InLabels' BY <1>3, <1>4, Names DEF IInv, InInv, InLabels
  <2>3. Waits(consoleWait', pc', Ins, "wait")
    <3>1. Waits(consoleWait, pc, Ins, "wait") BY DEF IInv, InInv, InQueues
    <3> QED BY <1>1, <1>3, <1>4, <3>1, Names, QueueDown
  <2>4. Waits(in_nelem', pc', Ins, "relem") /\ Waits(read_serialize', pc', Ins, "rser")
    BY <1>1, <1>3, <1>4, Names, WaitsKept DEF IInv, InInv, InQueues
  <2> QED BY <1>1, <2>1, <2>2, <2>3, <2>4 DEF IInv, InInv, InCounts, InQueues
<1>6. "rc" \notin Outs /\ Outs \subseteq Threads BY Names
<1> QED BY <1>1, <1>3, <1>5, <1>6, InStep DEF IInv, Common

\* Readers own the buffer one at a time.
LEMMA OneReader ==
  ASSUME IInv, NEW p \in Readers, pc[p] \in Reading \ {"rser"}
  PROVE  /\ ReadOwners = {p} /\ read_serialize.credit = 0
         /\ \A q \in Readers \ {p} : pc[q] \in {"idle", "rser"}
         /\ AtTake = IF pc[p] = "rtake" THEN 1 ELSE 0
<1>1. p \in ReadOwners BY DEF ReadOwners
<1>2. ReadOwners = {p} /\ read_serialize.credit = 0
  BY <1>1 DEF IInv, InInv, Guards
<1>3. \A q \in Readers \ {p} : pc[q] \in {"idle", "rser"}
  BY <1>2 DEF ReadOwners, IInv, InInv, InLabels
<1> QED BY <1>2, <1>3 DEF AtTake

\* read_console_io stores the key, if there is room, and wakes the reader.
LEMMA RcGetStep == ASSUME IInv, RcGet PROVE IInv'
<1>1. /\ pc["rc"] = "get"
      /\ UNCHANGED <<read_serialize, consoleWait, key, typed, output, size, done>>
  BY DEF RcGet
<1>2. /\ inq \in Seq(Chars) /\ Len(inq) \in Nat /\ key \in Chars /\ typed \in Nat
      /\ in_nelem \in Sems /\ in_nelem.credit \in Nat
  BY LenProperties DEF IInv, InInv, InQueues, Waits, Sems
<1>3. "rc" \notin Outs /\ Outs \subseteq Threads /\ "rc" \in Threads BY Names
<1>4. "top" \in Labels BY DEF Labels
<1>5. CASE Room(inq)
  <2>1. PICK w \in Wakeable(in_nelem) : in_nelem' = Up(in_nelem, w) /\ Goto("rc", "top", w)
    BY <1>5 DEF RcGet
  <2>2. inq' = Append(inq, key) BY <1>5 DEF RcGet
  <2>3. Ins \in SUBSET Threads /\ Waits(in_nelem, pc, Ins, "relem")
    BY Names DEF IInv, InInv, InQueues
  <2>4. WokenIs(Ins, "relem", pc, in_nelem, w) BY <2>1, <2>3, Woken
  <2>5. w = NoThread \/ (w \in Readers /\ w \in Threads /\ pc[w] = "relem" /\ w # NoThread)
    BY <1>1, <2>4 DEF Ins, WokenIs
  <2>6. /\ pc' \in [Threads -> Labels] /\ cur' \in Threads \cup {NoThread}
        /\ pc'["rc"] = "top"
        /\ \A u \in Threads \ {"rc"} : pc'[u] = IF u = w THEN "rtake" ELSE pc[u]
    <3>1. w = NoThread \/ (w \in Threads /\ pc[w] \in Blocked) BY <2>5, ResumeFacts
    <3>2. /\ pc' \in [Threads -> Labels] /\ cur' \in Threads \cup {NoThread}
          /\ pc'["rc"] = "top"
          /\ \A u \in Threads \ {"rc"} : pc'[u] = IF u = w THEN Resume[pc[u]] ELSE pc[u]
      BY <1>3, <1>4, <2>1, <3>1, GotoFacts DEF IInv
    <3> QED BY <2>5, <3>2, Names, ResumeFacts
  <2>7. \A u \in Readers : u \in Threads \ {"rc"} BY Names
  <2>8. ReadOwners' = ReadOwners
    <3>1. \A u \in Readers : pc'[u] \in Reading \ {"rser"} <=> pc[u] \in Reading \ {"rser"}
      BY <2>5, <2>6, <2>7, Names DEF Reading
    <3> QED BY <3>1 DEF ReadOwners
  <2>9. in_nelem'.credit + AtTake' = in_nelem.credit + AtTake + 1
    <3>1. CASE w = NoThread
      <4>1. AtTake' = AtTake BY <2>6, <2>7, <3>1, Names DEF AtTake
      <4>2. AtTake \in {0, 1} BY DEF AtTake
      <4> QED BY <1>2, <2>1, <2>4, <3>1, <4>1, <4>2 DEF WokenIs
    <3>2. CASE w # NoThread
      <4>1. AtTake = 0 BY <2>5, <3>2, OneReader DEF Reading
      <4>2. AtTake' = 1 BY <2>5, <2>6, <2>7, <3>2 DEF AtTake
      <4>3. in_nelem'.credit = in_nelem.credit BY <2>1, <2>4, <3>2 DEF WokenIs
      <4> QED BY <1>2, <4>1, <4>2, <4>3
    <3> QED BY <3>1, <3>2
  <2>10. InLabels' BY <2>5, <2>6, <2>7 DEF IInv, InInv, InLabels, Reading
  <2>11. InQueues'
    <3>1. \A u \in Ins : pc'[u] = "relem" <=> pc[u] = "relem" /\ u # w
      BY <1>1, <2>5, <2>6, Names DEF Ins
    <3>2. Waits(in_nelem', pc', Ins, "relem") BY <2>1, <2>3, <3>1, QueueUp
    <3>3. \A u \in Ins : /\ pc'[u] = "wait" <=> pc[u] = "wait"
                         /\ pc'[u] = "rser" <=> pc[u] = "rser"
      BY <1>1, <2>5, <2>6, Names DEF Ins
    <3>4. Waits(consoleWait, pc', Ins, "wait") /\ Waits(read_serialize, pc', Ins, "rser")
      BY <3>3, WaitsKept DEF IInv, InInv, InQueues
    <3> QED BY <1>1, <3>2, <3>4 DEF InQueues
  <2>12. inq' \in Seq(Chars) /\ Len(inq') = Len(inq) + 1
    BY <1>2, <2>2, AppendProperties
  <2>13. Len(inq') <= InSize
    BY <1>2, <1>5, <2>12, SosConsoleAssumption DEF Room
  <2>14. InInv'
    <3>1. InCounts'
      <4>1. AtTake \in {0, 1} /\ AtTake' \in {0, 1} BY DEF AtTake
      <4>2. in_nelem'.credit \in Nat BY <1>2, <2>1, <2>4 DEF WokenIs
      <4> QED BY <1>2, <2>9, <2>12, <4>1, <4>2 DEF IInv, InInv, InCounts
    <3> QED BY <1>1, <1>2, <2>8, <2>10, <2>11, <2>12, <2>13, <3>1 DEF IInv, InInv
  <2>15. \A t \in Outs : pc'[t] = pc[t]
    BY <1>3, <2>5, <2>6, Names
  <2> QED BY <1>1, <2>6, <2>14, <2>15, InStep DEF IInv, Common
<1>6. CASE ~Room(inq)
  <2>1. UNCHANGED <<inq, in_nelem>> /\ Goto("rc", "top", NoThread) BY <1>6 DEF RcGet
  <2>2. /\ pc' \in [Threads -> Labels] /\ cur' \in Threads \cup {NoThread}
        /\ pc'["rc"] = "top" /\ \A u \in Threads \ {"rc"} : pc'[u] = pc[u]
    BY <1>3, <1>4, <2>1, GotoAlone DEF IInv
  <2>3. \A u \in Readers : pc'[u] = pc[u] BY <2>2, Names
  <2>4. ReadOwners' = ReadOwners /\ AtTake' = AtTake BY <2>3 DEF ReadOwners, AtTake
  <2>5. InLabels' BY <2>2, <2>3 DEF IInv, InInv, InLabels
  <2>6. InQueues'
    <3>1. \A u \in Ins : \A l \in {"wait", "relem", "rser"} : pc'[u] = l <=> pc[u] = l
      BY <1>1, <2>2, <2>3 DEF Ins
    <3> QED BY <1>1, <2>1, <3>1, WaitsKept DEF IInv, InInv, InQueues
  <2>7. InInv' BY <1>1, <2>1, <2>4, <2>5, <2>6 DEF IInv, InInv, InCounts
  <2>8. \A t \in Outs : pc'[t] = pc[t] BY <1>3, <2>2
  <2> QED BY <1>1, <2>2, <2>7, <2>8, InStep DEF IInv, Common
<1> QED BY <1>5, <1>6

\* A read() queues up for the buffer.
LEMMA ReadCallStep ==
  ASSUME IInv, NEW p \in Readers, NEW n \in 0 .. MaxReq, ReadCall(p, n) PROVE IInv'
<1> DEFINE l == IF CanDown(read_serialize) THEN "rtop" ELSE "rser"
<1>1. /\ pc[p] = "idle" /\ size' = [size EXCEPT ![p] = n] /\ done' = [done EXCEPT ![p] = 0]
      /\ read_serialize' = Down(read_serialize, p) /\ Goto(p, l, NoThread)
      /\ UNCHANGED <<inq, in_nelem, consoleWait, key, typed, output>>
  BY DEF ReadCall
<1>2. /\ p \in Threads /\ p \in Ins /\ p \notin Outs /\ p \in Procs /\ p \notin Writers
      /\ Outs \subseteq Threads /\ "rc" \in Threads \ {p} /\ Readers \subseteq Threads
      /\ Ins \in SUBSET Threads
  BY Names DEF Procs
<1>3. l \in Labels BY DEF Labels, Reading, Writing
<1>4. Waits(read_serialize, pc, Ins, "rser") BY DEF IInv, InInv, InQueues
<1>5. (l = "rser" <=> ~CanDown(read_serialize)) /\ l \in {"rtop", "rser"} OBVIOUS
<1> HIDE DEF l
<1>6. /\ pc' \in [Threads -> Labels] /\ cur' \in Threads \cup {NoThread}
      /\ pc'[p] = l /\ \A u \in Threads \ {p} : pc'[u] = pc[u]
  BY <1>1, <1>2, <1>3, GotoAlone DEF IInv
<1>7. /\ Waits(read_serialize', pc', Ins, "rser")
      /\ l = "rtop" => read_serialize.credit > 0
                       /\ read_serialize'.credit = read_serialize.credit - 1
      /\ l = "rser" => read_serialize.credit = 0 /\ read_serialize'.credit = 0
  <2>1. \A u \in Ins \ {p} : pc'[u] = pc[u] BY <1>2, <1>6
  <2>2. /\ Waits(Down(read_serialize, p), pc', Ins, "rser")
        /\ DownIs(read_serialize, Down(read_serialize, p))
    BY <1>1, <1>2, <1>4, <1>5, <1>6, <2>1, QueueDown
  <2> QED BY <1>1, <1>5, <2>2 DEF DownIs
<1>8. ReadOwners' = IF l = "rtop" THEN ReadOwners \cup {p} ELSE ReadOwners
  BY <1>1, <1>2, <1>5, <1>6 DEF ReadOwners, Reading
<1>9. AtTake' = AtTake BY <1>1, <1>2, <1>5, <1>6 DEF AtTake
<1>10. Guards(read_serialize', ReadOwners')
  <2>1. Guards(read_serialize, ReadOwners) BY DEF IInv, InInv
  <2> QED BY <1>5, <1>7, <1>8, <2>1 DEF Guards
<1>11. InLabels' BY <1>2, <1>5, <1>6 DEF IInv, InInv, InLabels, Reading
<1>12. InQueues'
  <2>1. \A u \in Ins : \A k \in {"wait", "relem"} : pc'[u] = k <=> pc[u] = k
    BY <1>1, <1>2, <1>5, <1>6
  <2>2. Waits(consoleWait, pc', Ins, "wait") /\ Waits(in_nelem, pc', Ins, "relem")
    BY <2>1, WaitsKept DEF IInv, InInv, InQueues
  <2> QED BY <1>1, <1>7, <2>2 DEF InQueues
<1>13. InInv' BY <1>1, <1>9, <1>10, <1>11, <1>12 DEF IInv, InInv, InCounts
<1>14. size' \in [Procs -> Nat] /\ done' \in [Procs -> Nat]
  <2>1. n \in Nat BY SosConsoleAssumption
  <2> QED BY <1>1, <2>1 DEF IInv, Common
<1>15. \A q \in Writers : done'[q] = done[q] /\ size'[q] = size[q]
  BY <1>1, <1>2, Names DEF IInv, Common
<1>16. \A t \in Outs : pc'[t] = pc[t] BY <1>2, <1>6
<1> QED BY <1>1, <1>6, <1>13, <1>14, <1>15, <1>16, InStep

\* What a reader that owns the buffer and stays in io_buffer_read or leaves the
\* loop does to the labels of the others: nothing.
LEMMA ReaderMoves ==
  ASSUME IInv, NEW p \in Readers, NEW l \in {"rtop", "relem", "rtake", "rdone"},
         pc[p] \in Reading \ {"rser", "relem"}, Goto(p, l, NoThread)
  PROVE  /\ pc' \in [Threads -> Labels] /\ cur' \in Threads \cup {NoThread} /\ pc'[p] = l
         /\ \A u \in Threads \ {p} : pc'[u] = pc[u]
         /\ p \in Threads /\ p \in Ins /\ p \in Procs /\ p \notin Writers
         /\ \A t \in Outs : pc'[t] = pc[t]
         /\ InLabels' /\ ReadOwners' = ReadOwners
         /\ AtTake = (IF pc[p] = "rtake" THEN 1 ELSE 0)
         /\ AtTake' = (IF l = "rtake" THEN 1 ELSE 0)
         /\ Waits(consoleWait, pc', Ins, "wait") /\ Waits(read_serialize, pc', Ins, "rser")
         /\ l # "relem" => Waits(in_nelem, pc', Ins, "relem")
<1>1. /\ p \in Threads /\ p \in Ins /\ p \notin Outs /\ p \in Procs /\ p \notin Writers
      /\ Outs \subseteq Threads /\ "rc" \in Threads \ {p} /\ Readers \subseteq Threads
      /\ Ins \in SUBSET Threads
  BY Names DEF Procs
<1>2. l \in Labels BY DEF Labels, Reading, Writing, Blocked, Resume
<1>3. /\ pc' \in [Threads -> Labels] /\ cur' \in Threads \cup {NoThread}
      /\ pc'[p] = l /\ \A u \in Threads \ {p} : pc'[u] = pc[u]
  BY <1>1, <1>2, GotoAlone DEF IInv
<1>4. \A t \in Outs : pc'[t] = pc[t] BY <1>1, <1>3
<1>5. InLabels' BY <1>1, <1>3 DEF IInv, InInv, InLabels, Reading
<1>6. ReadOwners' = ReadOwners BY <1>1, <1>3 DEF ReadOwners, Reading
<1>7. /\ AtTake = (IF pc[p] = "rtake" THEN 1 ELSE 0)
      /\ \A q \in Readers \ {p} : pc[q] \in {"idle", "rser"}
  BY OneReader
<1>8. AtTake' = (IF l = "rtake" THEN 1 ELSE 0) BY <1>1, <1>3, <1>7 DEF AtTake
<1>9. \A u \in Ins : /\ \A k \in {"wait", "rser"} : pc'[u] = k <=> pc[u] = k
                     /\ l # "relem" => (pc'[u] = "relem" <=> pc[u] = "relem")
  BY <1>1, <1>3 DEF Reading
<1>10. Waits(consoleWait, pc', Ins, "wait") /\ Waits(read_serialize, pc', Ins, "rser")
  BY <1>9, WaitsKept DEF IInv, InInv, InQueues
<1>11. l # "relem" => Waits(in_nelem, pc', Ins, "relem")
  BY <1>9, WaitsKept DEF IInv, InInv, InQueues
<1> QED BY <1>1, <1>3, <1>4, <1>5, <1>6, <1>7, <1>8, <1>10, <1>11

\* The loop of io_buffer_read waits for a character.
LEMMA ReadTopStep == ASSUME IInv, NEW p \in Readers, ReadTop(p) PROVE IInv'
<1>1. /\ pc[p] = "rtop" /\ pc[p] \in Reading \ {"rser", "relem"}
      /\ UNCHANGED <<inq, read_serialize, consoleWait, key, typed, output, size, done>>
  BY DEF ReadTop, Reading
<1> SUFFICES InInv' /\ pc' \in [Threads -> Labels] /\ cur' \in Threads \cup {NoThread}
             /\ \A t \in Outs : pc'[t] = pc[t]
  BY <1>1, InStep DEF IInv, Common
<1>2. CASE done[p] < size[p]
  <2> DEFINE l == IF CanDown(in_nelem) THEN "rtake" ELSE "relem"
  <2>1. in_nelem' = Down(in_nelem, p) /\ Goto(p, l, NoThread) BY <1>2 DEF ReadTop
  <2>2. l \in {"rtake", "relem"} /\ (l = "relem" <=> ~CanDown(in_nelem)) OBVIOUS
  <2> HIDE DEF l
  <2>3. l \in {"rtop", "relem", "rtake", "rdone"} BY <2>2
  <2>4. /\ pc' \in [Threads -> Labels] /\ cur' \in Threads \cup {NoThread} /\ pc'[p] = l
        /\ \A u \in Threads \ {p} : pc'[u] = pc[u]
        /\ p \in Threads /\ p \in Ins /\ \A t \in Outs : pc'[t] = pc[t]
        /\ InLabels' /\ ReadOwners' = ReadOwners /\ AtTake = 0
        /\ AtTake' = (IF l = "rtake" THEN 1 ELSE 0)
        /\ Waits(consoleWait, pc', Ins, "wait") /\ Waits(read_serialize, pc', Ins, "rser")
    BY <1>1, <2>1, <2>3, ReaderMoves
  <2>5. Ins \in SUBSET Threads /\ Waits(in_nelem, pc, Ins, "relem")
    BY Names DEF IInv, InInv, InQueues
  <2>6. \A u \in Ins \ {p} : pc'[u] = pc[u] BY <2>4, <2>5
  <2>7. Waits(Down(in_nelem, p), pc', Ins, "relem") /\ DownIs(in_nelem, Down(in_nelem, p))
    BY <1>1, <2>2, <2>4, <2>5, <2>6, QueueDown
  <2>8. InCounts'
    <3>1. in_nelem.credit \in Nat BY <2>5 DEF Waits, Sems
    <3>2. Len(inq) = in_nelem.credit BY <2>4, <3>1 DEF IInv, InInv, InCounts
    <3>3. in_nelem'.credit + AtTake' = in_nelem.credit BY <2>1, <2>2, <2>4, <2>7, <3>1 DEF DownIs
    <3> QED BY <1>1, <3>2, <3>3 DEF InCounts
  <2>9. InQueues' BY <1>1, <2>1, <2>4, <2>7 DEF InQueues
  <2>10. InInv' BY <1>1, <2>4, <2>8, <2>9 DEF IInv, InInv
  <2> QED BY <2>4, <2>10
<1>3. CASE ~(done[p] < size[p])
  <2>1. UNCHANGED in_nelem /\ Goto(p, "rdone", NoThread) BY <1>3 DEF ReadTop
  <2>2. /\ pc' \in [Threads -> Labels] /\ cur' \in Threads \cup {NoThread}
        /\ \A t \in Outs : pc'[t] = pc[t]
        /\ InLabels' /\ ReadOwners' = ReadOwners /\ AtTake = 0 /\ AtTake' = 0
        /\ Waits(consoleWait, pc', Ins, "wait") /\ Waits(read_serialize, pc', Ins, "rser")
        /\ Waits(in_nelem, pc', Ins, "relem")
    BY <1>1, <2>1, ReaderMoves
  <2>3. InQueues' BY <1>1, <2>1, <2>2 DEF InQueues
  <2>4. InInv' BY <1>1, <2>1, <2>2, <2>3 DEF IInv, InInv, InCounts
  <2> QED BY <2>2, <2>4
<1> QED BY <1>2, <1>3

\* The character it waited for is there.
LEMMA ReadTakeStep == ASSUME IInv, NEW p \in Readers, ReadTake(p) PROVE IInv'
<1> DEFINE l == IF Stops(Head(inq)) THEN "rdone" ELSE "rtop"
<1>1. /\ pc[p] = "rtake" /\ pc[p] \in Reading \ {"rser", "relem"}
      /\ inq' = Tail(inq) /\ done' = [done EXCEPT ![p] = @ + 1] /\ Goto(p, l, NoThread)
      /\ UNCHANGED <<in_nelem, read_serialize, consoleWait, key, typed, output, size>>
  BY DEF ReadTake, Reading
<1>2. l \in {"rtop", "rdone"} OBVIOUS
<1> HIDE DEF l
<1>3. l \in {"rtop", "relem", "rtake", "rdone"} BY <1>2
<1>4. /\ pc' \in [Threads -> Labels] /\ cur' \in Threads \cup {NoThread}
      /\ p \in Procs /\ p \notin Writers /\ \A t \in Outs : pc'[t] = pc[t]
      /\ InLabels' /\ ReadOwners' = ReadOwners /\ AtTake = 1 /\ AtTake' = 0
      /\ Waits(consoleWait, pc', Ins, "wait") /\ Waits(read_serialize, pc', Ins, "rser")
      /\ Waits(in_nelem, pc', Ins, "relem")
  BY <1>1, <1>2, <1>3, ReaderMoves
<1>5. inq \in Seq(Chars) /\ in_nelem.credit \in Nat /\ Len(inq) = in_nelem.credit + 1
      /\ Len(inq) <= InSize
  BY <1>4 DEF IInv, InInv, InQueues, Waits, Sems, InCounts
<1>6. inq # <<>> BY <1>5, EmptySeq
<1>7. inq' \in Seq(Chars) /\ Len(inq') = Len(inq) - 1 BY <1>1, <1>5, <1>6, HeadTailProperties
<1>8. InInv'
  <2>1. InCounts' BY <1>1, <1>4, <1>5, <1>7 DEF InCounts
  <2>2. InQueues' BY <1>1, <1>4 DEF InQueues
  <2>3. Len(inq') <= InSize BY <1>5, <1>7, SosConsoleAssumption
  <2> QED BY <1>1, <1>4, <1>7, <2>1, <2>2, <2>3 DEF IInv, InInv
<1>9. done' \in [Procs -> Nat] /\ \A q \in Writers : done'[q] = done[q]
  BY <1>1, <1>4, Names DEF IInv, Common
<1> QED BY <1>1, <1>4, <1>8, <1>9, InStep DEF IInv, Common

\* The read() returns and hands the buffer to the next reader.
LEMMA ReadDoneStep == ASSUME IInv, NEW p \in Readers, ReadDone(p) PROVE IInv'
<1>1. PICK w \in Wakeable(read_serialize) :
        read_serialize' = Up(read_serialize, w) /\ Goto(p, "idle", w)
  BY DEF ReadDone
<1>2. /\ pc[p] = "rdone"
      /\ UNCHANGED <<inq, in_nelem, consoleWait, key, typed, output, size, done>>
  BY DEF ReadDone
<1>3. /\ p \in Threads /\ p \in Ins /\ p \notin Outs /\ Outs \subseteq Threads
      /\ "rc" \in Threads \ {p} /\ Readers \subseteq Threads /\ Ins \in SUBSET Threads
      /\ "rc" \notin Readers /\ NoThread \notin Threads
  BY Names
<1>4. Waits(read_serialize, pc, Ins, "rser") BY DEF IInv, InInv, InQueues
<1>5. WokenIs(Ins, "rser", pc, read_serialize, w) BY <1>1, <1>3, <1>4, Woken
<1>6. w = NoThread \/ (w \in Readers /\ w \in Threads /\ pc[w] = "rser" /\ w # NoThread)
  BY <1>5 DEF Ins, IInv, InInv, InLabels, WokenIs
<1>7. /\ pc' \in [Threads -> Labels] /\ cur' \in Threads \cup {NoThread} /\ pc'[p] = "idle"
      /\ \A u \in Threads \ {p} : pc'[u] = IF u = w THEN "rtop" ELSE pc[u]
  <2>1. (w = NoThread \/ (w \in Threads /\ pc[w] \in Blocked)) /\ "idle" \in Labels
    BY <1>6, ResumeFacts DEF Labels
  <2>2. /\ pc' \in [Threads -> Labels] /\ cur' \in Threads \cup {NoThread}
        /\ pc'[p] = "idle"
        /\ \A u \in Threads \ {p} : pc'[u] = IF u = w THEN Resume[pc[u]] ELSE pc[u]
    BY <1>1, <1>3, <2>1, GotoFacts DEF IInv
  <2> QED BY <1>3, <1>6, <2>2, ResumeFacts
<1>8. /\ ReadOwners = {p} /\ read_serialize.credit = 0 /\ AtTake = 0
      /\ \A q \in Readers \ {p} : pc[q] \in {"idle", "rser"}
  BY <1>2, OneReader DEF Reading
<1>9. ReadOwners' = IF w = NoThread THEN {} ELSE {w}
  BY <1>2, <1>3, <1>6, <1>7, <1>8 DEF ReadOwners, Reading
<1>10. AtTake' = 0 BY <1>3, <1>7, <1>8 DEF AtTake
<1>11. Guards(read_serialize', ReadOwners') BY <1>1, <1>5, <1>8, <1>9 DEF Guards, WokenIs
<1>12. InLabels' BY <1>3, <1>6, <1>7 DEF IInv, InInv, InLabels, Reading
<1>13. InQueues'
  <2>1. \A u \in Ins : pc'[u] = "rser" <=> pc[u] = "rser" /\ u # w
    BY <1>2, <1>3, <1>6, <1>7
  <2>2. Waits(read_serialize', pc', Ins, "rser") BY <1>1, <1>3, <1>4, <2>1, QueueUp
  <2>3. \A u \in Ins : \A k \in {"wait", "relem"} : pc'[u] = k <=> pc[u] = k
    BY <1>2, <1>3, <1>6, <1>7
  <2>4. Waits(consoleWait, pc', Ins, "wait") /\ Waits(in_nelem, pc', Ins, "relem")
    BY <2>3, WaitsKept DEF IInv, InInv, InQueues
  <2> QED BY <1>2, <2>2, <2>4 DEF InQueues
<1>14. InInv' BY <1>2, <1>8, <1>10, <1>11, <1>12, <1>13 DEF IInv, InInv, InCounts
<1>15. \A t \in Outs : pc'[t] = pc[t] BY <1>3, <1>6, <1>7, Names
<1> QED BY <1>2, <1>7, <1>14, <1>15, InStep DEF IInv, Common
-----------------------------------------------------------------------------
(* The steps of the output.                                                *)

LEMMA OutStep ==
  ASSUME IInv, pc' \in [Threads -> Labels], cur' \in Threads \cup {NoThread},
         size' \in [Procs -> Nat], done' \in [Procs -> Nat],
         UNCHANGED input, \A t \in Ins : pc'[t] = pc[t], OutInv'
  PROVE  IInv'
BY InKept DEF IInv, Common

\* Writers own the buffer one at a time.
LEMMA OneWriter ==
  ASSUME IInv, NEW p \in Writers, pc[p] \in Writing \ {"wser"}
  PROVE  /\ WriteOwners = {p} /\ write_serialize.credit = 0
         /\ \A q \in Writers \ {p} : pc[q] \in {"idle", "wser"}
         /\ AtPut = IF pc[p] = "wput" THEN 1 ELSE 0
<1>1. p \in WriteOwners BY DEF WriteOwners
<1>2. WriteOwners = {p} /\ write_serialize.credit = 0
  BY <1>1 DEF IInv, OutInv, Guards
<1>3. \A q \in Writers \ {p} : pc[q] \in {"idle", "wser"}
  BY <1>2 DEF WriteOwners, IInv, OutInv, OutLabels
<1> QED BY <1>2, <1>3 DEF AtPut

LEMMA TextKept ==
  ASSUME IInv, UNCHANGED <<shown, outq>>, WriteOwners' = WriteOwners,
         \A p \in WriteOwners : done'[p] = done[p] /\ size'[p] = size[p]
  PROVE  Text'
BY DEF IInv, OutInv, Text

\* A write() queues up for the buffer.
LEMMA WriteCallStep ==
  ASSUME IInv, NEW p \in Writers, NEW n \in 0 .. MaxReq, WriteCall(p, n) PROVE IInv'
<1> DEFINE l == IF CanDown(write_serialize) THEN "wtop" ELSE "wser"
<1>1. /\ pc[p] = "idle" /\ size' = [size EXCEPT ![p] = n] /\ done' = [done EXCEPT ![p] = 0]
      /\ write_serialize' = Down(write_serialize, p) /\ Goto(p, l, NoThread)
      /\ UNCHANGED <<input, outq, out_nelem, out_nempty, writeok, device, shown>>
  BY DEF WriteCall
<1>2. /\ p \in Threads /\ p \in Outs /\ p \notin Ins /\ p \in Procs
      /\ Ins \subseteq Threads /\ "wc" \in Threads \ {p} /\ Writers \subseteq Threads
      /\ Outs \in SUBSET Threads
  BY Names DEF Procs
<1>3. l \in Labels BY DEF Labels, Reading, Writing
<1>4. Waits(write_serialize, pc, Outs, "wser") BY DEF IInv, OutInv, OutQueues
<1>5. (l = "wser" <=> ~CanDown(write_serialize)) /\ l \in {"wtop", "wser"} OBVIOUS
<1> HIDE DEF l
<1>6. /\ pc' \in [Threads -> Labels] /\ cur' \in Threads \cup {NoThread}
      /\ pc'[p] = l /\ \A u \in Threads \ {p} : pc'[u] = pc[u]
  BY <1>1, <1>2, <1>3, GotoAlone DEF IInv
<1>7. /\ Waits(write_serialize', pc', Outs, "wser")
      /\ l = "wtop" => write_serialize.credit > 0
                       /\ write_serialize'.credit = write_serialize.credit - 1
      /\ l = "wser" => write_serialize.credit = 0 /\ write_serialize'.credit = 0
  <2>1. \A u \in Outs \ {p} : pc'[u] = pc[u] BY <1>2, <1>6
  <2>2. /\ Waits(Down(write_serialize, p), pc', Outs, "wser")
        /\ DownIs(write_serialize, Down(write_serialize, p))
    BY <1>1, <1>2, <1>4, <1>5, <1>6, <2>1, QueueDown
  <2> QED BY <1>1, <1>5, <2>2 DEF DownIs
<1>8. WriteOwners' = IF l = "wtop" THEN WriteOwners \cup {p} ELSE WriteOwners
  BY <1>1, <1>2, <1>5, <1>6 DEF WriteOwners, Writing
<1>9. AtPut' = AtPut /\ AtShow' = AtShow
  BY <1>1, <1>2, <1>5, <1>6 DEF AtPut, AtShow
<1>10. Guards(write_serialize, WriteOwners) BY DEF IInv, OutInv
<1>11. Guards(write_serialize', WriteOwners') BY <1>5, <1>7, <1>8, <1>10 DEF Guards
<1>12. OutLabels' BY <1>2, <1>5, <1>6 DEF IInv, OutInv, OutLabels, Writing
<1>13. OutQueues'
  <2>1. \A u \in Outs : \A k \in {"elem", "wempty", "ok"} : pc'[u] = k <=> pc[u] = k
    BY <1>1, <1>2, <1>5, <1>6
  <2>2. /\ Waits(out_nelem, pc', Outs, "elem") /\ Waits(out_nempty, pc', Outs, "wempty")
        /\ Waits(writeok, pc', Outs, "ok")
    BY <2>1, WaitsKept DEF IInv, OutInv, OutQueues
  <2> QED BY <1>1, <1>7, <2>2 DEF OutQueues
<1>14. /\ size' \in [Procs -> Nat] /\ done' \in [Procs -> Nat]
       /\ size'[p] = n /\ done'[p] = 0 /\ n \in Nat
       /\ \A q \in Writers \ {p} : size'[q] = size[q] /\ done'[q] = done[q]
  <2>1. n \in Nat BY SosConsoleAssumption
  <2> QED BY <1>1, <1>2, <2>1, Names DEF IInv, Common
<1>15. Progress'
  <2>1. \A q \in Writers \ {p} : pc'[q] = pc[q] BY <1>2, <1>6
  <2> QED BY <1>5, <1>6, <1>14, <2>1 DEF IInv, OutInv, Progress, Writing
<1>16. Text'
  <2>1. WriteOwners \subseteq Writers \ {p} BY <1>1 DEF WriteOwners, Writing
  <2>2. CASE l = "wser"
    BY <1>1, <1>8, <1>14, <2>1, <2>2, TextKept
  <2>3. CASE l = "wtop"
    <3>1. WriteOwners = {} /\ WriteOwners' = {p}
      BY <1>7, <1>8, <1>10, <2>3 DEF Guards
    <3>2. Whole(LastItem(shown, outq)) BY <3>1 DEF IInv, OutInv, Text
    <3> QED BY <1>1, <1>14, <3>1, <3>2 DEF IInv, OutInv, Text
  <2> QED BY <1>5, <2>2, <2>3
<1>17. Device' BY <1>1, <1>2, <1>6 DEF IInv, OutInv, Device
<1>18. OutInv'
  BY <1>1, <1>9, <1>11, <1>12, <1>13, <1>15, <1>16, <1>17 DEF IInv, OutInv, OutCounts
<1>19. \A t \in Ins : pc'[t] = pc[t] BY <1>2, <1>6
<1> QED BY <1>1, <1>6, <1>14, <1>18, <1>19, OutStep

\* What a writer that owns the buffer and stays in io_buffer_write or leaves the
\* loop does to the labels: w is nobody, or write_console_io that waits for a character.
LEMMA WriterMoves ==
  ASSUME IInv, NEW p \in Writers, NEW l \in {"wtop", "wempty", "wput", "wdone"},
         pc[p] \in Writing \ {"wser", "wempty"},
         NEW w, w = NoThread \/ (w = "wc" /\ pc[w] = "elem"), Goto(p, l, w)
  PROVE  /\ pc' \in [Threads -> Labels] /\ cur' \in Threads \cup {NoThread} /\ pc'[p] = l
         /\ \A u \in Writers \ {p} : pc'[u] = pc[u]
         /\ pc'["wc"] = IF w = "wc" THEN "put" ELSE pc["wc"]
         /\ p \in Threads /\ p \in Outs /\ p \in Procs
         /\ \A t \in Ins : pc'[t] = pc[t]
         /\ OutLabels' /\ WriteOwners = {p} /\ WriteOwners' = {p}
         /\ Guards(write_serialize, WriteOwners')
         /\ AtPut = (IF pc[p] = "wput" THEN 1 ELSE 0)
         /\ AtPut' = (IF l = "wput" THEN 1 ELSE 0)
         /\ Waits(writeok, pc', Outs, "ok") /\ Waits(write_serialize, pc', Outs, "wser")
         /\ w = NoThread => Waits(out_nelem, pc', Outs, "elem")
         /\ l # "wempty" => Waits(out_nempty, pc', Outs, "wempty")
         /\ pc'["wc"] = "ok" <=> pc["wc"] = "ok"
<1>1. /\ p \in Threads /\ p \in Outs /\ p \notin Ins /\ p \in Procs
      /\ Ins \subseteq Threads /\ "wc" \in Threads \ {p} /\ Writers \subseteq Threads
      /\ Outs \in SUBSET Threads /\ "wc" \notin Writers /\ "wc" \notin Ins
      /\ NoThread \notin Threads
  BY Names DEF Procs
<1>2. l \in Labels BY DEF Labels, Reading, Writing, Blocked, Resume
<1>3. /\ pc' \in [Threads -> Labels] /\ cur' \in Threads \cup {NoThread} /\ pc'[p] = l
      /\ \A u \in Threads \ {p} : pc'[u] = IF u = w THEN "put" ELSE pc[u]
  <2>1. w = NoThread \/ (w \in Threads /\ pc[w] \in Blocked) BY <1>1, ResumeFacts
  <2>2. /\ pc' \in [Threads -> Labels] /\ cur' \in Threads \cup {NoThread} /\ pc'[p] = l
        /\ \A u \in Threads \ {p} : pc'[u] = IF u = w THEN Resume[pc[u]] ELSE pc[u]
    BY <1>1, <1>2, <2>1, GotoFacts DEF IInv
  <2> QED BY <1>1, <2>2, ResumeFacts
<1>4. /\ \A u \in Writers \ {p} : pc'[u] = pc[u]
      /\ pc'["wc"] = IF w = "wc" THEN "put" ELSE pc["wc"]
      /\ \A t \in Ins : pc'[t] = pc[t]
  BY <1>1, <1>3
<1>5. OutLabels' BY <1>3, <1>4 DEF IInv, OutInv, OutLabels, Writing
<1>6. /\ AtPut = (IF pc[p] = "wput" THEN 1 ELSE 0) /\ WriteOwners = {p}
      /\ \A q \in Writers \ {p} : pc[q] \in {"idle", "wser"}
  BY OneWriter
<1>7. WriteOwners' = {p} BY <1>3, <1>4, <1>6 DEF WriteOwners, Writing
<1>8. AtPut' = (IF l = "wput" THEN 1 ELSE 0) BY <1>3, <1>4, <1>6 DEF AtPut
<1>9. \A u \in Outs : /\ \A k \in {"ok", "wser"} : pc'[u] = k <=> pc[u] = k
                      /\ l # "wempty" => (pc'[u] = "wempty" <=> pc[u] = "wempty")
                      /\ w = NoThread => (pc'[u] = "elem" <=> pc[u] = "elem")
  BY <1>1, <1>3 DEF Writing
<1>10. Waits(writeok, pc', Outs, "ok") /\ Waits(write_serialize, pc', Outs, "wser")
  BY <1>9, WaitsKept DEF IInv, OutInv, OutQueues
<1>11. l # "wempty" => Waits(out_nempty, pc', Outs, "wempty")
  BY <1>9, WaitsKept DEF IInv, OutInv, OutQueues
<1>12. w = NoThread => Waits(out_nelem, pc', Outs, "elem")
  BY <1>9, WaitsKept DEF IInv, OutInv, OutQueues
<1>13. Guards(write_serialize, WriteOwners') BY <1>6, <1>7 DEF IInv, OutInv
<1>14. pc'["wc"] = "ok" <=> pc["wc"] = "ok"
  <2>1. CASE w = "wc"
    <3>1. pc["wc"] = "elem" /\ pc'["wc"] = "put" BY <1>1, <1>4, <2>1
    <3> QED BY <3>1
  <2>2. CASE w # "wc" BY <1>4, <2>2
  <2> QED BY <2>1, <2>2
<1> QED BY <1>1, <1>3, <1>4, <1>5, <1>6, <1>7, <1>8, <1>10, <1>11, <1>12, <1>13, <1>14

\* The loop of io_buffer_write waits for a place.
LEMMA WriteTopStep == ASSUME IInv, NEW p \in Writers, WriteTop(p) PROVE IInv'
<1>1. /\ pc[p] = "wtop" /\ pc[p] \in Writing \ {"wser", "wempty"}
      /\ UNCHANGED <<input, outq, out_nelem, write_serialize, writeok, device, shown, size, done>>
  BY DEF WriteTop, Writing
<1> SUFFICES OutInv' /\ pc' \in [Threads -> Labels] /\ cur' \in Threads \cup {NoThread}
             /\ \A t \in Ins : pc'[t] = pc[t]
  BY <1>1, OutStep DEF IInv, Common
<1>2. p \in Procs /\ done[p] \in Nat /\ size[p] \in Nat /\ done[p] <= size[p]
  BY <1>1, Names DEF IInv, Common, OutInv, Progress
<1>3. CASE done[p] < size[p]
  <2> DEFINE l == IF CanDown(out_nempty) THEN "wput" ELSE "wempty"
  <2>1. out_nempty' = Down(out_nempty, p) /\ Goto(p, l, NoThread) BY <1>3 DEF WriteTop
  <2>2. l \in {"wput", "wempty"} /\ (l = "wempty" <=> ~CanDown(out_nempty)) OBVIOUS
  <2> HIDE DEF l
  <2>3. l \in {"wtop", "wempty", "wput", "wdone"} BY <2>2
  <2>4. NoThread # "wc" BY Names
  <2>5. /\ pc' \in [Threads -> Labels] /\ cur' \in Threads \cup {NoThread} /\ pc'[p] = l
        /\ \A u \in Writers \ {p} : pc'[u] = pc[u]
        /\ pc'["wc"] = pc["wc"]
        /\ p \in Threads /\ p \in Outs /\ \A t \in Ins : pc'[t] = pc[t]
        /\ OutLabels' /\ WriteOwners = {p} /\ WriteOwners' = {p}
        /\ Guards(write_serialize, WriteOwners')
        /\ AtPut = 0 /\ AtPut' = (IF l = "wput" THEN 1 ELSE 0)
        /\ Waits(writeok, pc', Outs, "ok") /\ Waits(write_serialize, pc', Outs, "wser")
        /\ Waits(out_nelem, pc', Outs, "elem")
    BY <1>1, <2>1, <2>3, <2>4, WriterMoves
  <2>6. Outs \in SUBSET Threads /\ Waits(out_nempty, pc, Outs, "wempty")
    BY Names DEF IInv, OutInv, OutQueues
  <2>7. \A u \in Outs \ {p} : pc'[u] = pc[u] BY <2>5 DEF Outs
  <2>8. /\ Waits(Down(out_nempty, p), pc', Outs, "wempty")
        /\ DownIs(out_nempty, Down(out_nempty, p))
    BY <1>1, <2>2, <2>5, <2>6, <2>7, QueueDown
  <2>9. OutCounts'
    <3>1. out_nempty.credit \in Nat /\ AtShow' = AtShow
      BY <2>5, <2>6 DEF Waits, Sems, AtShow
    <3>2. out_nempty'.credit + AtPut' = out_nempty.credit
      BY <2>1, <2>2, <2>5, <2>8, <3>1 DEF DownIs
    <3>3. Len(outq) \in Nat BY LenProperties DEF IInv, OutInv, Text
    <3>4. Len(outq) + out_nempty.credit = OutSize
      BY <2>5, <3>1, <3>3 DEF IInv, OutInv, OutCounts
    <3>5. out_nempty'.credit \in Nat BY <2>1, <2>8 DEF Waits, Sems
    <3>6. AtPut' \in {0, 1} BY <2>5
    <3>7. Len(outq) + out_nempty'.credit + AtPut' = OutSize
      BY <3>1, <3>2, <3>3, <3>4, <3>5, <3>6
    <3> QED BY <1>1, <3>1, <3>7 DEF IInv, OutInv, OutCounts
  <2>10. OutQueues' BY <1>1, <2>1, <2>5, <2>8 DEF OutQueues
  <2>11. Device' BY <1>1, <2>5 DEF IInv, OutInv, Device
  <2>12. Progress' BY <1>1, <1>2, <1>3, <2>2, <2>5 DEF IInv, OutInv, Progress, Writing
  <2>13. Text' BY <1>1, <2>5, TextKept
  <2>14. OutInv' BY <1>1, <2>5, <2>9, <2>10, <2>11, <2>12, <2>13 DEF IInv, OutInv
  <2> QED BY <2>5, <2>14
<1>4. CASE ~(done[p] < size[p])
  <2>1. UNCHANGED out_nempty /\ Goto(p, "wdone", NoThread) BY <1>4 DEF WriteTop
  <2>2. NoThread # "wc" BY Names
  <2>3. /\ pc' \in [Threads -> Labels] /\ cur' \in Threads \cup {NoThread}
        /\ pc'[p] = "wdone" /\ \A u \in Writers \ {p} : pc'[u] = pc[u]
        /\ pc'["wc"] = pc["wc"] /\ \A t \in Ins : pc'[t] = pc[t]
        /\ OutLabels' /\ WriteOwners = {p} /\ WriteOwners' = {p}
        /\ Guards(write_serialize, WriteOwners')
        /\ AtPut = 0 /\ AtPut' = 0
        /\ Waits(writeok, pc', Outs, "ok") /\ Waits(write_serialize, pc', Outs, "wser")
        /\ Waits(out_nelem, pc', Outs, "elem") /\ Waits(out_nempty, pc', Outs, "wempty")
    BY <1>1, <2>1, <2>2, WriterMoves
  <2>4. OutQueues' BY <1>1, <2>1, <2>3 DEF OutQueues
  <2>5. Device' BY <1>1, <2>3 DEF IInv, OutInv, Device
  <2>6. Progress' BY <1>1, <1>2, <1>4, <2>3 DEF IInv, OutInv, Progress, Writing
  <2>7. Text' BY <1>1, <2>3, TextKept
  <2>8. OutCounts' BY <1>1, <2>1, <2>3 DEF IInv, OutInv, OutCounts, AtShow
  <2>9. OutInv' BY <1>1, <2>3, <2>4, <2>5, <2>6, <2>7, <2>8 DEF IInv, OutInv
  <2> QED BY <2>3, <2>9
<1> QED BY <1>3, <1>4

\* A character that may follow the last one makes the chain longer.
LEMMA ChainAppend ==
  ASSUME NEW a \in Items, NEW q \in Seq(Items), NEW x \in Items, Chain(a, q),
         Follows(LastItem(a, q), x)
  PROVE  /\ Append(q, x) \in Seq(Items) /\ Chain(a, Append(q, x))
         /\ LastItem(a, Append(q, x)) = x /\ Len(Append(q, x)) = Len(q) + 1
<1> DEFINE r == Append(q, x)
<1>1. /\ r \in Seq(Items) /\ Len(r) = Len(q) + 1 /\ Len(q) \in Nat
      /\ \A i \in 1 .. Len(q) : r[i] = q[i]
      /\ r[Len(q) + 1] = x /\ r # <<>>
  BY AppendProperties, LenProperties
<1>2. q = <<>> <=> Len(q) = 0 BY EmptySeq
<1> HIDE DEF r
<1>3. LastItem(a, r) = x BY <1>1 DEF LastItem
<1>4. Follows(a, r[1]) BY <1>1, <1>2 DEF Chain, LastItem
<1>5. ASSUME NEW i \in 1 .. Len(r) - 1 PROVE Follows(r[i], r[i + 1])
  <2>1. CASE i < Len(q) BY <1>1, <2>1 DEF Chain
  <2>2. CASE i = Len(q)
    <3>1. q # <<>> /\ r[i] = q[i] BY <1>1, <1>2, <2>2
    <3> QED BY <1>1, <2>2, <3>1 DEF LastItem
  <2> QED BY <1>1, <2>1, <2>2
<1> QED BY <1>1, <1>3, <1>4, <1>5 DEF Chain, r

\* The first character of the buffer is the next one to be shown.
LEMMA ChainTail ==
  ASSUME NEW a \in Items, NEW q \in Seq(Items), q # <<>>, Chain(a, q)
  PROVE  /\ Head(q) \in Items /\ Follows(a, Head(q)) /\ Tail(q) \in Seq(Items)
         /\ Len(Tail(q)) = Len(q) - 1 /\ Chain(Head(q), Tail(q))
         /\ LastItem(Head(q), Tail(q)) = LastItem(a, q)
<1> DEFINE r == Tail(q)
<1>1. /\ r \in Seq(Items) /\ Len(r) = Len(q) - 1 /\ Head(q) \in Items
      /\ \A i \in 1 .. Len(r) : r[i] = q[i + 1]
  BY HeadTailProperties
<1>2. Len(q) \in Nat /\ Len(q) >= 1 /\ (r = <<>> <=> Len(r) = 0)
  <2>1. Len(q) \in Nat /\ Len(q) # 0 BY LenProperties, EmptySeq
  <2>2. r = <<>> <=> Len(r) = 0 BY <1>1, EmptySeq
  <2> QED BY <2>1, <2>2
<1>3. Head(q) = q[1] BY <1>2
<1> HIDE DEF r
<1>4. Follows(a, Head(q)) BY <1>3 DEF Chain
<1>5. r # <<>> => Follows(q[1], r[1])
  <2> SUFFICES ASSUME r # <<>> PROVE Follows(q[1], r[1]) OBVIOUS
  <2>1. Len(r) >= 1 BY <1>1, <1>2
  <2>2. r[1] = q[1 + 1] /\ 1 \in 1 .. Len(q) - 1 BY <1>1, <1>2, <2>1
  <2> QED BY <2>2 DEF Chain
<1>6. ASSUME NEW i \in 1 .. Len(r) - 1 PROVE Follows(r[i], r[i + 1])
  <2>1. i + 1 \in 1 .. Len(q) - 1 /\ r[i] = q[i + 1] /\ r[i + 1] = q[(i + 1) + 1]
    BY <1>1, <1>2
  <2> QED BY <2>1 DEF Chain
<1>7. LastItem(Head(q), r) = LastItem(a, q)
  <2>1. CASE r = <<>>
    <3>1. Len(q) = 1 BY <1>1, <1>2, <2>1
    <3> QED BY <1>3, <2>1, <3>1 DEF LastItem
  <2>2. CASE r # <<>>
    <3>1. Len(r) \in 1 .. Len(r) BY <1>1, <1>2, <2>2
    <3>2. r[Len(r)] = q[Len(r) + 1] /\ Len(r) + 1 = Len(q) BY <1>1, <1>2, <3>1
    <3> QED BY <2>2, <3>2 DEF LastItem
  <2> QED BY <2>1, <2>2
<1> QED BY <1>1, <1>3, <1>4, <1>5, <1>6, <1>7 DEF Chain, r

\* The character goes into the place the writer waited for.
LEMMA WritePutStep == ASSUME IInv, NEW p \in Writers, WritePut(p) PROVE IInv'
<1> DEFINE x == [call |-> p, at |-> done[p] + 1, of |-> size[p]]
<1>1. PICK w \in Wakeable(out_nelem) : out_nelem' = Up(out_nelem, w) /\ Goto(p, "wtop", w)
  BY DEF WritePut
<1>2. /\ pc[p] = "wput" /\ pc[p] \in Writing \ {"wser", "wempty"}
      /\ outq' = Append(outq, x) /\ done' = [done EXCEPT ![p] = @ + 1]
      /\ UNCHANGED <<input, out_nempty, write_serialize, writeok, device, shown, size>>
  BY DEF WritePut, Writing
<1>3. Outs \in SUBSET Threads /\ Waits(out_nelem, pc, Outs, "elem")
  BY Names DEF IInv, OutInv, OutQueues
<1>4. WokenIs(Outs, "elem", pc, out_nelem, w) BY <1>1, <1>3, Woken
<1>5. w = NoThread \/ (w = "wc" /\ pc[w] = "elem")
  <2>1. \A q \in Writers : pc[q] # "elem" BY DEF IInv, OutInv, OutLabels, Writing
  <2> QED BY <1>4, <2>1 DEF WokenIs, Outs
<1>6. /\ pc' \in [Threads -> Labels] /\ cur' \in Threads \cup {NoThread} /\ pc'[p] = "wtop"
      /\ \A u \in Writers \ {p} : pc'[u] = pc[u]
      /\ pc'["wc"] = IF w = "wc" THEN "put" ELSE pc["wc"]
      /\ p \in Threads /\ p \in Procs /\ \A t \in Ins : pc'[t] = pc[t]
      /\ OutLabels' /\ WriteOwners = {p} /\ WriteOwners' = {p}
      /\ Guards(write_serialize, WriteOwners')
      /\ AtPut = 1 /\ AtPut' = 0
      /\ Waits(writeok, pc', Outs, "ok") /\ Waits(write_serialize, pc', Outs, "wser")
      /\ Waits(out_nempty, pc', Outs, "wempty")
      /\ pc'["wc"] = "ok" <=> pc["wc"] = "ok"
  BY <1>1, <1>2, <1>5, WriterMoves
<1>7. /\ done[p] \in Nat /\ size[p] \in Nat /\ done[p] < size[p]
      /\ done' \in [Procs -> Nat] /\ done'[p] = done[p] + 1
      /\ \A q \in Procs \ {p} : done'[q] = done[q]
  BY <1>2, <1>6 DEF IInv, Common, OutInv, Progress
<1>8. x \in Items BY <1>6, <1>7 DEF Items
<1>9. Follows(LastItem(shown, outq), x)
  <2>1. IF done[p] = 0 THEN Whole(LastItem(shown, outq))
        ELSE LastItem(shown, outq) = [call |-> p, at |-> done[p], of |-> size[p]]
    BY <1>6 DEF IInv, OutInv, Text
  <2>2. CASE done[p] = 0 BY <2>1, <2>2 DEF Follows, Whole
  <2>3. CASE done[p] # 0 BY <2>1, <2>3 DEF Follows
  <2> QED BY <2>2, <2>3
<1> HIDE DEF x
<1>10. /\ outq' \in Seq(Items) /\ Chain(shown, outq') /\ LastItem(shown, outq') = x
       /\ Len(outq') = Len(outq) + 1 /\ Len(outq) \in Nat
  <2>1. shown \in Items /\ outq \in Seq(Items) /\ Chain(shown, outq)
    BY DEF IInv, OutInv, Text
  <2> QED BY <1>2, <1>8, <1>9, <2>1, ChainAppend, LenProperties
<1>11. Text' BY <1>2, <1>6, <1>7, <1>10 DEF IInv, OutInv, Text, x
<1>12. Progress' BY <1>2, <1>6, <1>7, Names DEF IInv, OutInv, Progress, Writing
<1>13. OutCounts'
  <2>1. out_nelem'.credit + AtShow' = out_nelem.credit + AtShow + 1
    <3>1. out_nelem.credit \in Nat BY <1>3 DEF Waits, Sems
    <3>2. CASE w = NoThread
      <4>1. AtShow' = AtShow BY <1>6, <3>2, Names DEF AtShow
      <4>2. out_nelem'.credit = out_nelem.credit + 1 BY <1>1, <1>4, <3>2 DEF WokenIs
      <4> QED BY <3>1, <4>1, <4>2 DEF AtShow
    <3>3. CASE w # NoThread
      <4>1. AtShow' = 1 /\ AtShow = 0 BY <1>5, <1>6, <3>3 DEF AtShow
      <4>2. out_nelem'.credit = out_nelem.credit BY <1>1, <1>4, <3>3 DEF WokenIs
      <4> QED BY <3>1, <4>1, <4>2
    <3> QED BY <3>2, <3>3
  <2>2. /\ out_nelem.credit \in Nat /\ out_nempty.credit \in Nat
        /\ AtShow \in {0, 1} /\ AtShow' \in {0, 1}
    BY <1>3 DEF IInv, OutInv, OutQueues, Waits, Sems, AtShow
  <2>3. /\ Len(outq) = out_nelem.credit + AtShow
        /\ Len(outq) + out_nempty.credit + AtPut = OutSize
    BY DEF IInv, OutInv, OutCounts
  <2>4. Len(outq') = out_nelem'.credit + AtShow' BY <1>10, <2>1, <2>2, <2>3
  <2>5. Len(outq') + out_nempty.credit + AtPut' = OutSize BY <1>6, <1>10, <2>2, <2>3
  <2> QED BY <1>2, <2>4, <2>5 DEF OutCounts
<1>14. OutQueues'
  <2>1. \A u \in Outs : pc'[u] = "elem" <=> pc[u] = "elem" /\ u # w
    BY <1>2, <1>5, <1>6, Names DEF Outs
  <2>2. Waits(out_nelem', pc', Outs, "elem") BY <1>1, <1>3, <2>1, QueueUp
  <2> QED BY <1>2, <1>6, <2>2 DEF OutQueues
<1>15. Device' BY <1>2, <1>6 DEF IInv, OutInv, Device
<1>16. OutInv' BY <1>2, <1>6, <1>11, <1>12, <1>13, <1>14, <1>15 DEF OutInv
<1> QED BY <1>2, <1>6, <1>7, <1>16, OutStep DEF IInv, Common

\* The write() returns and hands the buffer to the next writer.
LEMMA WriteDoneStep == ASSUME IInv, NEW p \in Writers, WriteDone(p) PROVE IInv'
<1>1. PICK w \in Wakeable(write_serialize) :
        write_serialize' = Up(write_serialize, w) /\ Goto(p, "idle", w)
  BY DEF WriteDone
<1>2. /\ pc[p] = "wdone"
      /\ UNCHANGED <<input, outq, out_nelem, out_nempty, writeok, device, shown, size, done>>
  BY DEF WriteDone
<1>3. /\ p \in Threads /\ p \in Outs /\ p \notin Ins /\ Ins \subseteq Threads /\ p \in Procs
      /\ "wc" \in Threads \ {p} /\ Writers \subseteq Threads /\ Outs \in SUBSET Threads
      /\ "wc" \notin Writers /\ NoThread \notin Threads
  BY Names DEF Procs
<1>4. Waits(write_serialize, pc, Outs, "wser") BY DEF IInv, OutInv, OutQueues
<1>5. WokenIs(Outs, "wser", pc, write_serialize, w) BY <1>1, <1>3, <1>4, Woken
<1>6. w = NoThread \/ (w \in Writers /\ w \in Threads /\ pc[w] = "wser" /\ w # NoThread)
  BY <1>5 DEF Outs, IInv, OutInv, OutLabels, WokenIs
<1>7. /\ pc' \in [Threads -> Labels] /\ cur' \in Threads \cup {NoThread} /\ pc'[p] = "idle"
      /\ \A u \in Threads \ {p} : pc'[u] = IF u = w THEN "wtop" ELSE pc[u]
  <2>1. (w = NoThread \/ (w \in Threads /\ pc[w] \in Blocked)) /\ "idle" \in Labels
    BY <1>6, ResumeFacts DEF Labels
  <2>2. /\ pc' \in [Threads -> Labels] /\ cur' \in Threads \cup {NoThread}
        /\ pc'[p] = "idle"
        /\ \A u \in Threads \ {p} : pc'[u] = IF u = w THEN Resume[pc[u]] ELSE pc[u]
    BY <1>1, <1>3, <2>1, GotoFacts DEF IInv
  <2> QED BY <1>3, <1>6, <2>2, ResumeFacts
<1>8. /\ WriteOwners = {p} /\ write_serialize.credit = 0 /\ AtPut = 0
      /\ \A q \in Writers \ {p} : pc[q] \in {"idle", "wser"}
  BY <1>2, OneWriter DEF Writing
<1>9. WriteOwners' = IF w = NoThread THEN {} ELSE {w}
  BY <1>2, <1>3, <1>6, <1>7, <1>8 DEF WriteOwners, Writing
<1>10. AtPut' = 0 /\ pc'["wc"] = pc["wc"] BY <1>3, <1>6, <1>7, <1>8 DEF AtPut
<1>11. Guards(write_serialize', WriteOwners')
  BY <1>1, <1>5, <1>8, <1>9 DEF Guards, WokenIs
<1>12. OutLabels' BY <1>3, <1>6, <1>7 DEF IInv, OutInv, OutLabels, Writing
<1>13. OutQueues'
  <2>1. \A u \in Outs : pc'[u] = "wser" <=> pc[u] = "wser" /\ u # w
    BY <1>2, <1>3, <1>6, <1>7
  <2>2. Waits(write_serialize', pc', Outs, "wser") BY <1>1, <1>3, <1>4, <2>1, QueueUp
  <2>3. \A u \in Outs : \A k \in {"elem", "wempty", "ok"} : pc'[u] = k <=> pc[u] = k
    BY <1>2, <1>3, <1>6, <1>7
  <2>4. /\ Waits(out_nelem, pc', Outs, "elem") /\ Waits(out_nempty, pc', Outs, "wempty")
        /\ Waits(writeok, pc', Outs, "ok")
    BY <2>3, WaitsKept DEF IInv, OutInv, OutQueues
  <2> QED BY <1>2, <2>2, <2>4 DEF OutQueues
<1>14. Text'
  <2>1. /\ shown \in Items /\ outq \in Seq(Items) /\ Chain(shown, outq)
        /\ IF done[p] = 0 THEN Whole(LastItem(shown, outq))
           ELSE LastItem(shown, outq) = [call |-> p, at |-> done[p], of |-> size[p]]
    BY <1>8 DEF IInv, OutInv, Text
  <2>2. done[p] = size[p] BY <1>2 DEF IInv, OutInv, Progress
  <2>3. Whole(LastItem(shown, outq))
    <3>1. CASE done[p] = 0 BY <2>1, <3>1
    <3>2. CASE done[p] # 0 BY <2>1, <2>2, <3>2 DEF Whole
    <3> QED BY <3>1, <3>2
  <2>4. \A q \in WriteOwners' : done[q] = 0
    BY <1>6, <1>9 DEF IInv, OutInv, Progress
  <2> QED BY <1>2, <2>1, <2>3, <2>4 DEF Text
<1>15. Progress'
  <2>1. \A q \in Writers : pc'[q] = pc[q] \/ pc'[q] = "idle"
                           \/ (pc[q] = "wser" /\ pc'[q] = "wtop")
    BY <1>3, <1>6, <1>7
  <2>2. \A q \in Writers : done[q] \in Nat /\ size[q] \in Nat
    BY Names DEF IInv, Common
  <2> QED BY <1>2, <2>1, <2>2 DEF IInv, OutInv, Progress, Writing
<1>16. Device' BY <1>2, <1>10 DEF IInv, OutInv, Device
<1>17. OutCounts' BY <1>2, <1>8, <1>10 DEF IInv, OutInv, OutCounts, AtShow
<1>18. OutInv' BY <1>11, <1>12, <1>13, <1>14, <1>15, <1>16, <1>17 DEF OutInv
<1>19. \A t \in Ins : pc'[t] = pc[t] BY <1>3, <1>6, <1>7, Names
<1> QED BY <1>2, <1>7, <1>18, <1>19, OutStep DEF IInv, Common

\* Nothing the writers own changes when write_console_io or the device takes a step
\* at which at most one writer gets the place it waited for.
LEMMA WritersKept ==
  ASSUME IInv, \A q \in Writers : \/ pc'[q] = pc[q]
                                  \/ pc[q] = "wempty" /\ pc'[q] = "wput",
         UNCHANGED <<size, done>>
  PROVE  /\ WriteOwners' = WriteOwners /\ Progress'
         /\ \A q \in Writers : pc'[q] \in Writing \cup {"idle"}
<1>1. \A q \in Writers : pc'[q] \in Writing \ {"wser"} <=> pc[q] \in Writing \ {"wser"}
  BY DEF Writing
<1>2. WriteOwners' = WriteOwners BY <1>1 DEF WriteOwners
<1>3. Progress' BY DEF IInv, OutInv, Progress, Writing
<1> QED BY <1>2, <1>3 DEF IInv, OutInv, OutLabels, Writing

\* write_console_io waits for a character.
LEMMA WcTopStep == ASSUME IInv, WcTop PROVE IInv'
<1> DEFINE l == IF CanDown(out_nelem) THEN "put" ELSE "elem"
<1>1. /\ pc["wc"] = "top" /\ out_nelem' = Down(out_nelem, "wc") /\ Goto("wc", l, NoThread)
      /\ UNCHANGED <<input, outq, out_nempty, write_serialize, writeok, device, shown, size, done>>
  BY DEF WcTop
<1>2. l \in {"put", "elem"} /\ l \in Labels /\ (l = "elem" <=> ~CanDown(out_nelem))
  BY ResumeFacts DEF Labels
<1> HIDE DEF l
<1>3. /\ "wc" \in Threads /\ "wc" \in Outs /\ "wc" \notin Ins /\ Ins \subseteq Threads
      /\ Writers \subseteq Threads \ {"wc"} /\ Outs \in SUBSET Threads
  BY Names
<1>4. /\ pc' \in [Threads -> Labels] /\ cur' \in Threads \cup {NoThread} /\ pc'["wc"] = l
      /\ \A u \in Threads \ {"wc"} : pc'[u] = pc[u]
  BY <1>1, <1>2, <1>3, GotoAlone DEF IInv
<1>5. \A u \in Outs \ {"wc"} : pc'[u] = pc[u] BY <1>3, <1>4
<1>6. Waits(out_nelem, pc, Outs, "elem") BY DEF IInv, OutInv, OutQueues
<1>7. Waits(Down(out_nelem, "wc"), pc', Outs, "elem") /\ DownIs(out_nelem, Down(out_nelem, "wc"))
  BY <1>1, <1>2, <1>3, <1>4, <1>5, <1>6, QueueDown
<1>8. /\ WriteOwners' = WriteOwners /\ Progress'
      /\ \A q \in Writers : pc'[q] \in Writing \cup {"idle"}
  BY <1>1, <1>3, <1>4, WritersKept
<1>9. OutLabels' BY <1>2, <1>4, <1>8 DEF OutLabels
<1>10. AtPut' = AtPut BY <1>3, <1>4 DEF AtPut
<1>11. OutCounts'
  <2>1. AtShow = 0 /\ AtShow' = IF l = "put" THEN 1 ELSE 0 BY <1>1, <1>4 DEF AtShow
  <2>2. out_nelem.credit \in Nat BY <1>6 DEF Waits, Sems
  <2>3. out_nelem'.credit + AtShow' = out_nelem.credit
    BY <1>1, <1>2, <1>7, <2>1, <2>2 DEF DownIs
  <2>4. Len(outq) = out_nelem.credit BY <2>1, <2>2 DEF IInv, OutInv, OutCounts
  <2> QED BY <1>1, <1>10, <2>3, <2>4 DEF IInv, OutInv, OutCounts
<1>12. OutQueues'
  <2>1. \A u \in Outs : \A k \in {"wser", "wempty", "ok"} : pc'[u] = k <=> pc[u] = k
    BY <1>1, <1>2, <1>4, <1>5
  <2>2. /\ Waits(write_serialize, pc', Outs, "wser") /\ Waits(out_nempty, pc', Outs, "wempty")
        /\ Waits(writeok, pc', Outs, "ok")
    BY <2>1, WaitsKept DEF IInv, OutInv, OutQueues
  <2> QED BY <1>1, <1>7, <2>2 DEF OutQueues
<1>13. Device' BY <1>1, <1>2, <1>4 DEF IInv, OutInv, Device
<1>14. Text' BY <1>1, <1>8, TextKept
<1>15. OutInv' BY <1>1, <1>8, <1>9, <1>11, <1>12, <1>13, <1>14 DEF IInv, OutInv
<1>16. \A t \in Ins : pc'[t] = pc[t] BY <1>3, <1>4
<1> QED BY <1>1, <1>4, <1>15, <1>16, OutStep DEF IInv, Common

\* The first character of the buffer is sent and its place given back; the thread
\* waits for the device.
LEMMA WcPutStep ==
  ASSUME IInv, WcPut
  PROVE  IInv' /\ Follows(shown, shown') /\ device = "ready"
<1>1. PICK w \in Wakeable(out_nempty) :
        /\ out_nempty' = Up(out_nempty, w)
        /\ Goto("wc", IF CanDown(writeok) THEN "top" ELSE "ok", w)
  BY DEF WcPut
<1>2. /\ pc["wc"] = "put" /\ shown' = Head(outq) /\ outq' = Tail(outq) /\ device' = "busy"
      /\ writeok' = Down(writeok, "wc")
      /\ UNCHANGED <<input, out_nelem, write_serialize, size, done>>
  BY DEF WcPut
<1>3. device = "ready" /\ writeok.credit = 0 BY <1>2 DEF IInv, OutInv, Device
<1>4. ~CanDown(writeok) BY <1>3 DEF CanDown
<1>5. /\ "wc" \in Threads /\ "wc" \in Outs /\ "wc" \notin Ins /\ Ins \subseteq Threads
      /\ Writers \subseteq Threads \ {"wc"} /\ Outs \in SUBSET Threads
      /\ NoThread \notin Threads /\ Ins \cap Writers = {} /\ Outs = Writers \cup {"wc"}
  BY Names DEF Outs
<1>6. Waits(out_nempty, pc, Outs, "wempty") BY DEF IInv, OutInv, OutQueues
<1>7. WokenIs(Outs, "wempty", pc, out_nempty, w) BY <1>1, <1>5, <1>6, Woken
<1>8. w = NoThread \/ (w \in Writers /\ w \in Threads /\ pc[w] = "wempty" /\ w # NoThread)
  BY <1>2, <1>7 DEF WokenIs, Outs
<1>9. /\ pc' \in [Threads -> Labels] /\ cur' \in Threads \cup {NoThread} /\ pc'["wc"] = "ok"
      /\ \A u \in Threads \ {"wc"} : pc'[u] = IF u = w THEN "wput" ELSE pc[u]
  <2>1. (w = NoThread \/ (w \in Threads /\ pc[w] \in Blocked)) /\ "ok" \in Labels
    BY <1>8, ResumeFacts DEF Labels
  <2>2. /\ pc' \in [Threads -> Labels] /\ cur' \in Threads \cup {NoThread}
        /\ pc'["wc"] = "ok"
        /\ \A u \in Threads \ {"wc"} : pc'[u] = IF u = w THEN Resume[pc[u]] ELSE pc[u]
    BY <1>1, <1>4, <1>5, <2>1, GotoFacts DEF IInv
  <2> QED BY <1>5, <1>8, <2>2, ResumeFacts
<1>10. /\ WriteOwners' = WriteOwners /\ Progress'
       /\ \A q \in Writers : pc'[q] \in Writing \cup {"idle"}
  <2>1. \A q \in Writers : pc'[q] = pc[q] \/ (pc[q] = "wempty" /\ pc'[q] = "wput")
    BY <1>5, <1>8, <1>9
  <2> QED BY <1>2, <2>1, WritersKept
<1>11. OutLabels' BY <1>9, <1>10 DEF OutLabels
<1>12. /\ shown \in Items /\ outq \in Seq(Items) /\ Chain(shown, outq) /\ Len(outq) \in Nat
  BY LenProperties DEF IInv, OutInv, Text
<1>13. /\ out_nelem.credit \in Nat /\ out_nempty.credit \in Nat
       /\ Len(outq) = out_nelem.credit + 1
       /\ Len(outq) + out_nempty.credit + AtPut = OutSize /\ AtPut \in {0, 1}
  BY <1>2 DEF IInv, OutInv, OutQueues, OutCounts, Waits, Sems, AtShow, AtPut
<1>14. outq # <<>> BY <1>12, <1>13, EmptySeq
<1>15. /\ shown' \in Items /\ Follows(shown, shown') /\ outq' \in Seq(Items)
       /\ Len(outq') = Len(outq) - 1 /\ Chain(shown', outq')
       /\ LastItem(shown', outq') = LastItem(shown, outq)
  BY <1>2, <1>12, <1>14, ChainTail
<1>16. Text' BY <1>2, <1>10, <1>15 DEF IInv, OutInv, Text
<1>17. out_nempty'.credit + AtPut' = out_nempty.credit + AtPut + 1 /\ out_nempty'.credit \in Nat
  <2>1. CASE w = NoThread
    <3>1. AtPut' = AtPut BY <1>5, <1>9, <2>1 DEF AtPut
    <3>2. out_nempty'.credit = out_nempty.credit + 1 BY <1>1, <1>7, <2>1 DEF WokenIs
    <3> QED BY <1>13, <3>1, <3>2
  <2>2. CASE w # NoThread
    <3>1. AtPut = 0 BY <1>8, <2>2, OneWriter DEF Writing
    <3>2. AtPut' = 1 BY <1>5, <1>8, <1>9, <2>2 DEF AtPut
    <3>3. out_nempty'.credit = out_nempty.credit BY <1>1, <1>7, <2>2 DEF WokenIs
    <3> QED BY <1>13, <3>1, <3>2, <3>3
  <2> QED BY <2>1, <2>2
<1>18. OutCounts'
  <2>1. AtShow' = 0 /\ AtPut' \in {0, 1} BY <1>9 DEF AtShow, AtPut
  <2>2. Len(outq') = out_nelem.credit + AtShow' BY <1>13, <1>15, <2>1
  <2>3. Len(outq') + out_nempty'.credit + AtPut' = OutSize
    <3> DEFINE n == Len(outq)
               c == out_nempty.credit
               d == out_nempty'.credit
               p == AtPut
               o == AtPut'
    <3>1. n \in Nat /\ c \in Nat /\ d \in Nat /\ p \in Nat /\ o \in Nat
      BY <1>12, <1>13, <1>17, <2>1
    <3>2. n + c + p = OutSize /\ d + o = c + p + 1 BY <1>13, <1>17
    <3> HIDE DEF n, c, d, p, o
    <3>3. (n - 1) + d + o = OutSize BY <3>1, <3>2
    <3> QED BY <1>15, <3>3 DEF n, d, o
  <2> QED BY <1>2, <2>2, <2>3 DEF OutCounts
<1>19. OutQueues'
  <2>1. \A u \in Outs : pc'[u] = "wempty" <=> pc[u] = "wempty" /\ u # w
    BY <1>2, <1>5, <1>8, <1>9
  <2>2. Waits(out_nempty', pc', Outs, "wempty") BY <1>1, <1>5, <1>6, <2>1, QueueUp
  <2>3. \A u \in Outs : \A k \in {"wser", "elem"} : pc'[u] = k <=> pc[u] = k
    BY <1>2, <1>5, <1>8, <1>9
  <2>4. Waits(write_serialize, pc', Outs, "wser") /\ Waits(out_nelem, pc', Outs, "elem")
    BY <2>3, WaitsKept DEF IInv, OutInv, OutQueues
  <2>5. Waits(writeok, pc, Outs, "ok") /\ \A q \in Writers : pc[q] # "ok" /\ pc'[q] # "ok"
    BY <1>10 DEF IInv, OutInv, OutQueues, OutLabels, Writing
  <2>6. Waits(writeok', pc', Outs, "ok")
    BY <1>2, <1>3, <1>4, <1>5, <1>9, <2>5 DEF Waits, Down, Sems
  <2> QED BY <1>2, <2>2, <2>4, <2>6 DEF OutQueues
<1>20. Device' BY <1>2, <1>3, <1>4, <1>9 DEF Device, Down
<1>21. OutInv'
  BY <1>2, <1>10, <1>11, <1>16, <1>18, <1>19, <1>20 DEF IInv, OutInv
<1>22. \A t \in Ins : pc'[t] = pc[t]
  <2>1. \A t \in Ins : t # w /\ t # "wc" /\ t \in Threads BY <1>5, <1>8
  <2> QED BY <1>9, <2>1
<1>23. IInv' BY <1>2, <1>9, <1>21, <1>22, OutStep DEF IInv, Common
<1> QED BY <1>3, <1>15, <1>23

\* The device is ready again, and write_console_io goes on.
LEMMA ConsoleWriteIntStep == ASSUME IInv, ConsoleWriteInt PROVE IInv'
<1>1. PICK w \in Wakeable(writeok) : writeok' = Up(writeok, w) /\ Wakes(w)
  BY DEF ConsoleWriteInt
<1>2. /\ device = "busy" /\ device' = "ready"
      /\ UNCHANGED <<input, outq, out_nelem, out_nempty, write_serialize, shown, size, done>>
  BY DEF ConsoleWriteInt
<1>3. pc["wc"] = "ok" /\ writeok.credit = 0 BY <1>2 DEF IInv, OutInv, Device
<1>4. /\ "wc" \in Threads /\ "wc" \in Outs /\ "wc" \notin Ins /\ Ins \subseteq Threads
      /\ Writers \subseteq Threads \ {"wc"} /\ Outs \in SUBSET Threads
      /\ NoThread \notin Threads /\ Outs = Writers \cup {"wc"}
  BY Names DEF Outs
<1>5. Waits(writeok, pc, Outs, "ok") /\ \A q \in Writers : pc[q] # "ok"
  BY DEF IInv, OutInv, OutQueues, OutLabels, Writing
<1>6. writeok.wait = {"wc"} BY <1>3, <1>4, <1>5 DEF Waits
<1>7. w = "wc" BY <1>1, <1>6 DEF Wakeable
<1>8. /\ pc' \in [Threads -> Labels] /\ cur' = cur /\ pc'["wc"] = "top"
      /\ \A u \in Threads \ {"wc"} : pc'[u] = pc[u]
  <2>1. w \in Threads /\ pc[w] \in Blocked BY <1>3, <1>4, <1>7, ResumeFacts
  <2>2. /\ pc' \in [Threads -> Labels] /\ cur' = cur
        /\ \A u \in Threads : pc'[u] = IF u = w THEN Resume[pc[u]] ELSE pc[u]
    BY <1>1, <2>1, WakesFacts DEF IInv
  <2> QED BY <1>3, <1>4, <1>7, <2>2, ResumeFacts
<1>9. /\ WriteOwners' = WriteOwners /\ Progress'
      /\ \A q \in Writers : pc'[q] \in Writing \cup {"idle"}
  BY <1>2, <1>4, <1>8, WritersKept
<1>10. OutLabels' BY <1>8, <1>9 DEF OutLabels
<1>11. AtPut' = AtPut /\ AtShow' = AtShow BY <1>3, <1>4, <1>8 DEF AtPut, AtShow
<1>12. Waits(writeok', pc', Outs, "ok") /\ writeok'.credit = 0
  <2>1. Up(writeok, w).credit = writeok.credit BY <1>4, <1>7 DEF Up
  <2>2. \A u \in Outs : pc'[u] = "ok" <=> pc[u] = "ok" /\ u # w
    BY <1>4, <1>7, <1>8
  <2> QED BY <1>1, <1>3, <1>4, <1>5, <2>1, <2>2, QueueUp
<1>13. OutQueues'
  <2>1. \A u \in Outs : \A k \in {"wser", "wempty", "elem"} : pc'[u] = k <=> pc[u] = k
    BY <1>3, <1>4, <1>8
  <2>2. /\ Waits(write_serialize, pc', Outs, "wser") /\ Waits(out_nempty, pc', Outs, "wempty")
        /\ Waits(out_nelem, pc', Outs, "elem")
    BY <2>1, WaitsKept DEF IInv, OutInv, OutQueues
  <2> QED BY <1>2, <1>12, <2>2 DEF OutQueues
<1>14. Device' BY <1>2, <1>8, <1>12 DEF Device
<1>15. Text' BY <1>2, <1>9, TextKept
<1>16. OutInv'
  BY <1>2, <1>9, <1>10, <1>11, <1>13, <1>14, <1>15 DEF IInv, OutInv, OutCounts
<1>17. \A t \in Ins : pc'[t] = pc[t] BY <1>4, <1>8
<1> QED BY <1>2, <1>8, <1>16, <1>17, OutStep DEF IInv, Common
-----------------------------------------------------------------------------
(* The theorems.                                                           *)

\* Both buffers are empty, and the two threads start.
LEMMA InitIInv == ASSUME Init PROVE IInv
<1>1. /\ inq = <<>> /\ in_nelem = NewSem(0) /\ read_serialize = NewSem(1)
      /\ consoleWait = NewSem(0) /\ key = "ch" /\ typed = 0
      /\ outq = <<>> /\ out_nelem = NewSem(0) /\ out_nempty = NewSem(OutSize)
      /\ write_serialize = NewSem(1) /\ writeok = NewSem(0) /\ device = "ready"
      /\ pc = [t \in Threads |-> IF t \in {"rc", "wc"} THEN "top" ELSE "idle"]
      /\ cur = NoThread
      /\ size = [p \in Procs |-> 0] /\ done = [p \in Procs |-> 0]
      /\ shown = [call |-> NoThread, at |-> 0, of |-> 0]
  BY DEF Init, OutSlots, WriteCredit
<1>2. /\ "rc" \in Threads /\ "wc" \in Threads /\ Readers \subseteq Threads \ {"rc", "wc"}
      /\ Writers \subseteq Threads \ {"rc", "wc"} /\ Ins \subseteq Threads
      /\ Outs \subseteq Threads /\ NoThread \notin Threads
  BY Names
<1>3. /\ pc \in [Threads -> Labels] /\ pc["rc"] = "top" /\ pc["wc"] = "top"
      /\ \A p \in Readers \cup Writers : pc[p] = "idle"
      /\ \A t \in Threads : pc[t] \in {"top", "idle"}
  BY <1>1, <1>2 DEF Labels
<1>4. Common BY <1>1, <1>3 DEF Common
<1>5. \A n \in Nat : \A T \in SUBSET Threads : \A l \in Blocked : Waits(NewSem(n), pc, T, l)
  BY <1>3, ResumeFacts DEF Waits, NewSem, Sems
<1>6. OutSize \in Nat /\ InSize \in Nat /\ OutSize >= 1 BY SosConsoleAssumption
<1>7. ReadOwners = {} /\ WriteOwners = {} BY <1>3 DEF ReadOwners, WriteOwners, Reading, Writing
<1>8. AtTake = 0 /\ AtPut = 0 /\ AtShow = 0 BY <1>3 DEF AtTake, AtPut, AtShow
<1>9. Len(<<>>) = 0 /\ <<>> \in Seq(Chars) /\ <<>> \in Seq(Items) BY EmptySeq
<1>10. InInv
  <2>1. InLabels BY <1>3 DEF InLabels
  <2>2. InQueues BY <1>1, <1>2, <1>5, ResumeFacts DEF InQueues
  <2>3. InCounts BY <1>1, <1>8, <1>9 DEF InCounts, NewSem
  <2>4. Guards(read_serialize, ReadOwners) BY <1>1, <1>7 DEF Guards, NewSem
  <2> QED BY <1>1, <1>6, <1>9, <2>1, <2>2, <2>3, <2>4 DEF InInv, Chars
<1>11. OutInv
  <2>1. OutLabels BY <1>3 DEF OutLabels
  <2>2. OutQueues BY <1>1, <1>2, <1>5, <1>6, ResumeFacts DEF OutQueues
  <2>3. OutCounts BY <1>1, <1>6, <1>8, <1>9 DEF OutCounts, NewSem
  <2>4. Device BY <1>1, <1>3 DEF Device, NewSem
  <2>5. Progress BY <1>3 DEF Progress, Writing
  <2>6. Text
    <3>1. shown \in Items BY <1>1 DEF Items
    <3>2. Chain(shown, outq) /\ LastItem(shown, outq) = shown
      BY <1>1, <1>9 DEF Chain, LastItem
    <3> QED BY <1>1, <1>7, <1>9, <3>1, <3>2 DEF Text, Whole
  <2>7. Guards(write_serialize, WriteOwners) BY <1>1, <1>7 DEF Guards, NewSem
  <2> QED BY <2>1, <2>2, <2>3, <2>4, <2>5, <2>6, <2>7 DEF OutInv
<1> QED BY <1>4, <1>10, <1>11 DEF IInv

LEMMA Stutters == ASSUME IInv, UNCHANGED vars PROVE IInv'
<1>1. UNCHANGED <<input, output, pc, cur, size, done>> BY DEF vars
<1>2. InInv' BY <1>1, InKept
<1>3. OutInv' BY <1>1, OutKept
<1> QED BY <1>1, <1>2, <1>3 DEF IInv, Common

LEMMA NextIInv == ASSUME IInv, [Next]_vars PROVE IInv'
<1>1. CASE UNCHANGED vars BY <1>1, Stutters
<1>2. ASSUME NEW t \in Threads, Thread(t) PROVE IInv'
  <2>1. CASE RcTop \/ RcGet BY <2>1, RcTopStep, RcGetStep
  <2>2. CASE WcTop \/ WcPut BY <2>2, WcTopStep, WcPutStep
  <2>3. CASE t \in Readers /\ (ReadTop(t) \/ ReadTake(t) \/ ReadDone(t))
    BY <2>3, ReadTopStep, ReadTakeStep, ReadDoneStep
  <2>4. CASE t \in Writers /\ (WriteTop(t) \/ WritePut(t) \/ WriteDone(t))
    BY <2>4, WriteTopStep, WritePutStep, WriteDoneStep
  <2> QED BY <1>2, <2>1, <2>2, <2>3, <2>4 DEF Thread
<1>3. CASE \E c \in Chars : ConsoleReadInt(c) BY <1>3, ConsoleReadIntStep
<1>4. CASE ConsoleWriteInt BY <1>4, ConsoleWriteIntStep
<1>5. CASE \E n \in 0 .. MaxReq : \/ \E p \in Readers : ReadCall(p, n)
                                  \/ \E p \in Writers : WriteCall(p, n)
  BY <1>5, ReadCallStep, WriteCallStep
<1> QED BY <1>1, <1>2, <1>3, <1>4, <1>5 DEF Next

LEMMA Invariance == Spec => []IInv
BY InitIInv, NextIInv, PTL DEF Spec

\* Whatever is typed, read and written, the variables keep their types and neither
\* buffer holds more than it has room for.
THEOREM TypeCorrect == Spec => []TypeOK
<1>1. IInv => TypeOK
  <2> SUFFICES ASSUME IInv PROVE TypeOK OBVIOUS
  <2>1. /\ inq \in Seq(Chars) /\ Len(inq) <= InSize /\ key \in Chars /\ typed \in Nat
        /\ device \in {"ready", "busy"}
    BY DEF IInv, InInv, OutInv, Device
  <2>2. {in_nelem, read_serialize, consoleWait, out_nelem, out_nempty, write_serialize, writeok}
          \subseteq Sems
    BY DEF IInv, InInv, OutInv, InQueues, OutQueues, Waits
  <2>3. Len(outq) <= OutSize
    <3>1. Len(outq) \in Nat BY LenProperties DEF IInv, OutInv, Text
    <3>2. out_nempty.credit \in Nat /\ AtPut \in {0, 1} BY <2>2 DEF Sems, AtPut
    <3>3. Len(outq) + out_nempty.credit + AtPut = OutSize BY DEF IInv, OutInv, OutCounts
    <3> QED BY <3>1, <3>2, <3>3
  <2> QED BY <2>1, <2>2, <2>3 DEF TypeOK, IInv, Common
<1> QED BY <1>1, Invariance, PTL

\* write_console_io sends a character only to a console that is ready.
THEOREM DeviceReady == Spec => []DeviceIsReady
<1>1. IInv => DeviceIsReady BY DEF IInv, OutInv, Device, DeviceIsReady
<1> QED BY <1>1, Invariance, PTL

\* nelem of the input counts the characters nobody is about to take, and who sleeps
\* for a character sleeps on an empty buffer.
THEOREM CharsCounted == Spec => []CharsAreCounted
<1>1. IInv => CharsAreCounted
  <2> SUFFICES ASSUME IInv PROVE CharsAreCounted OBVIOUS
  <2>1. Len(inq) = in_nelem.credit + AtTake /\ inq \in Seq(Chars)
    BY DEF IInv, InInv, InCounts
  <2>2. ASSUME NEW p \in Readers, pc[p] = "relem" PROVE inq = <<>>
    <3>1. AtTake = 0 BY <2>2, OneReader DEF Reading
    <3>2. in_nelem.credit = 0
      BY <2>2, Names DEF IInv, InInv, InQueues, Waits
    <3>3. Len(inq) = 0 BY <2>1, <3>1, <3>2
    <3> QED BY <2>1, <3>3, EmptySeq
  <2> QED BY <2>1, <2>2 DEF CharsAreCounted, AtTake
<1> QED BY <1>1, Invariance, PTL

\* The step of WritesAreWhole: the next character that is shown may follow the last.
ShowsNext == shown' # shown => \/ shown'.call = shown.call /\ shown'.at = shown.at + 1
                               \/ shown'.at = 1 /\ shown.at = shown.of

\* What two processes write does not mix on the console, although the writer
\* blocks for every character and the buffer has one element only.
THEOREM WritesStayWhole == Spec => WritesAreWhole
<1>1. ASSUME IInv, [Next]_vars PROVE [ShowsNext]_vars
  <2>1. CASE WcPut BY <1>1, <2>1, WcPutStep DEF ShowsNext, Follows
  <2>2. CASE ~WcPut
    <3>1. shown' = shown
      BY <1>1, <2>2 DEF Next, Thread, vars, output, ConsoleReadInt, RcTop, RcGet, ReadCall,
            ReadTop, ReadTake, ReadDone, WriteCall, WriteTop, WritePut, WriteDone, WcTop,
            ConsoleWriteInt
    <3> QED BY <3>1 DEF ShowsNext
  <2> QED BY <2>1, <2>2
<1> QED BY <1>1, Invariance, PTL DEF Spec, WritesAreWhole, ShowsNext

\* The step of KeyIsTaken: a key comes when the one before has been taken.
TakesKey == typed' # typed => consoleWait.credit = 0 /\ pc["rc"] # "get"

\* read_console_io never falls behind the interrupts, full buffer or not: no key
\* is overwritten before it was read.
THEOREM KeysTaken == Spec => KeyIsTaken
<1>1. ASSUME IInv, [Next]_vars PROVE [TakesKey]_vars
  <2>1. CASE \E c \in Chars : ConsoleReadInt(c)
    BY <1>1, <2>1, ConsoleReadIntStep DEF TakesKey
  <2>2. CASE ~(\E c \in Chars : ConsoleReadInt(c))
    <3>1. typed' = typed
      BY <1>1, <2>2 DEF Next, Thread, vars, input, RcTop, RcGet, ReadCall, ReadTop, ReadTake,
            ReadDone, WriteCall, WriteTop, WritePut, WriteDone, WcTop, WcPut, ConsoleWriteInt
    <3> QED BY <3>1 DEF TakesKey
  <2> QED BY <2>1, <2>2
<1> QED BY <1>1, Invariance, PTL DEF Spec, KeyIsTaken, TakesKey
-----------------------------------------------------------------------------
(* Nobody waits for nothing.                                               *)

\* When no thread can run and some write() has not returned, the console is busy
\* and write_console_io sleeps on writeok, which the interrupt to come wakes.
WritersWaitForDevice ==
  Quiescent /\ (\E p \in Writers : pc[p] \in Writing)
    => device = "busy" /\ "wc" \in writeok.wait

\* When no thread can run and some read() has not returned, the buffer is empty and
\* read_console_io sleeps on consoleWait: there is nothing but the next key to wait for.
ReadersWaitForKeys ==
  Quiescent /\ (\E p \in Readers : pc[p] \in Reading)
    => inq = <<>> /\ "rc" \in consoleWait.wait

\* The threads that no thread can run for are where a semaphore holds them.
LEMMA Stopped ==
  ASSUME IInv, Quiescent
  PROVE  /\ \A p \in Writers : pc[p] \in {"idle", "wser", "wempty"}
         /\ \A p \in Readers : pc[p] \in {"idle", "rser", "relem"}
         /\ pc["wc"] \in {"elem", "ok"} /\ pc["rc"] = "wait"
<1>1. \A t \in Threads : pc[t] \in {"rser", "relem", "wser", "wempty", "wait", "elem", "ok", "idle"}
  BY ResumeFacts DEF Quiescent
<1>2. \A p \in Writers : pc[p] \in Writing \cup {"idle"} BY DEF IInv, OutInv, OutLabels
<1>3. \A p \in Readers : pc[p] \in Reading \cup {"idle"} BY DEF IInv, InInv, InLabels
<1>4. pc["wc"] \in {"top", "put", "elem", "ok"} /\ pc["rc"] \in {"top", "get", "wait"}
  BY DEF IInv, InInv, OutInv, InLabels, OutLabels
<1> QED BY <1>1, <1>2, <1>3, <1>4, Names DEF Writing, Reading

\* The process that owns the output waits for room in a full buffer, so the thread
\* that empties it does not wait for a character: it waits for the console.  This
\* is what WritesReturn needs of the semaphores, for any number of writers.
THEOREM WritersAreServed == Spec => []WritersWaitForDevice
<1>1. ASSUME IInv, Quiescent, NEW p \in Writers, pc[p] \in Writing
      PROVE  device = "busy" /\ "wc" \in writeok.wait
  <2>1. \E q \in Writers : pc[q] = "wempty"
    <3>1. CASE pc[p] = "wempty" BY <3>1
    <3>2. CASE pc[p] # "wempty"
      <4>1. pc[p] = "wser" BY <1>1, <3>2, Stopped DEF Writing
      <4>2. write_serialize.credit = 0
        BY <1>1, <4>1, Names DEF IInv, OutInv, OutQueues, Waits
      <4>3. WriteOwners # {} BY <1>1, <4>2 DEF IInv, OutInv, Guards
      <4>4. PICK q \in Writers : pc[q] \in Writing \ {"wser"} BY <4>3 DEF WriteOwners
      <4> QED BY <1>1, <4>4, Stopped DEF Writing
    <3> QED BY <3>1, <3>2
  <2>2. out_nempty.credit = 0
    BY <1>1, <2>1, Names DEF IInv, OutInv, OutQueues, Waits
  <2>3. AtPut = 0 /\ AtShow = 0 BY <1>1, Stopped DEF AtPut, AtShow
  <2>4. out_nelem \in Sems BY <1>1 DEF IInv, OutInv, OutQueues, Waits
  <2>5. Len(outq) = out_nelem.credit + AtShow /\ Len(outq) + out_nempty.credit + AtPut = OutSize
    BY <1>1 DEF IInv, OutInv, OutCounts
  <2>6. out_nelem.credit = OutSize BY <2>2, <2>3, <2>4, <2>5 DEF Sems
  <2>7. pc["wc"] # "elem"
    BY <1>1, <2>6, Names, SosConsoleAssumption DEF IInv, OutInv, OutQueues, Waits
  <2>8. pc["wc"] = "ok" BY <1>1, <2>7, Stopped
  <2> QED BY <1>1, <2>8, Names DEF IInv, OutInv, OutQueues, Waits, Device
<1>2. IInv => WritersWaitForDevice BY <1>1 DEF WritersWaitForDevice
<1> QED BY <1>2, Invariance, PTL

\* The process that reads waits for a character of an empty buffer, so no line end
\* waits for a reader who sleeps.  This is what LineEndsRead needs of the semaphores.
THEOREM ReadersAreCalled == Spec => []ReadersWaitForKeys
<1>1. ASSUME IInv, Quiescent, NEW p \in Readers, pc[p] \in Reading
      PROVE  inq = <<>> /\ "rc" \in consoleWait.wait
  <2>1. \E q \in Readers : pc[q] = "relem"
    <3>1. CASE pc[p] = "relem" BY <3>1
    <3>2. CASE pc[p] # "relem"
      <4>1. pc[p] = "rser" BY <1>1, <3>2, Stopped DEF Reading
      <4>2. read_serialize.credit = 0
        BY <1>1, <4>1, Names DEF IInv, InInv, InQueues, Waits
      <4>3. ReadOwners # {} BY <1>1, <4>2 DEF IInv, InInv, Guards
      <4>4. PICK q \in Readers : pc[q] \in Reading \ {"rser"} BY <4>3 DEF ReadOwners
      <4> QED BY <1>1, <4>4, Stopped DEF Reading
    <3> QED BY <3>1, <3>2
  <2>2. in_nelem.credit = 0
    BY <1>1, <2>1, Names DEF IInv, InInv, InQueues, Waits
  <2>3. AtTake = 0 BY <1>1, Stopped DEF AtTake
  <2>4. Len(inq) = 0 /\ inq \in Seq(Chars)
    BY <1>1, <2>2, <2>3 DEF IInv, InInv, InCounts
  <2>5. inq = <<>> BY <2>4, EmptySeq
  <2>6. pc["rc"] = "wait" BY <1>1, Stopped
  <2> QED BY <1>1, <2>5, <2>6, Names DEF IInv, InInv, InQueues, Waits
<1>2. IInv => ReadersWaitForKeys BY <1>1 DEF ReadersWaitForKeys
<1> QED BY <1>2, Invariance, PTL
=============================================================================
