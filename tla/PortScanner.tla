---------------------------- MODULE PortScanner ----------------------------
(***************************************************************************)
(* The port scanner (P538 A2, portscanner.cpp).  main() gives every        *)
(* address a queue of the ports; its threads take one port at a time under *)
(* port_mutex, run the selected scans on it, and print under print_mutex.  *)
(* When all have been joined main() runs the protocol scans itself.        *)
(*                                                                         *)
(* A raw socket gets every packet of its protocol that reaches the host,   *)
(* so each scan reads the answers to all scans, early and late.  Packets   *)
(* are lost or take any time; two seconds may pass at any point of a wait. *)
(* Thread t is t + 1 of the code's threadid; Main is its thread 0.  What a *)
(* critical section does is one step, and so are the closes at the end of  *)
(* a scan; a service check is the descriptor that it leaves open.          *)
(***************************************************************************)
EXTENDS Integers, Sequences, FiniteSets, FiniteSetsExt, SequencesExt,
        ScanPackets, ScanOptions

CONSTANTS Options,        \* the command line
          ServicePorts,   \* the ports check_for_all_services() asks
          Failing,        \* the threads whose select() may fail
          MaxInFlight     \* bound on the packets under way at a time

ASSUME PortScannerAssumption == Options \in Seq(OptionRecords) /\ GoodOptions(Options)

args    == FillOptions(Options)
Threads == 1 .. args.speedup
Main    == 0
Procs   == Threads \cup {Main}
Entries == DOMAIN args.addresses        \* the keys of ip_map: pointers, so an
                                        \* address given twice has two
Jobs    == Entries \X DOMAIN args.ports

\* A host does one of four things with a TCP probe of a port.
ASSUME HostsAssumption ==
  \A j \in Jobs : TcpClass[<<args.addresses[j[1]], HeaderPort(args.ports[j[2]])>>]
                    \in {"open", "closed", "silent", "rejected"}

\* The scans of one port, in order: those selected, then UDP.
Selected(y) == IF y \in args.scans THEN <<y>> ELSE << >>
PortTypes == Selected("SYN") \o Selected("NULL") \o Selected("FIN")
               \o Selected("XMAS") \o Selected("ACK") \o <<"UDP">>
PortScan(job, i) == [type |-> PortTypes[i], host |-> args.addresses[job[1]],
                     port |-> args.ports[job[2]], protocol |-> 0]

\* main's scans of one address, one for each protocol.
ProtocolScan(entry, i) ==
  [type |-> "PROTOCOL", host |-> args.addresses[entry], port |-> 0,
   protocol |-> args.protocols[i]]

NoSockets == [recv |-> 0, send |-> 0, icmp |-> 0]

VARIABLES map_iterator, ip_map,   \* the queues, and the address being served
          pc, job,                \* where each thread is, and at what
          fd,                     \* the sockets of its scan
          leaked,                 \* sockets of service checks
          inbox,                  \* what its sockets hold: [recv, icmp]
          retry_count,            \* expired tries of its scan
          results,                \* the rows it has to print
          net,                    \* packets on their way here
          printed,                \* the jobs and addresses whose rows are out
          exited                  \* a system call has failed: exit()

queues == <<map_iterator, ip_map>>
wire   == <<inbox, net>>
scanner == <<queues, pc, job, fd, leaked, wire, retry_count, results, printed>>
vars    == <<scanner, exited>>

NoJob == <<0, 0>>
Empty == [recv |-> << >>, icmp |-> << >>]

Init ==
  /\ map_iterator = 1
  /\ ip_map = [e \in Entries |-> [i \in DOMAIN args.ports |-> i]]
  /\ pc = [p \in Procs |-> IF p = Main THEN "join" ELSE "take"]
  /\ job = [p \in Procs |-> NoJob]
  /\ fd = [p \in Procs |-> NoSockets] /\ leaked = {}
  /\ inbox = [p \in Procs |-> Empty]
  /\ retry_count = [p \in Procs |-> 0]
  /\ results = [p \in Procs |-> << >>]
  /\ net = {} /\ printed = {} /\ exited = FALSE

-----------------------------------------------------------------------------
(* request_handler() between the scans.                                    *)

\* The scan a thread is at, and how many it makes.
Scan(p) == LET i == Len(results[p]) + 1
           IN IF p = Main THEN ProtocolScan(job[p][1], i)
                          ELSE PortScan(job[p], i)
ScanCount(p) == Len(IF p = Main THEN args.protocols ELSE PortTypes)

\* The queue keeps what was taken.
TakeNoPop(t) ==
  /\ pc[t] = "take"
  /\ IF map_iterator \in Entries
     THEN /\ job' = [job EXCEPT ![t] = <<map_iterator, Head(ip_map[map_iterator])>>]
          /\ map_iterator' = map_iterator + 1
          /\ pc' = [pc EXCEPT ![t] = "open"]
     ELSE /\ pc' = [pc EXCEPT ![t] = "exit"]
          /\ UNCHANGED <<job, map_iterator>>
  /\ UNCHANGED <<ip_map, fd, leaked, wire, retry_count, results, printed>>

\* An emptied queue moves the iterator, once, and the next queue is taken
\* from without a look.
Take(t) ==
  LET skip == map_iterator \in Entries /\ ip_map[map_iterator] = << >>
      e    == IF skip THEN map_iterator + 1 ELSE map_iterator
  IN /\ pc[t] = "take"
     /\ map_iterator' = e
     /\ IF e \in Entries
        THEN /\ job' = [job EXCEPT ![t] = <<e, Head(ip_map[e])>>]
             /\ ip_map' = [ip_map EXCEPT ![e] = Tail(@)]
             /\ pc' = [pc EXCEPT ![t] = "open"]
        ELSE /\ pc' = [pc EXCEPT ![t] = "exit"]
             /\ UNCHANGED <<job, ip_map>>
     /\ UNCHANGED <<fd, leaked, wire, retry_count, results, printed>>

PrintRows(t) ==
  /\ pc[t] = "print"
  /\ printed' = printed \cup {job[t]}
  /\ results' = [results EXCEPT ![t] = << >>]
  /\ job' = [job EXCEPT ![t] = NoJob]
  /\ pc' = [pc EXCEPT ![t] = "take"]
  /\ UNCHANGED <<queues, fd, leaked, wire, retry_count>>

-----------------------------------------------------------------------------
(* main() after it has made the threads.                                   *)

\* The first address of the protocol scan, or the one after e, or the end.
Address(e) ==
  IF "PROTOCOL" \in args.scans /\ e \in Entries
  THEN /\ job' = [job EXCEPT ![Main] = <<e, 0>>]
       /\ pc' = [pc EXCEPT ![Main] =
                   IF args.protocols = << >> THEN "print" ELSE "open"]
  ELSE /\ job' = [job EXCEPT ![Main] = NoJob]
       /\ pc' = [pc EXCEPT ![Main] = "end"]

Join ==
  /\ pc[Main] = "join"
  /\ \A t \in Threads : pc[t] = "exit"
  /\ Address(1)
  /\ UNCHANGED <<queues, fd, leaked, wire, retry_count, results, printed>>

PrintProtocols ==
  /\ pc[Main] = "print"
  /\ printed' = printed \cup {job[Main]}
  /\ results' = [results EXCEPT ![Main] = << >>]
  /\ Address(job[Main][1] + 1)
  /\ UNCHANGED <<queues, fd, leaked, wire, retry_count>>

-----------------------------------------------------------------------------
(* One scan: tcp_scan(), udp_scan(), protocol_scan().                      *)

Used == leaked \cup UNION {{fd[p].recv, fd[p].send, fd[p].icmp} : p \in Procs}

\* socket() gives the lowest descriptor that is free.
Lowest(used) == Min((1 .. Cardinality(used) + 1) \ used)

\* The first socket(): the TCP receiver of a TCP scan, else the sender.
OpenFirst(p) ==
  LET s == IF Scan(p).type \in TcpTypes THEN "recv" ELSE "send"
  IN /\ pc[p] = "open"
     /\ fd' = [fd EXCEPT ![p][s] = Lowest(Used)]
     /\ pc' = [pc EXCEPT ![p] = "probe"]
     /\ UNCHANGED <<queues, job, leaked, wire, retry_count, results, printed>>

\* sendto(): the answer is on its way, or the probe or its answer is lost.
Send(p, try) ==
  \E answers \in {{}, Answers([scan |-> Scan(p), try |-> try])} :
    /\ Cardinality(net \cup answers) <= MaxInFlight
    /\ net' = net \cup answers

\* The other sockets: a TCP scan has a sender, then the one for ICMP.
TcpSockets(p) ==
  LET send == Lowest(Used)
  IN {[fd[p] EXCEPT !.send = send, !.icmp = Lowest(Used \cup {send})]}

UdpSockets(p) == {[fd[p] EXCEPT !.icmp = Lowest(Used)]}

\* A protocol scan has a receiver for IGMP, TCP and UDP; for the others its
\* descriptor is not initialised: the slot holds what the last call left
\* there, which may be the number that the ICMP socket now has.
ProtocolSockets(p) ==
  LET next == Lowest(Used)
  IN IF Scan(p).protocol \in {IPPROTO_IGMP, IPPROTO_TCP, IPPROTO_UDP}
     THEN {[fd[p] EXCEPT !.recv = next, !.icmp = Lowest(Used \cup {next})]}
     ELSE {[fd[p] EXCEPT !.recv = r, !.icmp = next] : r \in {0, next}}

Stray(p) == fd[p].recv # 0 /\ fd[p].recv = fd[p].icmp

\* They are opened, and the first probe leaves.
OpenRest(p) ==
  /\ pc[p] = "probe"
  /\ \E f \in CASE Scan(p).type = "UDP"      -> UdpSockets(p)
              [] Scan(p).type = "PROTOCOL" -> ProtocolSockets(p)
              [] OTHER                     -> TcpSockets(p) :
       fd' = [fd EXCEPT ![p] = f]
  /\ Send(p, 1)
  /\ pc' = [pc EXCEPT ![p] = "wait"]
  /\ UNCHANGED <<queues, job, leaked, inbox, retry_count, results, printed>>

\* A packet reaches the host, and every raw socket of its protocol.
Arrival(p, k) ==
  LET tcp  == /\ fd[p].recv # 0 /\ k.kind = "TCP"
              /\ Scan(p).type = "PROTOCOL" => Scan(p).protocol = IPPROTO_TCP
      icmp == fd[p].icmp # 0 /\ k.kind = "ICMP"
  IN [recv |-> IF tcp THEN Append(inbox[p].recv, k) ELSE inbox[p].recv,
      icmp |-> IF icmp THEN Append(inbox[p].icmp, k) ELSE inbox[p].icmp]

Deliver(k) ==
  /\ net' = net \ {k}
  /\ inbox' = [p \in Procs |-> Arrival(p, k)]
  /\ UNCHANGED <<queues, pc, job, fd, leaked, retry_count, results, printed>>

\* select() is asked for the descriptors up to that of the ICMP socket.
Readable(p, s) ==
  pc[p] = "wait" /\ fd[p][s] <= fd[p].icmp /\ inbox[p][s] # << >>

\* The sockets that a round of the loop reads, in its order.
Ready(p, s) == IF Readable(p, s) THEN <<s>> ELSE << >>
Round(p) == IF p = Main THEN Ready(p, "icmp") \o Ready(p, "recv")
                        ELSE Ready(p, "recv") \o Ready(p, "icmp")

Heard(p, s) == Verdict(Scan(p), Head(inbox[p][s]))

\* The sockets stay open when the packet that decides is an ICMP message.
ConcludeOpen(p, state, why) ==
  /\ results' = [results EXCEPT
       ![p] = Append(@, [scan |-> Scan(p), state |-> state, why |-> why])]
  /\ fd' = IF why = "ICMP" THEN fd ELSE [fd EXCEPT ![p] = NoSockets]
  /\ inbox' = [inbox EXCEPT ![p] = Empty]
  /\ retry_count' = [retry_count EXCEPT ![p] = 0]
  /\ pc' = [pc EXCEPT ![p] =
              IF Len(results[p]) + 1 < ScanCount(p) THEN "open" ELSE "print"]

\* The scan is over: its row is kept and its sockets are closed.
Conclude(p, state, why) ==
  /\ results' = [results EXCEPT
       ![p] = Append(@, [scan |-> Scan(p), state |-> state, why |-> why])]
  /\ fd' = [fd EXCEPT ![p] = NoSockets]
  /\ inbox' = [inbox EXCEPT ![p] = Empty]
  /\ retry_count' = [retry_count EXCEPT ![p] = 0]
  /\ pc' = [pc EXCEPT ![p] =
              IF Len(results[p]) + 1 < ScanCount(p) THEN "open" ELSE "print"]

\* A port found open is asked for its service over a socket of its own, which
\* get_service_response_message() does not close.
ServiceSockets(s, state) ==
  IF s.type = "SYN" /\ state = "OPEN" /\ s.port \in ServicePorts
  THEN {Lowest(Used)} ELSE {}

\* One of the packets that the round reads decides; the first one that does
\* ends it.
Decide(p) ==
  /\ pc[p] = "wait"
  /\ \E i \in DOMAIN Round(p) :
    LET state == Heard(p, Round(p)[i])
    IN /\ state # ""
       /\ \A j \in 1 .. i - 1 : Heard(p, Round(p)[j]) = ""
       /\ Conclude(p, state, Head(inbox[p][Round(p)[i]]).kind)
       /\ leaked' = leaked \cup ServiceSockets(Scan(p), state)
       /\ UNCHANGED <<queues, job, net, printed>>

\* None does: what was read is gone, and if two seconds have passed
\* since the last send, as they may have, the next try follows or, after the
\* last, the verdict of silence.  A select() that nothing wakes takes them.
Undecided(p) == pc[p] = "wait" /\ \A i \in DOMAIN Round(p) :
                                     Heard(p, Round(p)[i]) = ""

Drop(q, n) == SubSeq(q, n + 1, Len(q))
Read(p) ==
  [inbox EXCEPT ![p] =
     [recv |-> IF Readable(p, "recv") THEN Tail(@.recv) ELSE @.recv,
      icmp |-> Drop(@.icmp, IF Stray(p) THEN 2 ELSE 1)]]

Ignore(p) ==
  /\ Undecided(p) /\ Round(p) # << >>
  /\ inbox' = Read(p)
  /\ UNCHANGED <<queues, pc, job, fd, leaked, net, retry_count, results, printed>>

Retry(p) ==
  /\ Undecided(p) /\ retry_count[p] + 1 < Retries(Scan(p))
  /\ retry_count' = [retry_count EXCEPT ![p] = @ + 1]
  /\ Send(p, retry_count[p] + 2)
  /\ inbox' = Read(p)
  /\ UNCHANGED <<queues, pc, job, fd, leaked, results, printed>>

GiveUpLater(p) ==
  /\ Undecided(p) /\ retry_count[p] + 1 > Retries(Scan(p))
  /\ Conclude(p, TimeoutVerdict(Scan(p)), "timeout")
  /\ UNCHANGED <<queues, job, leaked, net, printed>>
GiveUp(p) ==
  /\ Undecided(p) /\ retry_count[p] + 1 >= Retries(Scan(p))
  /\ Conclude(p, TimeoutVerdict(Scan(p)), "timeout")
  /\ UNCHANGED <<queues, job, leaked, net, printed>>

\* select() fails.
SelectError(p) ==
  /\ pc[p] = "wait"
  /\ Conclude(p, "", "error")
  /\ UNCHANGED <<queues, job, leaked, net, printed>>

\* getaddrinfo(), socket() or setsockopt() fails: the whole program exits,
\* whatever rows its threads still have to print.
CallFails(p) ==
  /\ pc[p] \in {"open", "probe"}
  /\ exited' = TRUE
  /\ UNCHANGED scanner

-----------------------------------------------------------------------------
Runs == ~exited /\ UNCHANGED exited

ScanStep(p) == \/ OpenFirst(p) \/ OpenRest(p)
               \/ Decide(p) \/ Ignore(p) \/ Retry(p) \/ GiveUp(p)
Step(p) == Runs /\ (ScanStep(p) \/ (p # Main /\ (Take(p) \/ PrintRows(p))))
MainStep == Runs /\ (Join \/ PrintProtocols)

Next == \/ \E p \in Procs : \/ Step(p)
                            \/ Runs /\ p \in Failing /\ SelectError(p)
                            \/ ~exited /\ CallFails(p)
        \/ MainStep
        \/ Runs /\ \E k \in net : Deliver(k)

Spec == Init /\ [][Next]_vars

\* The threads run and time goes on; packets need not arrive, nor calls fail.
FairSpec == /\ Spec
            /\ \A p \in Procs : WF_vars(Step(p))
            /\ WF_vars(MainStep)

-----------------------------------------------------------------------------
(* Properties.                                                             *)

States == {"OPEN", "CLOSED", "FILTERED", "UNFILTERED", "OPEN_FILTERED", ""}

\* The types of the variables.
TypeOK ==
  /\ map_iterator \in 1 .. Len(args.addresses) + 1
  /\ \A e \in Entries : \A i \in DOMAIN ip_map[e] :
       ip_map[e][i] \in DOMAIN args.ports
  /\ pc \in [Procs -> {"take", "open", "probe", "wait", "print", "exit",
                       "join", "end"}]
  /\ job \in [Procs -> Jobs \cup {<<e, 0>> : e \in Entries \cup {0}}]
  /\ \A p \in Procs :
       /\ fd[p] \in [recv : Nat, send : Nat, icmp : Nat]
       /\ retry_count[p] \in 0 .. 2
       /\ \A s \in {"recv", "icmp"} : \A i \in DOMAIN inbox[p][s] :
            inbox[p][s][i].kind \in {"TCP", "ICMP"}
       /\ \A i \in DOMAIN results[p] : results[p][i].state \in States
  /\ \A k \in net : k.kind \in {"TCP", "ICMP"}
  /\ printed \subseteq Jobs \cup {<<e, 0>> : e \in Entries} /\ exited \in BOOLEAN

\* The threads are a pool of workers: each port of each address is taken by
\* one of them, once, and printed before its thread takes another.
Pool == INSTANCE WorkPool WITH
  Workers <- Threads,
  todo    <- {<<x[1], ip_map[x[1]][x[2]]>> :
                x \in {y \in Jobs : y[2] \in DOMAIN ip_map[y[1]]}},
  hold    <- [t \in Threads |-> {job[t]} \ {NoJob}],
  done    <- printed \cap Jobs
IsPool == Pool!Spec

\* Whatever is lost, late or meant for another scan, what a TCP scan
\* concludes from a packet is what the port is.  An ICMP message that
\* filters a port answers a TCP or a UDP probe of it.
Truthful(r) ==
  LET class == TcpClass[<<r.scan.host, r.scan.port>>]
  IN /\ r.scan.type \in TcpTypes /\ r.why = "TCP" =>
          CASE r.state = "OPEN"   -> class = "open"
            [] r.state = "CLOSED" -> class = "closed"
            [] OTHER              -> class \in {"open", "closed"}
     /\ r.scan.type # "PROTOCOL" /\ r.why = "ICMP" =>
          \/ class = "rejected"
          \/ UdpClass[<<r.scan.host, r.scan.port>>] = "closed"
VerdictIsTrue ==
  \A p \in Procs : \A i \in DOMAIN results[p] : Truthful(results[p][i])

\* The open ports that are asked for their service.
Services == {j \in Jobs : /\ args.ports[j[2]] \in ServicePorts
                          /\ TcpClass[<<args.addresses[j[1]],
                                        args.ports[j[2]]>>] = "open"}

\* Every way out of a scan gives its sockets back: what is open is what the
\* running scans need, and one socket for each service found, never closed.
DescriptorsAreBounded ==
  Cardinality(Used \ {0}) <=
    3 * Cardinality({p \in Procs : pc[p] \in {"probe", "wait"}})
      + Cardinality(Services)

\* select() reports a TCP socket that holds an answer: a try is not taken for
\* unanswered while its answer lies unread.
AnswerIsSeen ==
  \A p \in Procs : pc[p] = "wait" /\ inbox[p].recv # << >>
                   => Readable(p, "recv")

\* What the command line asks for, said without the order of its options.
HostsOf(o) ==
  CASE o.opt = "ip"     -> {o.address}
    [] o.opt = "prefix" ->
         LET size == 2 ^ (32 - o.prefix)
         IN {h \in o.address - size .. o.address + size :
               h \div size = o.address \div size}
    [] o.opt = "file"   -> {l.address : l \in {m \in ToSet(o.lines) : m.length > 6}}
    [] OTHER            -> {}
PortsOf(o) ==
  IF o.opt # "ports" THEN {}
  ELSE IF o.range THEN o.values[1] .. o.values[2] ELSE ToSet(o.values)
AskedHosts == UNION {HostsOf(o) : o \in ToSet(Options)}
AskedPorts ==
  IF \E o \in ToSet(Options) : o.opt = "ports"
    THEN UNION {PortsOf(o) : o \in ToSet(Options)} ELSE 1 .. 1024

\* When main() gets to its end, the ports printed are those that were asked
\* for, of the hosts that were asked for.
AskedIsReported ==
  pc[Main] = "end" =>
    {<<args.addresses[j[1]], args.ports[j[2]]>> : j \in printed \cap Jobs}
      = AskedHosts \X AskedPorts

\* The program ends: with the protocols of every address, if they were asked
\* for, printed after its ports, or because a system call has failed.
Finishes ==
  <>[](\/ exited
       \/ /\ pc[Main] = "end"
          /\ "PROTOCOL" \in args.scans => \A e \in Entries : <<e, 0>> \in printed)
=============================================================================
