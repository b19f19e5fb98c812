---------------------------- MODULE ScanPackets ----------------------------
(***************************************************************************)
(* What the port scanner (P538 A2) sends, what a host sends back, and what *)
(* portscanner.cpp makes of it.                                            *)
(*                                                                         *)
(* A scan is a type ("SYN", ..., "UDP", "PROTOCOL") aimed at a host and a  *)
(* port or an IP protocol.  A probe is the scan it is sent for and the     *)
(* number of the try; an answer carries the probe it answers, of which the *)
(* code sees only the fields it compares.                                  *)
(***************************************************************************)
EXTENDS Naturals

CONSTANTS TcpClass,   \* [host, port] -> "open" "closed" "silent" "rejected"
          UdpClass,   \* [host, port] -> "open" "closed"
          Active      \* host -> the IP protocols it speaks

IPPROTO_IGMP == 2
IPPROTO_TCP  == 6
IPPROTO_UDP  == 17
TcpTypes == {"SYN", "NULL", "FIN", "XMAS", "ACK"}

\* The flags of the TCP probe of a scan.
TcpFlags(type) == CASE type = "SYN"  -> {"syn"}
                    [] type = "NULL" -> {}
                    [] type = "FIN"  -> {"fin"}
                    [] type = "XMAS" -> {"fin", "psh", "urg"}
                    [] type = "ACK"  -> {"ack"}

\* Tries before a scan gives up: NUMBER_OF_RETRY, and
\* NUMBER_OF_RETRY_PROTOCOL_SCAN.
RetriesMore(s) == 4
Retries(s) == IF s.type = "PROTOCOL" THEN 3 ELSE 2

\* The protocol of an IP header has eight bits, the port of a TCP or a UDP
\* header sixteen; a scan looks for its port as it was asked for.
HeaderProtocol(n) == n % 256
HeaderPort(n) == n % 65536

-----------------------------------------------------------------------------
(* The host (outside of the repository): RFC 793 and RFC 792.              *)

Segment(p, flags) == [kind |-> "TCP", probe |-> p, flags |-> flags, code |-> ""]
Icmp(p, code)     == [kind |-> "ICMP", probe |-> p, flags |-> {}, code |-> code]

TcpAnswers(p) ==
  LET class == TcpClass[<<p.scan.host, HeaderPort(p.scan.port)>>]
      flags == TcpFlags(p.scan.type)
  IN CASE class = "rejected" -> {Icmp(p, "PKT_FILTERED")}
       [] class \in {"open", "closed"} /\ "ack" \in flags ->
            {Segment(p, {"rst"})}
       [] class = "closed" /\ "ack" \notin flags -> {Segment(p, {"rst", "ack"})}
       [] class = "open" /\ flags = {"syn"} -> {Segment(p, {"syn", "ack"})}
       [] OTHER -> {}

\* A protocol probe is a bare IP header: a host that speaks the protocol
\* drops it.
Answers(p) ==
  CASE p.scan.type \in TcpTypes -> TcpAnswers(p)
    [] p.scan.type = "UDP" ->
         IF UdpClass[<<p.scan.host, HeaderPort(p.scan.port)>>] = "closed"
         THEN {Icmp(p, "PORT_UNREACH")} ELSE {}
    [] p.scan.type = "PROTOCOL" ->
         IF HeaderProtocol(p.scan.protocol) \in Active[p.scan.host] THEN {}
         ELSE {Icmp(p, "PROT_UNREACH")}

-----------------------------------------------------------------------------
(* What a scan concludes from a packet it reads; "" is nothing.            *)

FilteringCodes == {"HOST_UNREACH", "PROT_UNREACH", "PORT_UNREACH",
                   "NET_ANO", "HOST_ANO", "PKT_FILTERED"}

\* The flags say what the port is, if the segment came from it.
FlagsVerdict(s, k) ==
  IF s.type = "ACK" THEN IF "rst" \in k.flags THEN "UNFILTERED" ELSE ""
  ELSE IF s.type = "SYN" /\ "syn" \in k.flags THEN "OPEN"
  ELSE IF {"rst", "ack"} \subseteq k.flags THEN "CLOSED" ELSE ""

\* Only the port is compared.
TcpVerdictAnyHost(s, k) ==
  IF HeaderPort(k.probe.scan.port) = s.port THEN FlagsVerdict(s, k) ELSE ""

TcpVerdict(s, k) ==
  IF k.probe.scan.host = s.host /\ HeaderPort(k.probe.scan.port) = s.port
  THEN FlagsVerdict(s, k) ELSE ""

\* Any packet of the host on the socket of the protocol.
OtherVerdict(s, k) == IF k.probe.scan.host = s.host THEN "OPEN" ELSE ""

\* The ports are read behind the header that the host quotes, whatever its
\* protocol; a protocol probe has none there.
UnreachableVerdict(s, k) ==
  IF /\ k.probe.scan.host = s.host /\ HeaderPort(k.probe.scan.port) = s.port
     /\ k.code \in FilteringCodes
  THEN "FILTERED" ELSE ""

\* udp_scan() compares what tcp_scan() does, and not the protocol either.
UdpVerdict(s, k) == IF k.kind = "ICMP" THEN UnreachableVerdict(s, k) ELSE ""

\* Only the host is compared, not the protocol that it does not speak.
ProtocolVerdict(s, k) ==
  IF k.probe.scan.host = s.host /\ k.code = "PROT_UNREACH"
  THEN "CLOSED" ELSE ""

Verdict(s, k) ==
  CASE s.type = "PROTOCOL" -> IF k.kind = "ICMP" THEN ProtocolVerdict(s, k)
                                                 ELSE OtherVerdict(s, k)
    [] s.type = "UDP"      -> UdpVerdict(s, k)
    [] OTHER               -> IF k.kind = "ICMP" THEN UnreachableVerdict(s, k)
                                                 ELSE TcpVerdict(s, k)

TimeoutVerdict(s) == CASE s.type = "SYN"      -> "FILTERED"
                       [] s.type = "PROTOCOL" -> "OPEN"
                       [] OTHER               -> "OPEN_FILTERED"
=============================================================================
