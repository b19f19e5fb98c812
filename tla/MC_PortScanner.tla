--------------------------- MODULE MC_PortScanner ---------------------------
(***************************************************************************)
(* Instances of PortScanner for TLC.                                       *)
(***************************************************************************)
EXTENDS PortScanner

\* Two hosts of a block: on the first a web server, on the second a port that
\* nobody listens at; both refuse UDP there with a port unreachable.
TwoHosts == <<[opt |-> "prefix", address |-> 11, prefix |-> 31],
              [opt |-> "ports", range |-> FALSE, values |-> <<80>>],
              [opt |-> "scans", empty |-> FALSE, names |-> {"SYN", "PROTOCOL"}],
              [opt |-> "protocol-range", range |-> FALSE, values |-> <<88, 6>>],
              [opt |-> "speedup", value |-> 2]>>

Tcp == [x \in {10, 11} \X {80} |-> IF x[1] = 10 THEN "open" ELSE "closed"]
Udp == [x \in {10, 11} \X {80} |-> IF x[1] = 10 THEN "closed" ELSE "open"]
Speaks == [h \in {10, 11} |-> {6}]
=============================================================================
