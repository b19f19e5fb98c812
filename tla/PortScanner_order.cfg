\* As PortScanner_scanner.cfg.
SPECIFICATION FairSpec
CONSTANTS
  Options <- TwoHosts
  TcpClass <- Tcp
  UdpClass <- Udp
  Active <- Speaks
  ServicePorts = {80}
  Failing = {0}
  MaxInFlight = 2
INVARIANTS AnswerIsSeen

\* The program ends.
CHECK_DEADLOCK FALSE
