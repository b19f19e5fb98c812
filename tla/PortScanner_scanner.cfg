\* A block of two hosts, one port each, two threads.
SPECIFICATION FairSpec
CONSTANTS
  Options <- TwoHosts
  TcpClass <- Tcp
  UdpClass <- Udp
  Active <- Speaks
  ServicePorts = {80}
  Failing = {0}
  MaxInFlight = 2
INVARIANTS TypeOK VerdictIsTrue DescriptorsAreBounded AskedIsReported
PROPERTIES IsPool Finishes

\* The program ends.
CHECK_DEADLOCK FALSE
