\* The code's times; a quick handshake, a link slow to answer a ping.
CONSTANTS
  Nodes = {n1, n2}
  ReconnectWatchdog = 3
  ConnectTimeout = 15
  ProbeTimeout = 8
  FastDelay = 1
  LifecycleDelay = 1
  Handshake = 2
  PongDelay = 10
  MaxOps = 3
SPECIFICATION FairSpec
INVARIANTS
  SilenceIsBounded
  RightNode
PROPERTIES
  HealthyLinkKept
  Reconnects
