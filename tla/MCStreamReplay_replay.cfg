\* A client opens a session in mid-turn, perhaps twice, with a queue edit and
\* a second turn in between.
CONSTANTS
  c1 = c1
  c2 = c2
  r1 = r1
  r2 = r2
  Clients = {c1}
  Readies = {r1, r2}
  ReadyClient <- SameClient
  Emitters = {a1}
  InitialEvents = 1
  MaxEvents = 2
  MaxQueueOps = 1
  MaxTurns = 2
SPECIFICATION FairSpec
INVARIANTS
  NoEventLost
  TailInOrder
  ReplayHasRunner
PROPERTIES
  ReadyEnds
CHECK_DEADLOCK FALSE
