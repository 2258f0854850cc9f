\* Two goroutines, two agents, two sessions opened, one release that fails.
CONSTANTS
  NAgents = 2
  Sessions = {s1}
  Callers = {c1, c2}
  MaxOpens = 2
  MaxFailures = 1
  NoCaller = NoCaller
  NoHandle = NoHandle
  NoKey = NoKey
SPECIFICATION FairSpec
INVARIANTS
  ReleaseSparesUses
  OneProcess
  NothingLeaks
PROPERTIES
  HandedOutOpen
  CallsReturn
