\* Fair runs: one turn, opened twice, one connection lost.
CONSTANTS
  MaxTurns = 1
  MaxChunks = 1
  MaxOpens = 2
  MaxDrops = 1
SPECIFICATION FairSpec
PROPERTIES
  LampGoesOut
CHECK_DEADLOCK FALSE
