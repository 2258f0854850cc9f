\* Two turns, one of them perhaps the browser's own, opened once, one
\* connection lost.
CONSTANTS
  MaxTurns = 2
  MaxChunks = 1
  MaxOpens = 1
  MaxDrops = 1
SPECIFICATION Spec
INVARIANTS
  RowsInOrder
  EchoRetires
  LiveTail
  CaughtUp
CHECK_DEADLOCK FALSE
