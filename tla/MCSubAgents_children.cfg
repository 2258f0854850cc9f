\* Two turns of the parent, one sub-agent that outlives the first, one stop
\* of either turn's attachment; any row may be lost.
CONSTANTS
  NoTurn = NoTurn
  MaxTurns = 2
  Children = {c1}
  Stops = {s1}
  Agent = Agent
  LateAttach = FALSE
SPECIFICATION FairSpec
CHECK_DEADLOCK FALSE
INVARIANTS
  WrittenOnce
  OnlyLateStopUnregisters
PROPERTIES
  OnlyItsOwnTurnEnds
  ChildLampGoesOut
