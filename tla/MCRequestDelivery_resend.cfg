\* Two messages, two connections, one restart of the server; one replay
\* of each draft, on a new connection or on a change of project.
CONSTANTS
  Req = {r1, r2}
  NoKey = NoKey
  MaxEpoch = 2
  MaxRestarts = 1
  MaxRecovery = 1
SPECIFICATION Spec
SYMMETRY AnyRequest
CONSTRAINT NoIdleRepeat
INVARIANTS
  RunsOnce
  PromotedWhereItRuns
  NoneForgotten
