\* A session that only its users drive: three messages, one stop button,
\* one "send now".
CONSTANTS
  UserMsgs = {m1, m2, m3}
  Commands = {}
  BgRuns = {}
  Cancels = {c1}
  SendNows = {s1}
  NoTurn = NoTurn
SPECIFICATION Spec
SYMMETRY MessageSymmetry
INVARIANTS
  TypeOK
  QueueIsExact
  OneConversation
  RunningTurnIsLit
  IdleCancelIsHarmless
PROPERTIES
  KeepsPromise
CHECK_DEADLOCK FALSE
