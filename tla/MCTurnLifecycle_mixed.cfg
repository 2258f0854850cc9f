\* A chat message and a command share the session with a background run,
\* while "send now" may promote the message.
CONSTANTS
  UserMsgs = {m1, m2}
  Commands = {m2}
  BgRuns = {b1}
  Cancels = {}
  SendNows = {s1}
  NoTurn = NoTurn
SPECIFICATION FairSpec
INVARIANTS
  LampHasOwner
PROPERTIES
  LampGoesOut
  LaunchedJobEnds
CHECK_DEADLOCK FALSE
