\* Fair runs of a session that only its users drive.
CONSTANTS
  UserMsgs = {m1, m2, m3}
  Commands = {}
  BgRuns = {}
  Cancels = {}
  SendNows = {s1}
  NoTurn = NoTurn
SPECIFICATION FairSpec
PROPERTIES
  QueuedMessageStarts
CHECK_DEADLOCK FALSE
