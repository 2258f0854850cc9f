\* One turn with the code's three recovery attempts and two stops.
CONSTANTS
  Stops = {s1, s2}
  MaxAttempts = 3
SPECIFICATION FairRecoverySpec
INVARIANTS
  PromptSentOnce
PROPERTIES
  TurnEnds
CHECK_DEADLOCK FALSE
