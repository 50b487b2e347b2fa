CONSTANTS
  r1 = r1
  r2 = r2
  r3 = r3
  Replays = {r1, r2}
  None = None
  Environments <- MCFinalizing
  Stale = 2
  MaxWait = 2
  MaxStep = 2
  StepFailures = FALSE
SPECIFICATION Spec
PROPERTY ClearSparesLive
CHECK_DEADLOCK FALSE
