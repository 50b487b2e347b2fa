CONSTANTS
  r1 = r1
  r2 = r2
  r3 = r3
  Replays = {r1, r2, r3}
  None = None
  Environments <- MCEnvironments
  Stale = 6
  MaxWait = 6
  MaxStep = 2
  StepFailures = TRUE
SPECIFICATION FairSpec
INVARIANTS SoleOwner AtMostOneRuns
PROPERTIES ReleaseSparesOthers EveryReplayDecides FinishedNotRerun
CHECK_DEADLOCK FALSE
