CONSTANTS
  d1 = d1
  d2 = d2
  Deliveries = {d1, d2}
  None = None
  Target = "in-process"
  MaxAge = 3
  Environments <- MCFair
SPECIFICATION FairSpec
INVARIANT LaunchesAreClaimed
PROPERTIES CancelStands SuccessStands RowSettles
CHECK_DEADLOCK FALSE
