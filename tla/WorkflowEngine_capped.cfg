CONSTANTS
  None = None
  Graphs <- MCGraphs
  MaxIterations = 2
  MaxTraversals = 3
SPECIFICATION Spec
INVARIANT CapFailsTheRun
CHECK_DEADLOCK FALSE
