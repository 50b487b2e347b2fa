CONSTANTS
  None = None
  Graphs <- MCGraphs
  MaxIterations = 2
  MaxTraversals = 3
SPECIFICATION FairSpec
INVARIANTS TypeOK SkippedDidNotRun FailuresShow GreenRunsWhole OrphansWereCutOff
PROPERTIES JoinsWait NotTakenNeverRuns EveryRunEnds
CHECK_DEADLOCK FALSE
