SPECIFICATION FairSpec
CONSTANTS
  s1 = s1
  s2 = s2
  s3 = s3
  e1 = e1
  e2 = e2
  None = None
  Sessions = {s1, s2, s3}
  Executions = {e1, e2}
  Exec <- MCExec
  TTL = 2
  MaxSession = 2
  Environments <- MCEnvironments
  MaxOut = 1
  ParallelSteps = FALSE
INVARIANTS MutualExclusion WedgeBounded
PROPERTIES ImplementsLease ReleaseFreesOwnRow NoFalseLoss TakeoverNoticed
