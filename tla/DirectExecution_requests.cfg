CONSTANTS
  a = a
  b = b
  c = c
  z = z
  s = s
  t = t
  k = k
  Requests = {a, b, c, z}
  Steps = {s, t}
  Keys = {k}
  NoKey = NoKey
  KeyOf <- MCKeyOf
  Nobody = Nobody
  Value <- MCValue
  Cap = 3
  ProcessingTTL = 1
  StaleInflight = 2
  Day = 3
  MaxRaceRetries = 1
  Environments <- MCEnvironments
SPECIFICATION Spec
INVARIANTS SentOnce KeptAnswersAreTrue CapHolds
SYMMETRY MCSymmetry
CHECK_DEADLOCK FALSE
