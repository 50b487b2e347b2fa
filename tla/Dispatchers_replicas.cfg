SPECIFICATION EitherSpec
CONSTANTS
  r1 = r1
  r2 = r2
  Replicas = {r1, r2}
  Nobody = Nobody
  LeaseDuration = 6
  RenewDeadline = 2
  RetryPeriod = 1
  MaxAhead = 1
  Conditions <- MCConditions
  Pods = {r1, r2}
  Chains = {1, 2}
  Minute = 2
  Offset = 1
  MaxAttempts = 2
  Due = {2, 3}
  Horizon = 5
  MaxTerms = 2
  MaxTroubles = 2
INVARIANTS TypeOK OneLeader HandoverBounded StartedOnce NoneStranded Attended
CHECK_DEADLOCK FALSE
