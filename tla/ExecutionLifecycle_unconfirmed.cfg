CONSTANTS
  d1 = d1
  d2 = d2
  Deliveries = {d1, d2}
  None = None
  Target = "k8s-job"
  MaxAge = 1
  Environments <- MCSingle
SPECIFICATION Spec
CHECK_DEADLOCK FALSE
PROPERTY UnconfirmedHeld
