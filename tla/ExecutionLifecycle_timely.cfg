CONSTANTS
  d1 = d1
  d2 = d2
  Deliveries = {d1, d2}
  None = None
  Target = "k8s-job"
  MaxAge = 3
  Environments <- MCTimely
SPECIFICATION Spec
CHECK_DEADLOCK FALSE
INVARIANTS OneRunPerTrigger RefusedNeverRan FailureStands
SYMMETRY DeliverySymmetry
