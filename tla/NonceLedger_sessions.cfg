SPECIFICATION Spec
CONSTANTS
  n1 = n1
  n2 = n2
  None = None
  Sessions = {s1, s2, s3}
  Nodes = {n1, n2}
  MaxNonce = 3
  Environments <- MCEnvironments
INVARIANTS TypeOK RowsProtectNonces ConfirmedIsMined NoHoleBelow
PROPERTIES NothingDisplaced
SYMMETRY SessionSymmetry
CHECK_DEADLOCK FALSE
