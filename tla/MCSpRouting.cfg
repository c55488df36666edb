\* Two callers; SPs come, change and leave, endpoints may be malformed; the bucket moves
\* between two families.
CONSTANTS
  Callers = {c1, c2}
  SPs = {1, 2}
  Operator <- OwnOperator
  Endpoints = {a, b, f}
  Malformed = malformed
  Absent = absent
  Registered <- AlsoMalformed
  Families = {g, h}
  ForcedTo = {f, malformed, absent}
  MaxChanges = 2
SYMMETRY Symmetric
SPECIFICATION Spec
INVARIANTS TypeOK RoutedToWanted BucketMissIsTrue RefreshIsCurrent
CHECK_DEADLOCK FALSE
