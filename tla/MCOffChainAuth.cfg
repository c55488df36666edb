\* Two clients, two SPs, a call each after New and two faults.
CONSTANTS
  k1 = k1
  k2 = k2
  Clients = {c1, c2}
  SPs = {s1, s2}
  NoSP = NoSP
  Seeds = {k1, k2}
  NoKey = NoKey
  Options <- EachOption
  MaxCalls = 1
  MaxFaults = 2
SPECIFICATION Spec
INVARIANTS TypeOK AcceptedIfUndisturbed
PROPERTY NewReturns
CHECK_DEADLOCK FALSE
