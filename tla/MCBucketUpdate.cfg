\* Two clients, who wait for each other or not; a quota with its highest bit set.
CONSTANTS
  Clients = {c1, c2}
  Visibilities = {public, private}
  Accounts = {a1, a2}
  Quotas = {2, 5}
  Unspecified = unspecified
  Half = 4
  MaxCalls = 2
SYMMETRY Symmetric
SPECIFICATION Spec
INVARIANTS TypeOK UpdatesAreExact PatientUpdatesAreExact
CHECK_DEADLOCK FALSE
