\* Three threads, each kind of operation, two accounts, a fault at
\* every step.
CONSTANTS
  Threads = {t1, t2, t3}
  Accounts = {key, other}
  KeyAccount = key
  Ops <- EachWay
  MaxCalls = 1
  MaxFaults = 1
SYMMETRY Symmetric
SPECIFICATION Spec
INVARIANTS TypeOK EachTakenOnce TagAfterCreation RefusedOnlyIfDisturbed
CHECK_DEADLOCK FALSE
