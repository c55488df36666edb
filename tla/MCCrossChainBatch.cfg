\* Two callers send one batch each, from one of two accounts.
CONSTANTS
  Callers = {c1, c2}
  Accounts = {a1, a2}
  Ops <- EachWay
  FeeTables <- Tables
  GasLimits = {2}
  Amounts = {5}
  NoAck = NoAck
  Acks = {1}
  MaxWork = 3
SPECIFICATION Spec
INVARIANTS TypeOK RevertsForCause ExecutedOnce FatalHasCause
PROPERTY SentHasReceipt
CHECK_DEADLOCK FALSE
