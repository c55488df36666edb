\* Two threads, an operation of each kind, two connections.
CONSTANTS
  Threads = {t1, t2}
  Ops <- EachWay
  MaxConns = 2
  MaxCalls = 2
SPECIFICATION Spec
INVARIANTS TypeOK BodiesReturned AnswerIsWhole FileIsWhole
PROPERTY CallEnds
CHECK_DEADLOCK FALSE
