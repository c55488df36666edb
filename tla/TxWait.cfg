\* Every operation, two failed requests.
CONSTANTS
  WaitOps = {"update", "cancel", "proposal", "wait"}
  MaxFailures = 2
SPECIFICATION FairWaitSpec
INVARIANTS WaitTypeOK AnswerIsTrue AsksOncePerBlock
PROPERTY WaitEnds
