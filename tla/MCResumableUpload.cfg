\* One caller, every option, every kind of reader, a fault at every step.
CONSTANTS
  Clients = {c1}
  Size = 6
  PartSizes = {2, 3, 4, 6}
  SegmentSize = 2
  Sources <- AllSources
  Kinds <- AllKinds
  MaxFaults = 3
SPECIFICATION FairSpec
INVARIANTS TypeOK StoredInPlace StoredWithoutHole SuccessMeansReceived
PROPERTY CallReturns
