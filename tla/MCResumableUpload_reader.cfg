\* The caller's reader fails with an error that is not EOF.
CONSTANTS
  Clients = {c1}
  Size = 5
  PartSizes = {2}
  SegmentSize = 1
  Sources <- FailingSources
  Kinds <- Resumable
  MaxFaults = 0
SPECIFICATION Spec
INVARIANT TotalIsSize
