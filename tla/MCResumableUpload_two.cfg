\* Two callers upload the same object at once, and try again after failures.
\* The object ends where a part of one size ends, and within one of the other.
CONSTANTS
  Clients = {c1, c2}
  Size = 6
  PartSizes = {2, 4}
  SegmentSize = 1
  Sources <- FullSource
  Kinds <- Resumable
  MaxFaults = 2
SPECIFICATION RetrySpec
PROPERTIES ImplementsPromise RetriesComplete
