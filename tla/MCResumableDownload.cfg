\* Faults at every step, every request, an update of the object at any time.
CONSTANTS
  Sizes = {0, 4, 5}
  PartSizes = {2, 3, 4}
  SegmentSize = 2
  Requests <- AllRequests
  MaxUpdates = 1
SPECIFICATION FairSpec
INVARIANTS TypeOK TempIsPrefix FinalIsExact
PROPERTIES ResumeKeepsWholeParts CallReturns
