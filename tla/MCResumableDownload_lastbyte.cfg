CONSTANTS
  Sizes = {5}
  PartSizes = {2}
  SegmentSize = 2
  Requests <- WholeObject
  MaxUpdates = 0
SPECIFICATION Spec
INVARIANT DownloadedAsRequested
