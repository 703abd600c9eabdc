CONSTANTS
  Requests <- MCRequests
  Day <- MCDay
  BatchLimit = 2
  Unpriced <- MCUnpriced
  Cutoffs = {}
  FirstBoundary = 4
  Jobs <- AllJobs
  Overlap = FALSE
  MaxInterrupts = 1
SPECIFICATION Spec
INVARIANT TypeOK
INVARIANT BodyNeverLost
INVARIANT OneMarker
INVARIANT ReadsHydrate
PROPERTY CopyFirstDropLast
