CONSTANTS
  Requests <- MCRequests
  Day <- MCDay
  BatchLimit = 2
  Unpriced <- MCUnpriced
  Cutoffs <- MCCutoffs
  FirstBoundary = 2
  Jobs = {"serve", "run"}
  Overlap = TRUE
  MaxInterrupts = 0
SPECIFICATION Spec
INVARIANT BodyNeverLost
