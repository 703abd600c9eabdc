CONSTANTS
  Requests <- MCRequests
  Day <- MCDay
  BatchLimit = 2
  Unpriced <- MCUnpriced
  Cutoffs <- MCCutoffs
  FirstBoundary = 2
  Jobs = {"serve"}
  Overlap = FALSE
  MaxInterrupts = 1
SPECIFICATION FairSpec
PROPERTY PurgedBodyCollected
PROPERTY OldBodyArchived
