CONSTANTS
  Requests <- MCRequests
  Day <- MCDay
  BatchLimit = 2
  Unpriced <- MCUnpriced
  Cutoffs <- MCCutoffs
  FirstBoundary = 4
  Jobs = {"serve", "purge"}
  Overlap = FALSE
  MaxInterrupts = 0
SPECIFICATION FairSpec
PROPERTY PurgedBodyCollected
