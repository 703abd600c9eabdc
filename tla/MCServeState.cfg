CONSTANTS
  Procs <- MCProcs
  MaxCrashes = 2
SPECIFICATION FairSpec
INVARIANT TypeOK
 
INVARIANT FileGoneStoreClosed
 
PROPERTY StopLeadsToExit
CHECK_DEADLOCK FALSE
