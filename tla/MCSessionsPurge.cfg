CONSTANTS
  Kinds <- MCKinds
  Gap = 1
  NullWindow = 0
  Backdate = 1
  BatchSize = 2
  MaxCalls = 3
  MaxTime = 2
  MaxPurges = 1
  MaxFaults = 0
SPECIFICATION Spec
INVARIANT NoPhantomCalls
CHECK_DEADLOCK FALSE
