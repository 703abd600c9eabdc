CONSTANTS
  Kinds <- MCKinds
  Gap = 1
  NullWindow = 0
  Backdate = 1
  BatchSize = 2
  MaxCalls = 3
  MaxTime = 2
  MaxPurges = 2
  MaxFaults = 1
SPECIFICATION Spec
INVARIANT TypeOK
INVARIANT TotalsMatchRows
INVARIANT KeysApart
INVARIANT GroupedByGap
INVARIANT ReferencesIntact
CHECK_DEADLOCK FALSE
