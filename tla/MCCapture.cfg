SPECIFICATION Spec
CONSTANTS
  c1 = c1
  c2 = c2
  c3 = c3
  c4 = c4
  Calls <- FourCalls
  Capacity = 2
  BatchSize = 2
  Panics <- PanicCalls
  BadRows <- BadRowCalls
  Warned <- WarnedCalls
  MaxFaults = 1
INVARIANT TypeOK
INVARIANT EveryCallInOnePlace
INVARIANT OneFaultCostsOneCall
INVARIANT StatsAddUp
INVARIANT TimerGuardsBatch
INVARIANT BatchWithinLimit
INVARIANT EveryRowFinished
PROPERTY ImplementsLog
