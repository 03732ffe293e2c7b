SPECIFICATION Spec
CONSTANTS
  MaxPending = 2
  MaxWorkers = 3
  MaxCalls = 4
INVARIANTS
  TypeOK
  OneWorker
  DisposedLeavesNoWorker
  OpenHandleIsServed
PROPERTIES
  EarlierCallsAnswered
  EveryCallReturns
CHECK_DEADLOCK FALSE
