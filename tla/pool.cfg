CONSTANTS
  NumThreads = 2
  Counts = {1, 2}
  MaxItems = 3
  LiveSubmit = FALSE
  LiveReset = FALSE
SPECIFICATION SpecNoTimeout
INVARIANTS TypeOK EachItemOnce SyncQuenches StopLeavesNobody StopDrains
PROPERTIES StopReturns LastItemSignals ImplementsWorkQueue
