CONSTANTS
  NumThreads = 1
  Counts = {1, 2}
  MaxItems = 3
  LiveSubmit = TRUE
  LiveReset = FALSE
SPECIFICATION FairSpec
INVARIANTS EachItemOnce SyncQuenches
PROPERTIES SyncReturns WorkIsDone
