CONSTANTS
  NumThreads = 2
  Counts = {1}
  MaxItems = 2
  LiveSubmit = TRUE
  LiveReset = FALSE
SPECIFICATION Spec
INVARIANT EachItemOnce
