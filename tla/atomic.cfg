CONSTANTS
  Threads = {a, b}
  Width = 2
  ArgWidth = 2
  Args = {{}, {0}, {1}, {0, 1}}
  Ops = {"load", "exchange", "cas", "fetch_add", "fetch_sub", "fetch_and", "fetch_or", "fetch_xor", "test_and_set", "clear"}
  MaxCalls = 3
SPECIFICATION FairSpec
PROPERTIES ImplementsAtomicObject CallsReturn
