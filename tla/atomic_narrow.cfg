CONSTANTS
  Threads = {a, b}
  Width = 2
  ArgWidth = 1
  Args = {{}, {0}}
  Ops = {"fetch_add", "fetch_sub", "test_and_set", "clear"}
  MaxCalls = 3
SPECIFICATION Spec
PROPERTY ImplementsAtomicObject
