CONSTANTS
  Threads = {a, b, c}
  Lockers = {a, b}
  MTypes = {2, 3, 6}
  Deadlines = {3, 5}
  TicksPerSec = 2
  StartSec = 1
  MaxSec = 4
  MaxDepth = 2
SPECIFICATION LSpec
INVARIANTS RunsOnce MTypeOK LocksAgree InitBeforeUse
PROPERTIES ReturnsAfterFunc CallReturns NoEarlyTimeout TimedLockReturns
