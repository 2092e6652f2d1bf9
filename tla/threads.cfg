CONSTANTS
  Threads = {m, a}
  Creators = {m}
  Main = m
  MaxFails = 1
  SlotNum = 2
  NumKeys = 2
  MaxCreates = 4
  DeleteAny = FALSE
SPECIFICATION TSpec
INVARIANTS TypeOK DtorsRunOnce BlockHandover JoinTellsResult
PROPERTY JoinEnds
