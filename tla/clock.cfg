CONSTANTS
  Threads = {a, b}
  NumClocks = 3
  Frequency <- MCFrequency
  X86 = 3
  Cpuids <- MCCpuids
  HzPerMHz = 1
  NsPerSec = 4
  MsPerSec = 2
  Wrap64 = 40
  Wrap32 = 16
  Windows = FALSE
  Reltimes = {1, 3}
  Epoch <- MCEpoch
  StartNow = 8
  MaxNow = 14
SPECIFICATION RSpec
INVARIANTS TypeOK ChosenIsBest DeadlineExact RevalidatesSoon
PROPERTY ChosenForGood
