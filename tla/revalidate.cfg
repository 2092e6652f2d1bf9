CONSTANTS
  Threads = {a}
  NumClocks = 3
  Frequency <- MCFrequency
  X86 = 3
  Cpuids <- MCCpuids
  HzPerMHz = 1
  NsPerSec = 4
  MsPerSec = 2
  Wrap64 = 1000
  Wrap32 = 100
  Windows = TRUE
  Reltimes = {2}
  Epoch <- MCEpoch
  StartNow = 8
  MaxNow = 14
SPECIFICATION RSpec
INVARIANT RevalidatesSoon
