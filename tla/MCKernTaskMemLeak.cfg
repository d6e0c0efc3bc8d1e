SPECIFICATION Spec
CONSTANTS
  BootRanges <- MCRanges
  PoolEnd = 75
  MaxRegions = 4
  HeaderSize = 2
  MinAlloc = 1
  MpuMin = 2
  MaxShift = 3
  Headers <- MCHeaders
  Jobs <- MCJobs
  KStackRequest <- MCKStack
  UserStackSize = 4
  StructRequest <- MCStruct
  BufferRequest <- MCBuffer
INVARIANTS
  NoLeak
CHECK_DEADLOCK FALSE
