SPECIFICATION Spec
CONSTANTS
  NThreads = 3
  MaxFragments = 3
  NFrameNums = 2
INVARIANT CpuInRange
