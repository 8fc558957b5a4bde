SPECIFICATION FairSpec
CONSTANTS
  NThreads = 3
  MaxFragments = 4
  NFrameNums = 2
PROPERTIES NoLateThread RendersEachOnce FinishesFrames
