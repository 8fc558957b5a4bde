SPECIFICATION FairSpec
CHECK_DEADLOCK FALSE
CONSTANTS
  Page = {p1, p2}
  NoPage = NoPage
  NPages = 2
  NFrames = 3
  FlipMayFail = TRUE
  Resizes = FALSE
  Snapshotting = FALSE
  Spurious = FALSE
PROPERTY HaltWakes
