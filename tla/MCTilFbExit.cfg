SPECIFICATION FairSpec
CHECK_DEADLOCK FALSE
CONSTANTS
  Page = {p1, p2, p3, p4}
  NoPage = NoPage
  NPages = 3
  NFrames = 4
  FlipMayFail = TRUE
  Resizes = FALSE
  Snapshotting = TRUE
  Spurious = FALSE
PROPERTIES ShowsEventually EndExits HaltExits
