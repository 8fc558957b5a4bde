SPECIFICATION Spec
CONSTANTS
  Page = {p1, p2, p3}
  NoPage = NoPage
  NPages = 3
  NFrames = 4
  FlipMayFail = FALSE
  Resizes = TRUE
  Snapshotting = FALSE
  Spurious = FALSE
INVARIANT RebuildsAllPages
