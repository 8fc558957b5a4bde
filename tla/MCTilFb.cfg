SPECIFICATION Spec
CONSTANTS
  Page = {p1, p2, p3, p4, p5}
  NoPage = NoPage
  NPages = 3
  NFrames = 4
  FlipMayFail = TRUE
  Resizes = TRUE
  Snapshotting = TRUE
  Spurious = TRUE
SYMMETRY Symmetry
INVARIANTS OneOwner NoTearing DelayDefined FreesAllPages
PROPERTIES RebuildsOnlyIdle ShowsInOrder
