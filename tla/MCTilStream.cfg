SPECIFICATION Spec
CONSTANTS
  a = a
  b = b
  rotation = rotation
  offset = offset
  Rkt = Rkt
  NoPipe = NoPipe
  Ctx <- Clones
  Name <- Both
  Scalar <- One
  Keyed <- One
  RktFirst = TRUE
  MaxFails = 1
  MaxFrame = 3
INVARIANT PipesLive
INVARIANT DriverTapped
INVARIANT SameVariable
INVARIANT OneWriter
INVARIANT RktWins
INVARIANT RktPipesFreed
CHECK_DEADLOCK FALSE
