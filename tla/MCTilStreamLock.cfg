SPECIFICATION Spec
CONSTANTS
  a = a
  b = b
  rotation = rotation
  offset = offset
  Rkt = Rkt
  NoPipe = NoPipe
  Ctx <- Clones
  Name <- Both
  Scalar <- One
  Keyed <- One
  RktFirst = TRUE
  MaxFails = 2
  MaxFrame = 2
INVARIANT MutexReleased
CHECK_DEADLOCK FALSE
