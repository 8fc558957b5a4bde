SPECIFICATION Spec
CONSTANTS
  None = None
  NoPath = "nopath"
  Obj <- MCObj
  Setup <- MCSetup
  Path <- MCPath
  PathOf <- MCPathOf
  Parts <- MCParts
  Clones <- MCClones
  Target <- MCTarget
  Pre <- MCPre
  Careless <- MCCareless
  Root = "rtv"
  Rtv = "rtv"
  MaxClones = 2
  MaxFails = 1
ACTION_CONSTRAINT Canonical
INVARIANTS NoDangling PreListed NoLeak
PROPERTY GcSpares
