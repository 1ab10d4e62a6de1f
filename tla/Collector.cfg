SPECIFICATION Spec
CONSTANTS
  x = x
  y = y
  Vars = {x, y}
  RootList <- MCRoots
  Ids = {1, 2, 3}
  Word = 2
  MIN_minspace = 10
  Fields = {1, 2}
  Sizes = {13}
  Reserves = {26}
  MaxSpaces = 3
  MaxBlocked = 1
  MaxOps = 5
  NULL = NULL
INVARIANTS SpacesSound
PROPERTIES MovingInvisible AllocationEndsUnlessCramped
