SPECIFICATION Spec
CONSTANTS
  Ids <- IdsTo3
  Nodes <- NodesTo9
  Names = {x, y}
  NoName = NoName
  MaxDepth = 2
  FailAt = {0, 2}
  Renames = "none"
  Handles = {}
  RmFull = TRUE
  AssertsOn = TRUE
INVARIANTS TreeShape CacheAgrees
PROPERTIES FilledWhenComplete RemovesOnlyNamed
SYMMETRY Sym
