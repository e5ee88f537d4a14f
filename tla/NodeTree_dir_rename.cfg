SPECIFICATION Spec
CONSTANTS
  Ids <- IdsTo3
  Nodes <- NodesTo9
  Names = {x, y}
  NoName = NoName
  MaxDepth = 2
  FailAt = {}
  Renames = "all"
  Handles = {}
  RmFull = TRUE
  AssertsOn = TRUE
PROPERTIES RemovesOnlyNamed
SYMMETRY Sym
