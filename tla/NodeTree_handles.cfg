SPECIFICATION Spec
CONSTANTS
  Ids <- IdsTo3
  Nodes <- NodesTo9
  Names = {x, y}
  NoName = NoName
  MaxDepth = 2
  FailAt = {}
  Renames = "files"
  Handles = {h1}
  RmFull = FALSE
  AssertsOn = TRUE
INVARIANTS HandlesValid
SYMMETRY Sym
