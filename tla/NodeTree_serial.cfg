SPECIFICATION Spec
CONSTANTS
  Ids <- IdsTo4
  Nodes <- NodesTo11
  Names = {x, y}
  NoName = NoName
  MaxDepth = 2
  FailAt = {}
  Renames = "files"
  Handles = {}
  RmFull = TRUE
  AssertsOn = TRUE
INVARIANTS TypeOK TreeMirrorsDrive LookupAnswersDrive
PROPERTIES ImplementsNamespace
SYMMETRY Sym
