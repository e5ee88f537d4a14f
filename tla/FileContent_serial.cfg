SPECIFICATION Spec
CONSTANTS
  f1 = f1  s1 = s1  s2 = s2  d1 = d1  a = a  b = b
  Files = {f1}
  Sessions = {s1, s2}
  Dirs = {d1}
  Chunks = {a, b}
  Hole = Hole  NoFile = NoFile  NoSession = NoSession
  Workers = 1
  MaxLen = 2
  Faults = TRUE
  RemoteEdits = TRUE
  DirOf <- MCDirOf
SYMMETRY Sym
INVARIANTS TypeOK QuietMirrored
PROPERTY ImplementsCloseToOpen
