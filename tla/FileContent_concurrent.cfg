SPECIFICATION FairSpec
CONSTANTS
  f1 = f1  s1 = s1  s2 = s2  d1 = d1  a = a  b = b
  Files = {f1}
  Sessions = {s1, s2}
  Dirs = {d1}
  Chunks = {a}
  Hole = Hole  NoFile = NoFile  NoSession = NoSession
  Workers = 2
  MaxLen = 2
  Faults = TRUE
  RemoteEdits = FALSE
  DirOf <- MCDirOf
INVARIANTS CleanCopyComplete DirtyHasPublisher
PROPERTIES OnlyWritersUpload CopyGoesLast HandlersReturn DirtyPublished
