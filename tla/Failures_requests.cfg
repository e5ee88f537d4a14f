CONSTANTS
  t1 = t1
  t2 = t2
  Threads <- MCThreads
  Statuses <- MCStatuses
  DiskErrors <- MCDiskErrors
  Texts <- MCTexts
SPECIFICATION Spec
INVARIANTS
  TypeOK
  FailuresReported
  RefusalsAreReal
  ArgumentsVerbatim
