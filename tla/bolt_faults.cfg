\* One reader; every operation of the environment may fail at any step.
SPECIFICATION Spec
CONSTANTS
  Readers = {r1}
  MaxPgid = 7
  MaxTxid = 4
  MaxRun = 2
  MaxNodes = 2
  IdsPerPage = 4
  MaxCount = 2
  NoFreelistSync = FALSE
  Faults = {"alloc", "grow", "write", "sync", "writeMeta", "syncMeta", "crash"}
INVARIANTS
  VisibleNotFree
  DirtyIsPrivate
  NeverPanics
  CacheExact
  RecoverableIntact
  AckedSurvives
  FreelistFits
PROPERTY
  ImplementsStore
