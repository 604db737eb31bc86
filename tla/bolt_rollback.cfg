\* The write of a meta page may fail; nothing crashes.
SPECIFICATION Spec
CONSTANTS
  Readers = {r1}
  MaxPgid = 6
  MaxTxid = 4
  MaxRun = 1
  MaxNodes = 2
  IdsPerPage = 8
  MaxCount = 3
  NoFreelistSync = FALSE
  Faults = {"writeMeta"}
PROPERTY
  RollbackReleasesAllocations
