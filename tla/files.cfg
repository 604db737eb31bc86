\* Growth: sizes in pages.  Surgery: three commands.  Compaction: two runs.
SPECIFICATION FilesSpec
CONSTANTS
  MinMap = 2
  MmapStep = 16
  MaxMapSize = 40
  AllocSize = 12
  OptionSet <- Modes
  Counts = {1, 3}
  MaxPages = 10
  Pgids = {2, 3, 4, 5, 6, 7, 8, 9, 10}
  Start <- OneFile
  MetaFields = {"root", "freelist"}
  Commands = 3
  Copied = {4, 6, 7, 10}
  SeedKeys = {1, 5}
  Sources <- Trees
  TxMaxSizes = {0, 1, 4, 7}
  KeySize = 1
  Runs = 2
INVARIANTS
  MmapCovers
  FileCovers
  CheckFinds
  QuietlySound
  XRayFinds
  DstIsPrefix
  TxBounded
PROPERTY
  WithinMaxSize
CHECK_DEADLOCK FALSE
