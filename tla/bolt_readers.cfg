\* Two readers that come and go while the writer commits, and crashes: the
\* extents of ReleasePendingPages, and the freelist rebuilt from the tree.
SPECIFICATION Spec
CONSTANTS
  Readers = {r1, r2}
  MaxPgid = 6
  MaxTxid = 5
  MaxRun = 2
  MaxNodes = 1
  IdsPerPage = 8
  MaxCount = 3
  NoFreelistSync = TRUE
  Faults = {"crash"}
SYMMETRY ReaderSymmetry
INVARIANTS
  NoLeak
  IInv
PROPERTIES
  SnapshotIsolation
  ReleaseComplete
