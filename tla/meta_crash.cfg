\* A meta page in three parts, one reader; writes and syncs fail, and a crash may
\* come at any point.
SPECIFICATION Spec
CONSTANTS
  Readers = {r1}
  Fields = {"txid", "root", "checksum"}
  MaxTxid = 6
  Faults = {"write", "sync", "crash"}
INVARIANTS
  OneSurvives
  SnapshotFresh
