\* Views, Updates and Closes, with failing remaps and panicking callbacks; a
\* panic leaves a lock taken, after which everybody may be waiting for ever.
SPECIFICATION FairSpec
CONSTANTS
  Readers = {r1, r2}
  Writers = {w1, w2}
  Closers = {c1}
  NoOne = NoOne
  MaxRemaps = 2
CHECK_DEADLOCK FALSE
INVARIANTS
  LockOwners
  ReadersKeepTheMap
  WritersKeepTheMap
  NoCircularWait
PROPERTY
  EveryCallReturns
