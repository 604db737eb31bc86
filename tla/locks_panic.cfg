\* A callback panics.
SPECIFICATION Spec
CONSTANTS
  Readers = {r1}
  Writers = {w1}
  Closers = {}
  NoOne = NoOne
  MaxRemaps = 1
CHECK_DEADLOCK FALSE
INVARIANT
  PanicReleases
