\* Three callers and batches of at most two; functions, Begin and Commit may fail.
\* Every caller calls once, and then all is done.
SPECIFICATION FairSpec
CONSTANTS
  Callers = {c1, c2, c3}
  MaxBatchSize = 2
  MaxBatches = 3
  NoOne = NoOne
CHECK_DEADLOCK FALSE
INVARIANTS
  ExactlyOnce
  WaitingIsQueued
PROPERTY
  EveryBatchReturns
