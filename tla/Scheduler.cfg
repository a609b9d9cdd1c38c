SPECIFICATION FairSpec
CONSTANTS
  x = x
  y = y
  Keys <- MCKeys
  Txs <- MCTxs
  Writable <- MCWritable
  Readonly <- MCReadonly
  NumThreads = 2
  Capacity = 3
  Window = 2
  BatchTarget = 2
  MaxPass = 3
  Decisions = {"Consume", "Forward", "ForwardAndHold", "Hold"}
INVARIANTS
  ConflictsSeparated
  PriorityKept
  ContainerConsistent
PROPERTIES
  HighestIsScheduled
