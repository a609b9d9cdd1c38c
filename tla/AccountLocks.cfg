SPECIFICATION Spec
CONSTANTS
  x = x
  y = y
  t1 = t1
  t2 = t2
  t3 = t3
  t4 = t4
  w1 = w1
  w2 = w2
  Keys = {x, y}
  Txs <- MCTxs
  Writable <- MCWritable
  Readonly <- MCReadonly
  Workers = {w1, w2}
  NoWorker = NoWorker
  MaxBatch = 3
INVARIANTS
  HoldersExclusive
  UnlocksFindTheirLock
PROPERTIES
  TableSpec
