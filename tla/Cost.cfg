SPECIFICATION Spec
CONSTANTS
  x = x y = y t1 = t1 t2 = t2 t3 = t3 v1 = v1 w1 = w1 w2 = w2
  Keys = {x, y}
  Txs <- MCTxs
  WritableOf <- MCWritableOf
  ExecutionCost <- MCExecutionCost
  OtherCost <- MCOtherCost
  DataSize <- MCDataSize
  SimpleVotes = {v1}
  Units = {0, 3}
  BlockLimit = 8
  VoteLimit = 2
  AccountLimit = 5
  DataLimit = 1
  Workers = {w1, w2}
  NoWorker = NoWorker
INVARIANTS
  CostsAccounted
  ReplayAccepts
CHECK_DEADLOCK FALSE
