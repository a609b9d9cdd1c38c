CONSTANTS
  w1 = w1 w2 = w2 t1 = t1 t2 = t2
  payer1 = payer1 payer2 = payer2 shared = shared
  Workers = {w1, w2}
  Txs = {t1, t2}
  Keys = {payer1, payer2, shared}
  Writable <- MCWritable
  Readonly <- MCReadonly
  NoSlot = NoSlot
  NoTx = NoTx
  TicksPerSlot = 1
  MaxSlot = 2
  Loads <- MCLoads
SPECIFICATION FairSpec
INVARIANTS FrozenMatchesLedger ReplayAgrees BlockhashOfSlotStart RecordedOnce LeaderAssertions
PROPERTIES CompleteBanksFreeze
