SPECIFICATION Spec
CHECK_DEADLOCK FALSE
CONSTANTS
  m1 = m1
  m2 = m2
  NoSlot = NoSlot
  Slots <- MCSlots
  Hashes <- MCSlots
  MsgKeys = {m1, m2}
  HashOf <- MCHashOf
  MaxEntries = 2
  MaxAge = 2
  MaxQueueAge = 2
INVARIANTS
  AtMostOnce
  StatusVisible
