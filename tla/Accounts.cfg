SPECIFICATION Spec
CONSTANTS
  Keys = {"clock", "a"}
  Sysvar = "clock"
  MaxSlot = 4
  Worlds <- MCWorlds
INVARIANTS
  ReadsRight
  SnapshotRestores
  CountsExact
