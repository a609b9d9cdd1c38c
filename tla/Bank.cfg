SPECIFICATION MCSpec
CHECK_DEADLOCK FALSE
CONSTANTS
  a = a
  b = b
  prog = prog
  Keys = {a, b}
  NoKey = NoKey
  System = System
  Programs = {prog}
  Derivations <- BaseDerivesB
  Lens = {0, 2, 3}
  TagLen = 1
  NonceLen = 2
  MaxLen = 2
  MinBalance <- MCMinBalance
  MaxResize = 3
  Fee = 1
  Amounts = {1, 2}
  MaxBlockhash = 2
  MaxInstructions = 2
INVARIANTS
  NonceNeverReused
PROPERTIES
  SupplyConserved
  SpendAuthorized
  RentPayingOnlyDrains
