SPECIFICATION Spec
CONSTANTS
  wallet = wallet
  vault = vault
  config = config
  P = P
  Q = Q
  System = System
  Keys = {wallet, vault, config}
  Programs = {P, Q}
  Data = {0, 1}
  Zero = 0
  Signers = {wallet}
  Writable = {wallet, vault}
  Derived <- MCDerived
  Flags <- MCFlags
  Instructions <- MCInstructions
  Loads <- MCLoads
  MaxLamports = 2
  MaxWrites = 2
  MaxDepth = 3
  MaxTrace = 3
INVARIANTS TotalKept 
PROPERTIES SpendsSigned
CHECK_DEADLOCK FALSE
