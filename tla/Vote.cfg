SPECIFICATION MCSpec
CONSTANTS
  k1 = k1
  k2 = k2
  MaxLockoutHistory = 3
  MaxSlot = 5
  MaxSlotHashes = 2
  GraceSlots = 1
  MaxCreditsPerSlot = 3
  VoteInputs <- MCVoteInputs
  StackInputs <- MCStackInputs
  Keys <- MCKeys
  Nodes <- MCNode
  Commissions = {0, 1}
  LastSlot = 5
  SlotsPerEpoch = 2
  ScheduleOffset = 2
  MaxItems = 2
  RentV1_14_11 = 1
  RentCurrent = 2
  MaxLamports = 2
  MaxClosed = 1
  Scenarios <- MCScenarios
  MaxCrashes = 1
  MaxQueue = 1
INVARIANTS
  VotesOnFork
  
  VoterRecordsTrue
  RentExempt
  
  VoteLands
  NeverBehind
  
PROPERTIES
  NoRollback
CHECK_DEADLOCK FALSE
