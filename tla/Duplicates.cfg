SPECIFICATION FairSpec
CONSTANTS
    Stake <- MCStake
    EpochStart = 2
    Worlds <- MCWorlds
CHECK_DEADLOCK FALSE
INVARIANTS
    TreeExact
    BestIsReplayed
    MarksRight
PROPERTY
    RepairConverges
