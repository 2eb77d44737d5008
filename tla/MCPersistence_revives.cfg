SPECIFICATION PersistSpec
CONSTANTS
  Key = {1, 2}
  KeySpace = 32
  HalfInt = 16
  Sentinel = 31
  Hash <- MCHash
  Item <- MCItem
  MemtableThreshold = 1
  Level0Max = 2
  MaxLevel = 3
  LevelMax <- MCLevelMax
  MaxTime = 4
INVARIANTS
  StartRevivesNothing
CHECK_DEADLOCK FALSE
