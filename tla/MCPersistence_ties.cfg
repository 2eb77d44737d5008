SPECIFICATION PersistSpec
CONSTANTS
  Key = {0, 1, 3}
  KeySpace = 32
  HalfInt = 16
  Sentinel = 31
  Hash <- MCHash
  Item <- MCItem
  MemtableThreshold = 2
  Level0Max = 2
  MaxLevel = 3
  LevelMax <- MCLevelMax
  MaxTime = 4
PROPERTIES
  FlushedAlwaysWins
CHECK_DEADLOCK FALSE
