SPECIFICATION TreeSpec
CONSTANTS
  Key = {1, 3, 5, 7}
  KeySpace = 32
  HalfInt = 4
  Sentinel = 31
  Hash <- MCHash
  Item <- MCItem
  MemtableThreshold = 1
  Level0Max = 1
  MaxLevel = 3
  LevelMax <- MCLevelMax
  MaxTime = 5
INVARIANTS
  CompactionTakesIntersecting
CHECK_DEADLOCK FALSE
