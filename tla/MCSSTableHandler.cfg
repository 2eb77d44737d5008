SPECIFICATION MCSpec
CONSTANTS
  Key = {0, 1, 3}
  KeySpace = 32
  HalfInt = 16
  Sentinel = 31
  Hash <- MCHash
  Item <- MCItem
  MemtableThreshold = 2
  Level0Max = 1
  MaxLevel = 4
  LevelMax <- TightLevelMax
  MaxTime = 6
INVARIANTS
  TreeTypeOK
  AgeOrder
  OverlongLevelsLackDirectory
  LevelsDisjoint
  TreeInv
PROPERTIES
  IndexSpec
CHECK_DEADLOCK FALSE
