SPECIFICATION PersistSpec
CONSTANTS
  Key = {0, 1, 3}
  KeySpace = 32
  HalfInt = 16
  Sentinel = 31
  Hash <- MCHash
  Item <- MCItem
  MemtableThreshold = 2
  Level0Max = 1
  MaxLevel = 3
  LevelMax <- MCLevelMax
  MaxTime = 4
INVARIANTS
  PersistTypeOK
  FilesMatchLevels
  PersistInv
PROPERTIES
  FlushedWins
  CrashLosesNothingMore
CHECK_DEADLOCK FALSE
