SPECIFICATION KVSpec
CONSTANTS
  Key = {1, 2}
  KeySpace = 32
  HalfInt = 16
  Sentinel = 31
  Hash <- MCHash
  Item <- MCItem
  MemtableThreshold = 2
  Level0Max = 2
  MaxLevel = 4
  LevelMax <- MCLevelMax
  MaxTime = 4
  Value = {v1}
  Empty = Empty
  Deleted = Deleted
  Junk = Junk
  MaxLog = 5
  MaxChunk = 2
INVARIANTS
  GetReturnsValues
CHECK_DEADLOCK FALSE
