SPECIFICATION DurableSpec
CONSTANTS
  Key = {1, 2}
  KeySpace = 32
  HalfInt = 16
  Sentinel = 31
  Hash <- MCHash
  Item <- MCItem
  MemtableThreshold = 2
  Level0Max = 2
  MaxLevel = 3
  LevelMax <- MCLevelMax
  MaxTime = 4
  Value = {v1}
  Empty = Empty
  Deleted = Deleted
  Junk = Junk
  MaxLog = 4
  MaxChunk = 2
PROPERTIES
  ReleasedIsUnneeded
CHECK_DEADLOCK FALSE
