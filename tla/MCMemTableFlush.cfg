SPECIFICATION FlushSpec
CONSTANTS
  Key = {1, 2, 3, 4}
  Payload = {v1, v2}
  Value = {v1, v2}
  Sentinel = 2
  Nothing = Nothing
  Empty = Empty
  HeadNode = HeadNode
  NullPtr = NullPtr
  MaxHeight = 2
INVARIANTS
  SearchTypeOK
  ListTypeOK
  LevelsLinked
  SizeCounts
  ScansAscend
  SearchBounds
  GetCorrect
  ScanCorrect
PROPERTIES
  CallsTakeEffect
  FlushKeepsPairs
  SearchEnds
CHECK_DEADLOCK FALSE
