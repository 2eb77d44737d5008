SPECIFICATION VLogSpec
CONSTANTS
  k1 = k1
  k2 = k2
  Entry <- MCEntry
  Zero = Zero
  Byte = Byte
  PageSize = 2
  MaxBatch = 2
  MaxUnits = 10
  MaxChunk = 4
INVARIANTS
  VLogTypeOK
  ScanAligned
  VLogInv
PROPERTIES
  GcRecycles
  QueueSpec
  GcEnds
CHECK_DEADLOCK FALSE
