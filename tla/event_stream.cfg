SPECIFICATION FairSpec
CONSTANTS
  ChunkBytes = 2
  MaxOutput = 2
  MaxEvents = 2
  MaxBytes = 2
  MaxReconnects = 1
  MaxWrite = 3
  MaxWritten = 4
  MaxTrouble = 1
CHECK_DEADLOCK FALSE
INVARIANTS GapsAreTold OutputIsKept
PROPERTIES ClientSettles
