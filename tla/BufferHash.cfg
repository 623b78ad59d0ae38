SPECIFICATION SizeSpec
CONSTANTS
  Byte = {0, 1, 2}
  Zero = 0
  Initials <- NewOrStatic
  MaxWriteBytes = 5
  SpillThreshold = 3
  MaxChunk = 2
  MaxCalls = 3
INVARIANTS
  HashIsOfData
CHECK_DEADLOCK FALSE
