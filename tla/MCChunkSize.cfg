SPECIFICATION HttpBufSpec
CONSTANTS
  Length = 2
  ScanBlock = 2
  Message <- MCMessage
  ReadBlock = 4
  Forbidden = {"bad"}
  Sizes = {1}
  WriteBlock = 1
  MaxWire = 1
CHECK_DEADLOCK FALSE
INVARIANTS
  ChunkSizeRead
