SPECIFICATION HttpBufSpec
CONSTANTS
  Length = 5
  ScanBlock = 3
  Message <- MCMessage
  ReadBlock = 4
  Forbidden = {"bad"}
  Sizes = {0, 1, 3, 5}
  WriteBlock = 3
  MaxWire = 9
CHECK_DEADLOCK FALSE
INVARIANTS
  HeaderEndInv
  FoundIsEnd
  PlainEndIsFound
  HttpBodyTypeOK
  BodyIsContent
  NeverWaitsForMore
  XheadersAreTrailer
  HttpWriteTypeOK
  SuccessIsComplete
