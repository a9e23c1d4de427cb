SPECIFICATION HttpWriteSpec
CONSTANTS
  Sizes = {3}
  WriteBlock = 3
  MaxWire = 9
CHECK_DEADLOCK FALSE
INVARIANT WireIsContents
