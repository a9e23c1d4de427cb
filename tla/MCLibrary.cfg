SPECIFICATION LibrarySpec
CONSTANTS
  Obj = {o1, o2}
  SecsMax = 2
  Granularity = 2
  Million = 2
  Thousand = 4
  Delays = {1, 3}
  MaxGap = 7
  MaxLag = 2
  MaxSecs = 3
  InSize = 3
  OutSize = 3
  Small = 3
  Slack = 1
  CallSize = 4
  Job <- MCJob
  MaxMade = 10
  Text <- MCText
  Args <- MCArgs
  Parses = {"v4", "v6"}
CHECK_DEADLOCK FALSE
INVARIANTS
  EvTimerTypeOK
  NeverAborts
  GzipTypeOK
  AssertionsHold
  AllDelivered
  WordsFound
  MapsHaveKeywords
  ParsingEnds
  AllListening
  NeverAnyAddress
  FailureCloses
PROPERTIES
  ImplementsTimerSet
  GzipEnds
