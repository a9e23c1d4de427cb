SPECIFICATION EvTimerSpec
CONSTANTS
  Obj = {o1, o2}
  SecsMax = 1
  Granularity = 2
  Million = 2
  Thousand = 4
  Delays = {1, 3}
  MaxGap = 8
  MaxLag = 2
  MaxSecs = 3
CHECK_DEADLOCK FALSE
INVARIANTS
  NeverAborts
