SPECIFICATION FairServerSpec
CONSTANTS
  Flag = {"IN", "OUT", "HUP", "RDHUP", "ERR"}
  ErrFlag = {"HUP", "RDHUP", "ERR"}
  Forced = {"HUP", "ERR"}
  Svc = {l, s1, s2}
  Fd = {3, 4, 5}
  NTimers = 1
  Main = Main
  NoFd = NoFd
  NoSvc = NoSvc
  Client = {c1, c2}
  NoClient = NoClient
  Listener = l
  Scripts <- OneSilent
  MayEnd = {c2}
  WholeOnly = FALSE
  TxFills = {c1}
  ShortWrites = FALSE
  AddFails = TRUE
CHECK_DEADLOCK FALSE
INVARIANTS
  NoUncaughtTimeout
  WriterTimed
PROPERTIES
  InputServed
  LapsedStrikes
