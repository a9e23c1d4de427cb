SPECIFICATION FairServerSpec
CONSTANTS
  Flag = {"IN", "OUT", "HUP", "RDHUP", "ERR"}
  ErrFlag = {"HUP", "RDHUP", "ERR"}
  Forced = {"HUP", "ERR"}
  Svc = {l, s1}
  Fd = {3, 4}
  NTimers = 1
  Main = Main
  NoFd = NoFd
  NoSvc = NoSvc
  Client = {c1, c2}
  NoClient = NoClient
  Listener = l
  Scripts <- KeptAndSlow
  MayEnd = {c1, c2}
  WholeOnly = TRUE
  TxFills = {c2}
  ShortWrites = FALSE
  AddFails = FALSE
CHECK_DEADLOCK FALSE
PROPERTIES
  ResetReclaimed
  BacklogServed
  ImplementsConnections
