SPECIFICATION ServerSpec
CONSTANTS
  Flag = {"IN", "OUT", "HUP", "RDHUP", "ERR"}
  ErrFlag = {"HUP", "RDHUP", "ERR"}
  Forced = {"HUP", "ERR"}
  Svc = {l, s1}
  Fd = {3, 4}
  NTimers = 2
  Main = Main
  NoFd = NoFd
  NoSvc = NoSvc
  Client = {c1}
  NoClient = NoClient
  Listener = l
  Scripts <- KeepAlive
  MayEnd = {c1}
  WholeOnly = FALSE
  TxFills = {c1}
  ShortWrites = TRUE
  AddFails = FALSE
CHECK_DEADLOCK FALSE
INVARIANTS
  ServerTypeOK
  ServerInv
PROPERTIES
  ImplementsScheduler
