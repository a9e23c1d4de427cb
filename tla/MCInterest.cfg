SPECIFICATION ServerSpec
CONSTANTS
  Flag = {"IN", "OUT", "HUP", "RDHUP", "ERR"}
  ErrFlag = {"HUP", "RDHUP", "ERR"}
  Forced = {"HUP", "ERR"}
  Svc = {l, s1}
  Fd = {3, 4}
  NTimers = 2
  Main = Main
  NoFd = NoFd
  NoSvc = NoSvc
  Client = {c1}
  NoClient = NoClient
  Listener = l
  Scripts <- OneRequest
  MayEnd = {c1}
  WholeOnly = FALSE
  TxFills = {}
  ShortWrites = FALSE
  AddFails = FALSE
CHECK_DEADLOCK FALSE
INVARIANTS
  InterestAsAsked
