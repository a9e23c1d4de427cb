SPECIFICATION Spec
CONSTANTS
  Flag = {"IN", "HUP"}
  ErrFlag = {"HUP"}
  Forced = {"HUP"}
  Svc = {s1, s2}
  Fd = {f1, f2}
  NTimers = 1
  Main = Main
  NoFd = NoFd
  NoSvc = NoSvc
SYMMETRY Symm
INVARIANTS
  TypeOK
  NoDangling
  FdsOwned
  LeftoverTimeoutOnlyAtStart
  MaskInStep
  IInv
PROPERTIES
  ImplementsServices
