SPECIFICATION Spec
CONSTANTS
  Client = {c1, c2}
  Fd = {fd1, fd2}
  NoFd = NoFd
  NoClient = NoClient
INVARIANT ClosesOnlyItsOwn
CHECK_DEADLOCK FALSE
