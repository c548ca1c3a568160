SPECIFICATION TasksSpec
CONSTANTS
  Task = {t1, t2, t3}
  NULL = NULL
  Port = {p1, p2}
  MaxSlow = 1
  MaxFail = 1
  Client = {c1, c2, c3}
  Fd = {fd1, fd2}
  NoFd = NoFd
  NoClient = NoClient
  Sender = {sw_dispatch_task, ble_rx_task}
  FlushTask = flush_task
  TX_BUFFER_SIZE = 3
  MAX_CHUNK = 1
  MaxFrames = 2
  MaxLinks = 2
INVARIANTS RestartApplies FrameAtomic SentOnceInOrder
PROPERTIES SlotHeals SingleClient SendersReturn StableLinkFlushes
CHECK_DEADLOCK FALSE
