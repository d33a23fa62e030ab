SPECIFICATION FairSpec
CONSTANTS
  c1 = c1
  c2 = c2
  c3 = c3
  NoConn = NoConn
  Conn <- TwoClients
  Listening = TRUE
  MaxConn = 3
  ConnTimeout = 1
  TicksPerSec = 2
  MaxFd = 2
  FdSetSize = 4
  TtyStr = TRUE
  AnswerLens = {}
  MaxUnread = 1
  ClientFaults = {"close", "reset", "stall", "long"}
CHECK_DEADLOCK FALSE
INVARIANTS
  NoStaleConn
PROPERTIES
  WaitingServed
