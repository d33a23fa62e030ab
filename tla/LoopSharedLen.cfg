SPECIFICATION Spec
CONSTANTS
  c1 = c1
  c2 = c2
  c3 = c3
  NoConn = NoConn
  Conn <- TwoClients
  Listening = TRUE
  MaxConn = 2
  ConnTimeout = 0
  TicksPerSec = 2
  MaxFd = 3
  FdSetSize = 4
  TtyStr = FALSE
  AnswerLens <- TwoLengths
  MaxUnread = 1
  ClientFaults = {}
CHECK_DEADLOCK FALSE
PROPERTIES
  AnswersOwnLength
