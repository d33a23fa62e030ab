SPECIFICATION FairSpec
CONSTANTS
  c1 = c1
  c2 = c2
  c3 = c3
  NoConn = NoConn
  Conn <- OneClient
  Listening = FALSE
  MaxConn = 1
  ConnTimeout = 2
  TicksPerSec = 2
  MaxFd = 2
  FdSetSize = 4
  TtyStr = TRUE
  AnswerLens <- TwoLengths
  MaxUnread = 2
  ClientFaults = {"close", "reset", "stall", "long"}
CHECK_DEADLOCK FALSE
INVARIANTS
  TimeoutAccounting
PROPERTIES
  LostServerEnds
  AnswersOwnLength
