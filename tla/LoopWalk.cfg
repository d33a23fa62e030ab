SPECIFICATION Spec
CONSTANTS
  c1 = c1
  c2 = c2
  c3 = c3
  NoConn = NoConn
  Conn <- ThreeClients
  Listening = TRUE
  MaxConn = 3
  ConnTimeout = 0
  TicksPerSec = 2
  MaxFd = 4
  FdSetSize = 4
  TtyStr = TRUE
  AnswerLens <- OneLength
  MaxUnread = 1
  ClientFaults = {"close", "reset", "long"}
CHECK_DEADLOCK FALSE
SYMMETRY ClientSymmetry
VIEW ControlView
INVARIANTS
  TypeOK
  WalkSafe
  DescriptorsConserved
  SelectSafe
PROPERTIES
  QueueUse
