SPECIFICATION FairSpec
CONSTANTS
  Request = {plain, plain2, odd, hex, long}
  NoRequest = {plain, plain2, odd, hex, long}
  TooLong = {long}
  OddText = {odd}
  LongText = {hex}
  TtyStr = TRUE
  AutoConn = TRUE
  MaxTime = 2
  MaxFd = 3
  MaxBreaks = 1
INVARIANTS
  TypeOK
  DataReached
  TriesBounded
PROPERTIES
  StrandedForGood
  ImplementsGateway
  Answered
  GivesUp
  Reconnects
CHECK_DEADLOCK FALSE
