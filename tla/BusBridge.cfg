SPECIFICATION FairSpec
CONSTANTS
  b = b
  m = m
  d1 = d1
  d2 = d2
  t1 = t1
  f = f
  NoProc = NoProc
  Proc <- WithBridge
  Bridge <- TheBridge
  Mqtt <- None
  Modbus <- OneModbus
  Terminal <- OneTerminal
  File <- None
  MaxTries = 2
  Prompt = TRUE
  Stops = FALSE
INVARIANTS
  TypeOK
  OwnAnswers
PROPERTIES
  CallsEnd
  CallsUnlock
