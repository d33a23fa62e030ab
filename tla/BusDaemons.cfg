SPECIFICATION Spec
CONSTANTS
  b = b
  m = m
  d1 = d1
  d2 = d2
  t1 = t1
  f = f
  NoProc = NoProc
  Proc <- Unlocked
  Bridge <- TheBridge
  Mqtt <- TheMqtt
  Modbus <- None
  Terminal <- None
  File <- TheFile
  MaxTries = 1
  Prompt = FALSE
  Stops = TRUE
INVARIANTS
  MutualExclusion
  LockHeldOpen
