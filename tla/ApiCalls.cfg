SPECIFICATION FairSpec
CONSTANTS
  Blank = Blank
  Nul = Nul
  BadChar = BadChar
  ByteMod = 16
  OutSize = 32
  Text <- SomeTexts
  Counts = {0, 1, 6, 8, 9}
  Answers = {0, 8, 18, 19}
  Stale = {0, 3}
  Tries = 2
  Fifo = 8
  RxMax = 12
INVARIANTS TypeOK Compacted Decoded OwnBytes Whole FrameRight GivesBack
PROPERTIES CallReturns CallAdvances
CHECK_DEADLOCK FALSE
