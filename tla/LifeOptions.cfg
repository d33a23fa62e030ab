SPECIFICATION Spec
CONSTANTS
  Proc = {p1, p2}
  Call = {c1, c2}
  Speeds <- SomeSpeeds
  Other = Other
  Ports = {n1}
  Modes = {"tcps", "tcpc"}
  Options <- SomeOptions
  Nothing = Nothing
SYMMETRY ActorSymmetry
INVARIANTS OptionsHold
CHECK_DEADLOCK FALSE
