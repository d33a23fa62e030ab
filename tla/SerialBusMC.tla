---------------------------- MODULE SerialBusMC ----------------------------
(* Instances of SerialBus for TLC. *)
EXTENDS SerialBus

CONSTANTS b, m, d1, d2, t1, f

None == {}
TheBridge == {b}
TheMqtt == {m}
OneModbus == {d1}
OneTerminal == {t1}
TheFile == {f}
WithBridge == {b, d1, t1}
Unlocked == {b, m, f}
=============================================================================
