-------------------------- MODULE SerialBusProofs --------------------------
(***************************************************************************)
(* Proofs about the shared tty, for every set of processes of every kind   *)
(* and any number of tries.  The argument is about the lock: a process on  *)
(* its way through an exchange with a live descriptor has it, and whoever  *)
(* closes, gives up or dies lets go of its own lock only.                  *)
(***************************************************************************)
EXTENDS SerialBus, TLAPS

InCall == {"send", "sent", "reading"}

\* Who exchanges has the lock, with the descriptor it uses.
LockInv ==
  /\ lock = NoProc => ~orphan
  /\ \A p \in Proc : pc[p] \in {"lock", "sent", "reading"} => p \in Locker
  /\ \A p \in Locker : pc[p] \in {"send", "reading"} => fd[p] = "open"
  /\ \A p \in Locker : Exchanging(p) => lock = p /\ ~orphan

\* Who has the lock is in an exchange, about to close, or a daemon with the tty open.
HolderInv ==
  lock # NoProc /\ ~orphan =>
    /\ lock \in Locker
    /\ fd[lock] = "open"
    /\ lock \notin Daemon => pc[lock] \in InCall \cup {"close"}
    /\ pc[lock] # "idle"

IndInv == TypeOK /\ LockInv /\ HolderInv
-----------------------------------------------------------------------------
LEMMA InitInd == Init => IndInv
<1> SUFFICES ASSUME Init PROVE IndInv  OBVIOUS
<1>1. TypeOK
  <2>1. orphan \in BOOLEAN /\ lock = NoProc  BY DEF Init
  <2>2. 0 \in 0..MaxTries  BY BusAssumption
  <2>3. got \in [Proc -> SUBSET Proc]  BY DEF Init
  <2>4. QED  BY <2>1, <2>2, <2>3 DEF Init, TypeOK
<1>2. ~orphan /\ lock = NoProc /\ \A p \in Proc : pc[p] = "idle"  BY DEF Init
<1>3. LockInv /\ HolderInv  BY <1>2, ProcAssumption DEF LockInv, HolderInv, Exchanging, Locker
<1>4. QED  BY <1>1, <1>3 DEF IndInv

LEMMA TypeNext == TypeOK /\ [Next]_vars => TypeOK'
<1> SUFFICES ASSUME TypeOK, [Next]_vars PROVE TypeOK'  OBVIOUS
<1> USE DEF TypeOK, Goto
<1>1. ASSUME NEW p \in Proc, Run(p) PROVE TypeOK'
  <2>1. CASE FlushOpened(p)  BY <2>1 DEF FlushOpened, Tcflush
  <2>2. CASE OddLength(p)  BY <2>2 DEF OddLength, lineVars
  <2>3. CASE TryLock(p)  BY <2>3, BusAssumption DEF TryLock, lineVars
  <2>4. CASE RetryLock(p)
    <3>1. tries[p] + 1 \in 0..MaxTries  BY <2>4, BusAssumption DEF RetryLock
    <3>2. QED  BY <3>1, <2>4 DEF RetryLock, lineVars
  <2>5. CASE LockTimeout(p)  BY <2>5, BusAssumption DEF LockTimeout, MyuartClose, lineVars
  <2>6. CASE TtyWrite(p)  BY <2>6 DEF TtyWrite
  <2>7. CASE RxBegin(p) \/ RxOnStale(p)  BY <2>7 DEF RxBegin, RxOnStale, AfterRead, lineVars
  <2>8. CASE RxEnd(p)  BY <2>8 DEF RxEnd, AfterRead
  <2>9. CASE Close(p)  BY <2>9, BusAssumption DEF Close, MyuartClose, lineVars
  <2>10. QED  BY <1>1, <2>1, <2>2, <2>3, <2>4, <2>5, <2>6, <2>7, <2>8, <2>9 DEF Run
<1>2. ASSUME NEW p \in Proc, Asked(p) PROVE TypeOK'
  <2>1. CASE Open(p) \/ Reconnect(p)
    <3>1. UartOpenSerial(p) /\ UNCHANGED lock  BY <2>1 DEF Open, Reconnect
    <3>2. orphan' \in BOOLEAN  BY <2>1 DEF Open, Reconnect
    <3>3. QED  BY <3>1, <3>2 DEF UartOpenSerial, lineVars
  <2>2. CASE BridgeRequest(p)  BY <2>2 DEF BridgeRequest, Tcflush, lineVars
  <2>3. CASE MqttRequest(p)  BY <2>3 DEF MqttRequest, lineVars
  <2>4. CASE WriteFile(p)  BY <2>4 DEF WriteFile
  <2>5. QED  BY <1>2, <2>1, <2>2, <2>3, <2>4 DEF Asked
<1>3. ASSUME NEW p \in Proc, Kill(p) \/ MqttEnds(p) PROVE TypeOK'
  <2>1. ProcessGone(p) /\ attrs' \in {attrs, saved[p]}  BY <1>3 DEF Kill, MqttEnds
  <2>2. orphan' \in BOOLEAN  BY <2>1 DEF ProcessGone
  <2>3. /\ pc' = [pc EXCEPT ![p] = "idle"] /\ fd' = [fd EXCEPT ![p] = "none"]
        /\ tries' = [tries EXCEPT ![p] = 0] /\ got' = [got EXCEPT ![p] = {}]
        /\ saved' = [saved EXCEPT ![p] = "default"] /\ rxSaved' = [rxSaved EXCEPT ![p] = "default"]
        /\ lock' \in {lock, NoProc} /\ UNCHANGED <<outbuf, wire, inbuf>>
    BY <2>1 DEF ProcessGone, lineVars
  <2>4. QED  BY <2>1, <2>2, <2>3, BusAssumption
<1>4. ASSUME NEW p \in Proc, Line(p) PROVE TypeOK'
  BY <1>4 DEF Line, Transmit, SlaveAnswers, SlaveSilent, GetsThrough
<1>5. CASE UNCHANGED vars  BY <1>5 DEF vars, lineVars
<1>6. QED  BY <1>1, <1>2, <1>3, <1>4, <1>5 DEF Next

LEMMA LockNext == IndInv /\ [Next]_vars => LockInv' /\ HolderInv'
<1> SUFFICES ASSUME TypeOK, LockInv, HolderInv, [Next]_vars PROVE LockInv' /\ HolderInv'
  BY DEF IndInv
<1> USE ProcAssumption DEF TypeOK, LockInv, HolderInv, Exchanging, InCall, Locker, Daemon, Goto
<1>1. ASSUME NEW p \in Proc, Run(p) PROVE LockInv' /\ HolderInv'
  <2>1. CASE FlushOpened(p)  BY <2>1 DEF FlushOpened
  <2>2. CASE OddLength(p)  BY <2>2 DEF OddLength
  <2>3. CASE TryLock(p)  BY <2>3 DEF TryLock, CanLock
  <2>4. CASE RetryLock(p)  BY <2>4 DEF RetryLock
  <2>5. CASE LockTimeout(p)  BY <2>5 DEF LockTimeout, CanLock, MyuartClose
  <2>6. CASE TtyWrite(p)  BY <2>6 DEF TtyWrite
  <2>7. CASE RxBegin(p) \/ RxOnStale(p)  BY <2>7 DEF RxBegin, RxOnStale, AfterRead
  <2>8. CASE RxEnd(p)  BY <2>8 DEF RxEnd, AfterRead
  <2>9. CASE Close(p)  BY <2>9 DEF Close, MyuartClose
  <2>10. QED  BY <1>1, <2>1, <2>2, <2>3, <2>4, <2>5, <2>6, <2>7, <2>8, <2>9 DEF Run
<1>2. ASSUME NEW p \in Proc, Asked(p) PROVE LockInv' /\ HolderInv'
  <2>1. CASE Open(p)  BY <2>1 DEF Open, UartOpenSerial
  <2>2. CASE Reconnect(p)  BY <2>2 DEF Reconnect, UartOpenSerial
  <2>3. CASE BridgeRequest(p) \/ MqttRequest(p)  BY <2>3 DEF BridgeRequest, MqttRequest
  <2>4. CASE WriteFile(p)  BY <2>4 DEF WriteFile
  <2>5. QED  BY <1>2, <2>1, <2>2, <2>3, <2>4 DEF Asked
<1>3. ASSUME NEW p \in Proc, Kill(p) \/ MqttEnds(p) PROVE LockInv' /\ HolderInv'
  <2>1. ProcessGone(p)  BY <1>3 DEF Kill, MqttEnds
  <2>2. pc' = [pc EXCEPT ![p] = "idle"] /\ fd' = [fd EXCEPT ![p] = "none"]
    BY <2>1 DEF ProcessGone
  <2>3. CASE lock = p
    <3>1. lock' = NoProc /\ ~orphan'  BY <2>1, <2>3 DEF ProcessGone
    <3>2. QED  BY <2>2, <2>3, <3>1
  <2>4. CASE lock # p
    <3>1. lock' = lock /\ (orphan' <=> orphan)  BY <2>1, <2>4 DEF ProcessGone
    <3>2. QED  BY <2>2, <2>4, <3>1
  <2>5. QED  BY <2>3, <2>4
<1>4. ASSUME NEW p \in Proc, Line(p) PROVE LockInv' /\ HolderInv'
  BY <1>4 DEF Line
<1>5. CASE UNCHANGED vars  BY <1>5 DEF vars
<1>6. QED  BY <1>1, <1>2, <1>3, <1>4, <1>5 DEF Next

LEMMA IndNext == IndInv /\ [Next]_vars => IndInv'
BY TypeNext, LockNext DEF IndInv

LEMMA IndInvariant == Spec => []IndInv
BY InitInd, IndNext, PTL DEF Spec
-----------------------------------------------------------------------------
(* The type invariant holds in every reachable state. *)
THEOREM BusTypeCorrect == Spec => []TypeOK
<1>1. IndInv => TypeOK  BY DEF IndInv
<1>2. QED  BY <1>1, IndInvariant, PTL

(* Of the processes that lock, two never exchange with the tty at the same *)
(* time, whatever daemons are killed, lose the broker or are refused the   *)
(* lock (conn.c:205-225, modbus_api.c:551-557).                            *)
THEOREM ExchangesExclusive == Spec => []MutualExclusion
<1>1. IndInv => MutualExclusion  BY DEF IndInv, LockInv, MutualExclusion
<1>2. QED  BY <1>1, IndInvariant, PTL

(* The lock is held by somebody with the tty open, or through the          *)
(* descriptor an MQTT bridge lost when it reconnected (mqtt.c:49, 67).     *)
THEOREM LockIsHeldOpen == Spec => []LockHeldOpen
<1>1. IndInv => LockHeldOpen  BY DEF IndInv, HolderInv, LockHeldOpen
<1>2. QED  BY <1>1, IndInvariant, PTL
-----------------------------------------------------------------------------
(* Whose frames are under way.                                             *)

OnTheLine == outbuf \cup wire \cup inbuf

\* All that is on the line belongs to the holder of the lock, which waits for it.
LineInv ==
  /\ \A x \in OnTheLine : lock = x /\ Exchanging(x) /\ pc[x] # "send"
  /\ \A x \in outbuf : pc[x] = "sent"
  /\ outbuf \cap wire = {} /\ outbuf \cap inbuf = {} /\ wire \cap inbuf = {}
  /\ OwnAnswers

LEMMA InitLine == Init => LineInv
BY DEF Init, LineInv, OnTheLine, OwnAnswers

\* A step that leaves the line as it is, or flushes it, and those who wait on it where
\* they are.
LEMMA LineKeep ==
  ASSUME LineInv,
         outbuf' \subseteq outbuf, inbuf' \subseteq inbuf, wire' = wire,
         \A x \in OnTheLine : pc'[x] = pc[x] /\ fd'[x] = fd[x] /\ lock' = lock,
         \A x \in Proc : got'[x] \subseteq got[x]
  PROVE  LineInv'
BY DEF LineInv, OnTheLine, OwnAnswers, Exchanging

LEMMA LineNext ==
  ASSUME Prompt, ~Stops, File = {}, IndInv, LineInv, [Next]_vars
  PROVE  LineInv'
<1> USE DEF Goto
<1>0. /\ TypeOK /\ LockInv
      /\ \A x \in OnTheLine : x \in Proc /\ lock = x /\ pc[x] \in {"sent", "reading"} /\ fd[x] = "open"
  BY DEF IndInv, LineInv, OnTheLine, Exchanging, TypeOK
<1>1. ASSUME NEW p \in Proc, Run(p) PROVE LineInv'
  <2>0. p \in Locker  BY DEF Locker
  <2>1. CASE FlushOpened(p) \/ OddLength(p) \/ RetryLock(p)
    BY <2>1, <1>0, LineKeep DEF FlushOpened, OddLength, RetryLock, Tcflush, lineVars, TypeOK
  <2>2. CASE TryLock(p)
    <3>1. OnTheLine = {}
      BY <2>2, <1>0, ProcAssumption DEF TryLock, CanLock
    <3>2. QED  BY <2>2, <3>1, LineKeep DEF TryLock, lineVars, OnTheLine
  <2>3. CASE LockTimeout(p)
    <3>1. MyuartClose(p, "none") \/ MyuartClose(p, "stale")  BY <2>3 DEF LockTimeout
    <3>2. \A x \in OnTheLine : pc'[x] = pc[x] /\ fd'[x] = fd[x] /\ lock' = lock
      BY <2>3, <1>0 DEF LockTimeout, MyuartClose, TypeOK
    <3>3. QED  BY <3>1, <3>2, <1>0, LineKeep DEF MyuartClose, lineVars, TypeOK
  <2>4. CASE TtyWrite(p)
    <3>1. lock = p /\ fd[p] = "open"  BY <2>4, <2>0, <1>0 DEF TtyWrite, LockInv, Exchanging
    <3>2. OnTheLine = {}  BY <2>4, <3>1, <1>0 DEF TtyWrite
    <3>3. QED  BY <2>4, <3>1, <3>2, <1>0 DEF TtyWrite, LineInv, OnTheLine, OwnAnswers, Exchanging, TypeOK
  <2>5. CASE RxBegin(p)
    BY <2>5, <1>0 DEF RxBegin, LineInv, OnTheLine, OwnAnswers, Exchanging, TypeOK, lineVars
  <2>6. CASE RxOnStale(p)
    BY <2>6, <1>0, LineKeep DEF RxOnStale, AfterRead, lineVars, TypeOK
  <2>7. CASE RxEnd(p)
    <3>1. lock = p  BY <2>7, <2>0, <1>0 DEF RxEnd, LockInv, Exchanging
    <3>2. outbuf = {}  BY <2>7, <3>1, <1>0 DEF RxEnd, LineInv, OnTheLine
    <3>3. wire = {}
      <4>1. CASE inbuf # {}  BY <4>1, <3>1, <1>0 DEF LineInv, OnTheLine
      <4>2. CASE p \notin wire  BY <4>2, <3>1, <1>0 DEF OnTheLine
      <4>3. QED  BY <2>7, <4>1, <4>2 DEF RxEnd
    <3>4. inbuf \subseteq {p}  BY <3>1, <1>0 DEF OnTheLine
    <3>5. got' = [got EXCEPT ![p] = inbuf] /\ outbuf' = {} /\ wire' = {} /\ inbuf' = {}
      BY <2>7, <3>2, <3>3 DEF RxEnd
    <3>6. OwnAnswers'  BY <3>4, <3>5, <1>0 DEF LineInv, OwnAnswers, TypeOK
    <3>7. QED  BY <3>5, <3>6 DEF LineInv, OnTheLine
  <2>8. CASE Close(p)
    BY <2>8, <1>0, LineKeep DEF Close, MyuartClose, lineVars, TypeOK
  <2>9. QED  BY <1>1, <2>1, <2>2, <2>3, <2>4, <2>5, <2>6, <2>7, <2>8 DEF Run
<1>2. ASSUME NEW p \in Proc, Asked(p) PROVE LineInv'
  <2>1. CASE Open(p) \/ Reconnect(p)
    BY <2>1, <1>0, LineKeep DEF Open, Reconnect, UartOpenSerial, lineVars, TypeOK
  <2>2. CASE BridgeRequest(p) \/ MqttRequest(p)
    BY <2>2, <1>0, LineKeep DEF BridgeRequest, MqttRequest, Tcflush, lineVars, TypeOK
  <2>3. QED  BY <1>2, <2>1, <2>2 DEF Asked, WriteFile
<1>3. ASSUME NEW p \in Proc, Kill(p) \/ MqttEnds(p) PROVE LineInv'
  BY <1>3 DEF Kill, MqttEnds
<1>4. ASSUME NEW p \in Proc, Line(p) PROVE LineInv'
  <2>1. /\ OnTheLine' \subseteq OnTheLine /\ outbuf' \subseteq outbuf
        /\ (outbuf' \cap wire' = {} /\ outbuf' \cap inbuf' = {} /\ wire' \cap inbuf' = {})
        /\ UNCHANGED <<pc, fd, got, lock>>
    BY <1>4 DEF Line, Transmit, SlaveAnswers, SlaveSilent, GetsThrough, LineInv, OnTheLine
  <2>2. QED  BY <2>1 DEF LineInv, OwnAnswers, Exchanging
<1>5. CASE UNCHANGED vars
  BY <1>5 DEF vars, lineVars, LineInv, OnTheLine, OwnAnswers, Exchanging
<1>6. QED  BY <1>1, <1>2, <1>3, <1>4, <1>5 DEF Next

(* As long as the slave is never late, nobody writes without the lock and  *)
(* no daemon is killed, every exchange reads its own answer or nothing,    *)
(* though others open, flush, are refused and close in the middle of it    *)
(* (modbus_api.c:546-564, conn.c:205-225).                                 *)
THEOREM AnswersAreOwn ==
  ASSUME Prompt, ~Stops, File = {}
  PROVE  Spec => []OwnAnswers
<1>1. LineInv => OwnAnswers  BY DEF LineInv
<1>2. IndInv /\ LineInv /\ [Next]_vars => LineInv'  BY LineNext
<1>3. QED  BY <1>1, <1>2, InitLine, IndInvariant, PTL DEF Spec
-----------------------------------------------------------------------------
(* How long a call takes.                                                  *)

\* The most steps p still takes by itself until its call has returned or its daemon is
\* ready again.
StepsLeft(p) ==
  CASE pc[p] = "opened"  -> MaxTries + 6
    [] pc[p] = "lock"    -> MaxTries - tries[p] + 5
    [] pc[p] = "send"    -> 4
    [] pc[p] = "sent"    -> 3
    [] pc[p] = "reading" -> 2
    [] pc[p] = "close"   -> 1
    [] OTHER             -> 0

\* Why an exchange ends: each of its own steps leaves it fewer, and nothing that others
\* do on the tty, not even a flush or a close in the middle of it, sends it back.
ExchangeAdvances ==
  [][\A p \in Locker : pc[p] \notin {"idle", "ready"} =>
       StepsLeft(p)' <= StepsLeft(p) /\ (Run(p) => StepsLeft(p)' < StepsLeft(p))]_vars

\* A call that has the lock is at most four of its own steps from giving it back.
HolderAlmostDone == \A p \in Modbus \cup Terminal : lock = p => StepsLeft(p) \in 1..4

LEMMA StepsAre == TypeOK => \A p \in Proc : StepsLeft(p) \in Nat
<1> SUFFICES ASSUME TypeOK, NEW p \in Proc PROVE StepsLeft(p) \in Nat  OBVIOUS
<1>1. tries[p] \in 0..MaxTries /\ MaxTries \in Nat  BY BusAssumption DEF TypeOK
<1>2. QED  BY <1>1 DEF StepsLeft

\* The steps of a process itself.
LEMMA RunAdvances ==
  ASSUME TypeOK, NEW p \in Locker, Run(p)
  PROVE  StepsLeft(p)' < StepsLeft(p)
<1>0. /\ p \in Proc /\ p \notin File /\ MaxTries \in Nat /\ tries[p] \in 0..MaxTries
      /\ pc \in [Proc -> {"idle", "opened", "ready", "lock", "send", "sent", "reading", "close"}]
      /\ tries \in [Proc -> 0..MaxTries]
  BY BusAssumption DEF TypeOK, Locker
<1> USE DEF Goto, StepsLeft
<1>1. CASE FlushOpened(p)
  <2>1. pc[p] = "opened" /\ pc'[p] \in {"ready", "lock"} /\ tries' = tries
    BY <1>0, <1>1 DEF FlushOpened
  <2>2. QED  BY <2>1, <1>0
<1>2. CASE OddLength(p)  BY <1>0, <1>2 DEF OddLength
<1>3. CASE TryLock(p)  BY <1>0, <1>3 DEF TryLock
<1>4. CASE RetryLock(p)
  <2>1. pc[p] = "lock" /\ pc'[p] = "lock" /\ tries'[p] = tries[p] + 1
    BY <1>0, <1>4 DEF RetryLock
  <2>2. QED  BY <2>1, <1>0
<1>5. CASE LockTimeout(p)
  <2>1. pc[p] = "lock" /\ pc'[p] \in {"idle", "ready", "sent"}  BY <1>0, <1>5 DEF LockTimeout
  <2>2. QED  BY <2>1, <1>0
<1>6. CASE TtyWrite(p)  BY <1>0, <1>6 DEF TtyWrite
<1>7. CASE RxBegin(p)  BY <1>0, <1>7 DEF RxBegin
<1>8. CASE RxOnStale(p)  BY <1>0, <1>8 DEF RxOnStale, AfterRead
<1>9. CASE RxEnd(p)  BY <1>0, <1>9 DEF RxEnd, AfterRead
<1>10. CASE Close(p)  BY <1>0, <1>10 DEF Close
<1>11. QED
  BY Zenon, <1>1, <1>2, <1>3, <1>4, <1>5, <1>6, <1>7, <1>8, <1>9, <1>10 DEF Run

\* The steps of others, and those that nobody in an exchange takes by itself.
LEMMA OthersLeave ==
  ASSUME TypeOK, NEW p \in Locker, pc[p] \notin {"idle", "ready"}, [Next]_vars, ~Run(p)
  PROVE  (pc'[p] = pc[p] /\ tries'[p] = tries[p]) \/ pc'[p] = "idle"
<1>0. p \in Proc /\ p \notin File  BY DEF Locker
<1> USE DEF Goto
<1>1. ASSUME NEW q \in Proc, q # p, Run(q)
      PROVE  pc'[p] = pc[p] /\ tries'[p] = tries[p]
  <2>1. \E l, t : pc' = [pc EXCEPT ![q] = l] /\ tries' = [tries EXCEPT ![q] = t]
    <3>1. tries = [tries EXCEPT ![q] = tries[q]] /\ pc = [pc EXCEPT ![q] = pc[q]]  BY DEF TypeOK
    <3>2. CASE FlushOpened(q)  BY <3>1, <3>2, Zenon DEF FlushOpened
    <3>3. CASE OddLength(q)  BY <3>1, <3>3, Zenon DEF OddLength
    <3>4. CASE TryLock(q)  BY <3>4, Zenon DEF TryLock
    <3>5. CASE RetryLock(q)  BY <3>1, <3>5, Zenon DEF RetryLock
    <3>6. CASE LockTimeout(q)  BY <3>6, Zenon DEF LockTimeout, MyuartClose
    <3>7. CASE TtyWrite(q)  BY <3>1, <3>7, Zenon DEF TtyWrite
    <3>8. CASE RxBegin(q)  BY <3>1, <3>8, Zenon DEF RxBegin
    <3>9. CASE RxOnStale(q)  BY <3>1, <3>9, Zenon DEF RxOnStale, AfterRead
    <3>10. CASE RxEnd(q)  BY <3>1, <3>10, Zenon DEF RxEnd, AfterRead
    <3>11. CASE Close(q)  BY <3>11, Zenon DEF Close, MyuartClose
    <3>12. QED
      BY Zenon, <1>1, <3>2, <3>3, <3>4, <3>5, <3>6, <3>7, <3>8, <3>9, <3>10, <3>11 DEF Run
  <2>2. QED  BY <2>1, <1>1, <1>0 DEF TypeOK
<1>2. ASSUME NEW q \in Proc, Asked(q)
      PROVE  pc'[p] = pc[p] /\ tries'[p] = tries[p]
  <2>1. q # p  BY <1>2, <1>0 DEF Asked, Open, Reconnect, BridgeRequest, MqttRequest, WriteFile
  <2>2. tries' = tries /\ \E l : pc' = [pc EXCEPT ![q] = l]
    BY <1>2, Zenon DEF Asked, Open, Reconnect, UartOpenSerial, BridgeRequest, MqttRequest, WriteFile
  <2>3. QED  BY <2>1, <2>2, <1>0 DEF TypeOK
<1>3. ASSUME NEW q \in Proc, Kill(q) \/ MqttEnds(q)
      PROVE  (pc'[p] = pc[p] /\ tries'[p] = tries[p]) \/ pc'[p] = "idle"
  <2>1. pc' = [pc EXCEPT ![q] = "idle"] /\ tries' = [tries EXCEPT ![q] = 0]
    BY <1>3, Zenon DEF Kill, MqttEnds, ProcessGone
  <2>2. QED  BY <2>1, <1>0 DEF TypeOK
<1>4. ASSUME NEW q \in Proc, Line(q) PROVE pc' = pc /\ tries' = tries
  BY <1>4, Zenon DEF Line
<1>5. CASE UNCHANGED vars  BY <1>5, Zenon DEF vars
<1>6. QED  BY <1>1, <1>2, <1>3, <1>4, <1>5 DEF Next

(* Whatever holds the lock and whoever opens, flushes, closes or dies      *)
(* meanwhile, an exchange takes at most MaxTries + 6 steps of its own: the *)
(* part of CallsEnd that does not depend on fairness                       *)
(* (modbus_api.c:546-564, conn.c:205-225).                                 *)
THEOREM ExchangesAdvance == Spec => ExchangeAdvances
<1>1. ASSUME IndInv, [Next]_vars, NEW p \in Locker, pc[p] \notin {"idle", "ready"}
      PROVE  StepsLeft(p)' <= StepsLeft(p) /\ (Run(p) => StepsLeft(p)' < StepsLeft(p))
  <2>0. TypeOK /\ TypeOK' /\ p \in Proc  BY <1>1, TypeNext DEF IndInv, Locker
  <2>1. StepsLeft(p) \in Nat  BY <2>0, StepsAre
  <2>2. StepsLeft(p)' \in Nat
    <3>1. tries'[p] \in 0..MaxTries /\ MaxTries \in Nat  BY <2>0, BusAssumption DEF TypeOK
    <3>2. QED  BY <3>1 DEF StepsLeft
  <2>3. CASE Run(p)  BY <2>0, <2>1, <2>2, <2>3, RunAdvances
  <2>4. CASE ~Run(p)
    <3>1. CASE pc'[p] = pc[p] /\ tries'[p] = tries[p]  BY <2>1, <2>4, <3>1 DEF StepsLeft
    <3>2. CASE pc'[p] = "idle"  BY <2>1, <2>4, <3>2 DEF StepsLeft
    <3>3. QED  BY <1>1, <2>0, <2>4, <3>1, <3>2, OthersLeave
  <2>5. QED  BY <2>3, <2>4
<1>2. IndInv /\ [Next]_vars =>
        \A p \in Locker : pc[p] \notin {"idle", "ready"} =>
          StepsLeft(p)' <= StepsLeft(p) /\ (Run(p) => StepsLeft(p)' < StepsLeft(p))
  BY <1>1
<1>3. QED  BY <1>2, IndInvariant, PTL DEF Spec, ExchangeAdvances

\* Only an MQTT bridge loses the descriptor it locked.
OrphanInv == orphan => lock \in Mqtt

LEMMA OrphanNext == IndInv /\ OrphanInv /\ [Next]_vars => OrphanInv'
<1> SUFFICES ASSUME IndInv, OrphanInv, [Next]_vars, orphan' PROVE lock' \in Mqtt
  BY DEF OrphanInv
<1>0. /\ lock = NoProc => ~orphan
      /\ orphan => lock \in Mqtt
  BY DEF IndInv, LockInv, OrphanInv
<1>1. ASSUME NEW p \in Proc, Run(p) PROVE lock' \in Mqtt
  <2>1. CASE TryLock(p)  BY <1>0, <2>1, Zenon DEF TryLock, CanLock
  <2>2. CASE LockTimeout(p) \/ Close(p)
    BY <1>0, <2>2 DEF LockTimeout, Close, MyuartClose
  <2>3. CASE lock' = lock /\ orphan' = orphan  BY <1>0, <2>3
  <2>4. QED
    BY <1>1, <2>1, <2>2, <2>3, Zenon
    DEF Run, FlushOpened, OddLength, RetryLock, TtyWrite, RxBegin, RxOnStale, RxEnd
<1>2. ASSUME NEW p \in Proc, Asked(p) PROVE lock' \in Mqtt
  <2>1. CASE Reconnect(p)  BY <1>0, <2>1 DEF Reconnect
  <2>2. CASE lock' = lock /\ orphan' = orphan  BY <1>0, <2>2
  <2>3. QED
    BY <1>2, <2>1, <2>2, Zenon DEF Asked, Open, BridgeRequest, MqttRequest, WriteFile
<1>3. ASSUME NEW p \in Proc, Kill(p) \/ MqttEnds(p) PROVE lock' \in Mqtt
  <2>1. ProcessGone(p)  BY <1>3, Zenon DEF Kill, MqttEnds
  <2>2. QED  BY <1>0, <2>1 DEF ProcessGone
<1>4. ASSUME NEW p \in Proc, Line(p) PROVE lock' \in Mqtt  BY <1>0, <1>4 DEF Line
<1>5. CASE UNCHANGED vars  BY <1>0, <1>5, Zenon DEF vars
<1>6. QED  BY <1>1, <1>2, <1>3, <1>4, <1>5 DEF Next

(* A call of the web API or a tool that has the lock is in its exchange,   *)
(* at most four of its own steps from the close that gives the lock back:  *)
(* with ExchangesAdvance, the part of CallsUnlock that does not depend on  *)
(* fairness (modbus_api.c:558-564).                                        *)
THEOREM CallHoldsBriefly == Spec => []HolderAlmostDone
<1>1. Init => OrphanInv  BY DEF Init, OrphanInv
<1>2. IndInv /\ OrphanInv => HolderAlmostDone
  <2> SUFFICES ASSUME IndInv, OrphanInv, NEW p \in Modbus \cup Terminal, lock = p
               PROVE  StepsLeft(p) \in 1..4
    BY DEF HolderAlmostDone
  <2>1. p \notin Daemon /\ p # NoProc /\ p \notin Mqtt  BY ProcAssumption DEF Daemon
  <2>2. pc[p] \in InCall \cup {"close"}  BY <2>1 DEF IndInv, HolderInv, OrphanInv
  <2>3. QED  BY <2>2 DEF StepsLeft, InCall
<1>3. QED  BY <1>1, <1>2, OrphanNext, IndInvariant, PTL DEF Spec
=============================================================================
