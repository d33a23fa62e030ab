----------------------------- MODULE SerialBus -----------------------------
(***************************************************************************)
(* One tty, several processes: the socket bridge (conn.c), the MQTT bridge *)
(* (mqtt.c), calls of the web API (modbus_api.c) and the command line      *)
(* tools (conn.c) open the same device, take an advisory flock() on it,    *)
(* flush it, write a request and read the answer.  Modelled are the system *)
(* calls that reach the shared device, in the order the code makes them.   *)
(*                                                                         *)
(* A request and its answer are the process that sent the request; frames  *)
(* are whole.  The device is there and opens; all processes run as root,   *)
(* so TIOCEXCL keeps none of them out.  A local variable that nothing      *)
(* reads any more is put back to its first value.                          *)
(***************************************************************************)
EXTENDS Integers, FiniteSets

CONSTANTS
  Proc,      \* the processes
  NoProc,    \* nobody holds the lock
  Bridge,    \* conn_loop(): keeps the tty open, tty_write()
  Mqtt,      \* mqtt_loop(): keeps the tty open, tty_write() with its result ignored
  Modbus,    \* read_rs485_data(), write_rs485_data(): open, own lock loop, close
  Terminal,  \* terminal_send_read(), get_rs485_data_to_gl_mqtt(), tty_write_read()
  File,      \* tty_write_file(): open, write without a lock, close
  MaxTries,  \* failed flock() calls that are retried, 30 in the code
  Prompt,    \* TRUE: the slave answers before the reader's timer ends, or never
  Stops      \* TRUE: daemons are killed and started again

Daemon == Bridge \cup Mqtt
Locker == Proc \ File

ASSUME ProcAssumption ==
  /\ NoProc \notin Proc
  /\ Proc = Bridge \cup Mqtt \cup Modbus \cup Terminal \cup File
  /\ Bridge \cap (Mqtt \cup Modbus \cup Terminal \cup File) = {}
  /\ Mqtt \cap (Modbus \cup Terminal \cup File) = {}
  /\ Modbus \cap (Terminal \cup File) = {}
  /\ Terminal \cap File = {}
ASSUME BusAssumption == MaxTries \in Nat /\ Prompt \in BOOLEAN /\ Stops \in BOOLEAN

VARIABLES
  pc,       \* where each process is
  fd,       \* its descriptor: "none", "open", or "stale" (closed, the number still in use)
  tries,    \* time_out: failed attempts at the lock
  saved,    \* origTTYAttrs, a static of each process
  rxSaved,  \* origAttrs of MyuartRxExpires()
  got,      \* whose answers the last exchange read
  attrs,    \* the device's attributes: "default" or "set" as uartOpen() sets them
  lock,     \* the process with the locked open file
  orphan,   \* that open file is one whose number its process has lost
  outbuf, wire, inbuf  \* requests not yet sent, requests at the slave, answers not yet read

lineVars == <<outbuf, wire, inbuf>>
vars == <<pc, fd, tries, saved, rxSaved, got, attrs, lock, orphan, lineVars>>

Init ==
  /\ pc = [p \in Proc |-> "idle"] /\ fd = [p \in Proc |-> "none"]
  /\ tries = [p \in Proc |-> 0] /\ got = [p \in Proc |-> {}]
  /\ saved = [p \in Proc |-> "default"] /\ rxSaved = [p \in Proc |-> "default"]
  /\ attrs = "default" /\ lock = NoProc /\ orphan = FALSE
  /\ outbuf = {} /\ wire = {} /\ inbuf = {}

Goto(p, label) == pc' = [pc EXCEPT ![p] = label]

\* tcflush(TCIOFLUSH) on the device, whoever's data is in its buffers.
Tcflush == outbuf' = {} /\ inbuf' = {} /\ UNCHANGED wire
-----------------------------------------------------------------------------
(* uartOpen() and MyuartClose(), uart_posix.c *)

\* open(), attributes saved and set.
UartOpenSerial(p) ==
  /\ fd' = [fd EXCEPT ![p] = "open"]
  /\ saved' = [saved EXCEPT ![p] = attrs]
  /\ attrs' = "set"
  /\ Goto(p, "opened")
  /\ got' = [got EXCEPT ![p] = {}]
  /\ UNCHANGED <<tries, rxSaved, lineVars>>

\* The attributes saved at open are put back, and the open file and its lock go.
\* On a stale number every call fails with EBADF.
MyuartClose(p, left) ==
  /\ attrs' = IF fd[p] = "open" THEN saved[p] ELSE attrs
  /\ fd' = [fd EXCEPT ![p] = left]
  /\ lock' = IF fd[p] = "open" /\ lock = p /\ ~orphan THEN NoProc ELSE lock
  /\ saved' = [saved EXCEPT ![p] = "default"]
  /\ tries' = [tries EXCEPT ![p] = 0]
  /\ got' = [got EXCEPT ![p] = {}]
  /\ UNCHANGED <<orphan, lineVars>>

Open(p) ==
  /\ pc[p] = "idle"
  /\ UartOpenSerial(p)
  /\ UNCHANGED <<lock, orphan>>

\* The connection to the broker is lost and mqtt_loop() starts over: the tty is opened
\* once more, the old descriptor is forgotten.
Reconnect(p) ==
  /\ pc[p] = "ready" /\ p \in Mqtt
  /\ UartOpenSerial(p)
  /\ orphan' = (orphan \/ (lock = p /\ fd[p] = "open"))
  /\ UNCHANGED lock

\* uartOpen() sleeps 50 ms and flushes the device.
FlushOpened(p) ==
  /\ pc[p] = "opened"
  /\ Tcflush
  /\ Goto(p, CASE p \in Daemon -> "ready" [] p \in File -> "send" [] OTHER -> "lock")
  /\ UNCHANGED <<fd, tries, saved, rxSaved, got, attrs, lock, orphan>>

\* terminal_send_read(), tty_write_read(): text of odd length, return without a close.
OddLength(p) ==
  /\ pc[p] = "lock" /\ tries[p] = 0 /\ p \in Terminal
  /\ Goto(p, "idle")
  /\ fd' = [fd EXCEPT ![p] = "none"]
  /\ saved' = [saved EXCEPT ![p] = "default"]
  /\ UNCHANGED <<tries, rxSaved, got, attrs, lock, orphan, lineVars>>
-----------------------------------------------------------------------------
(* A request comes to a daemon *)

\* Mutant: the bridge writes without asking for the lock.
MutBridgeRequest(p) ==
  /\ pc[p] = "ready" /\ p \in Bridge
  /\ IF fd[p] = "open" THEN Tcflush ELSE UNCHANGED lineVars
  /\ Goto(p, "send")
  /\ got' = [got EXCEPT ![p] = {}]
  /\ UNCHANGED <<fd, tries, saved, rxSaved, attrs, lock, orphan>>

\* conn_loop() flushes the tty before it asks for the lock.
BridgeRequest(p) ==
  /\ pc[p] = "ready" /\ p \in Bridge
  /\ IF fd[p] = "open" THEN Tcflush ELSE UNCHANGED lineVars
  /\ Goto(p, "lock")
  /\ got' = [got EXCEPT ![p] = {}]
  /\ UNCHANGED <<fd, tries, saved, rxSaved, attrs, lock, orphan>>

MqttRequest(p) ==
  /\ pc[p] = "ready" /\ p \in Mqtt
  /\ Goto(p, "lock")
  /\ got' = [got EXCEPT ![p] = {}]
  /\ UNCHANGED <<fd, tries, saved, rxSaved, attrs, lock, orphan, lineVars>>
-----------------------------------------------------------------------------
(* flock(LOCK_EX | LOCK_NB) in tty_write() and in the modbus calls *)

\* Mutant: LOCK_SH instead of LOCK_EX.
MutCanLock(p) == fd[p] = "open"

CanLock(p) == fd[p] = "open" /\ (lock = NoProc \/ (lock = p /\ ~orphan))

TryLock(p) ==
  /\ pc[p] = "lock" /\ CanLock(p)
  /\ lock' = p
  /\ Goto(p, "send")
  /\ tries' = [tries EXCEPT ![p] = 0]
  /\ UNCHANGED <<fd, saved, rxSaved, got, attrs, orphan, lineVars>>

\* Mutants: time_out compared one too late, and never counted.
MutRetryLate(p) ==
  /\ pc[p] = "lock" /\ ~CanLock(p)
  /\ tries[p] <= MaxTries
  /\ tries' = [tries EXCEPT ![p] = @ + 1]
  /\ UNCHANGED <<pc, fd, saved, rxSaved, got, attrs, lock, orphan, lineVars>>

MutRetryForever(p) ==
  /\ pc[p] = "lock" /\ ~CanLock(p)
  /\ tries[p] < MaxTries
  /\ UNCHANGED vars

RetryLock(p) ==
  /\ pc[p] = "lock" /\ ~CanLock(p)
  /\ tries[p] < MaxTries
  /\ tries' = [tries EXCEPT ![p] = @ + 1]
  /\ UNCHANGED <<pc, fd, saved, rxSaved, got, attrs, lock, orphan, lineVars>>

\* The tty is closed and -2 returned.  The bridge answers "tty write error" and keeps the
\* number; who ignores the result goes on to read from it.
LockTimeout(p) ==
  /\ pc[p] = "lock" /\ ~CanLock(p)
  /\ tries[p] = MaxTries
  /\ IF p \in Modbus THEN MyuartClose(p, "none") /\ Goto(p, "idle")
     ELSE MyuartClose(p, "stale") /\ Goto(p, IF p \in Bridge THEN "ready" ELSE "sent")
  /\ UNCHANGED rxSaved
-----------------------------------------------------------------------------
(* The exchange *)

\* MyflushIoBuffer(), MyuartTxNonBlocking().
TtyWrite(p) ==
  /\ pc[p] = "send" /\ p \in Locker
  /\ outbuf' = {p} /\ inbuf' = {} /\ UNCHANGED wire
  /\ Goto(p, "sent")
  /\ UNCHANGED <<fd, tries, saved, rxSaved, got, attrs, lock, orphan>>

\* tty_write_file(): MyuartTx() of one block, the last one or not.
WriteFile(p) ==
  /\ pc[p] = "send" /\ p \in File
  /\ outbuf' = outbuf \cup {p} /\ UNCHANGED <<wire, inbuf>>
  /\ Goto(p, "send") \/ Goto(p, "close")
  /\ UNCHANGED <<fd, tries, saved, rxSaved, got, attrs, lock, orphan>>

AfterRead(p) == Goto(p, IF p \in Daemon THEN "ready" ELSE "close")

\* MyuartRxExpires(): tcdrain(), the attributes saved.
RxBegin(p) ==
  /\ pc[p] = "sent" /\ fd[p] = "open"
  /\ outbuf = {}
  /\ rxSaved' = [rxSaved EXCEPT ![p] = attrs]
  /\ Goto(p, "reading")
  /\ UNCHANGED <<fd, tries, saved, got, attrs, lock, orphan, lineVars>>

\* On the closed number tcgetattr() fails: -1 ends the read loop.
RxOnStale(p) ==
  /\ pc[p] = "sent" /\ fd[p] # "open"
  /\ AfterRead(p)
  /\ UNCHANGED <<fd, tries, saved, rxSaved, got, attrs, lock, orphan, lineVars>>

\* read() returns what is there, or nothing when the timer ends; the attributes put back.
RxEnd(p) ==
  /\ pc[p] = "reading"
  /\ inbuf # {} \/ ~Prompt \/ p \notin wire
  /\ got' = [got EXCEPT ![p] = inbuf]
  /\ inbuf' = {} /\ UNCHANGED <<outbuf, wire>>
  /\ attrs' = rxSaved[p]
  /\ rxSaved' = [rxSaved EXCEPT ![p] = "default"]
  /\ AfterRead(p)
  /\ UNCHANGED <<fd, tries, saved, lock, orphan>>

\* Mutant: the call returns without its MyuartClose().
MutClose(p) ==
  /\ pc[p] = "close"
  /\ Goto(p, "idle")
  /\ fd' = [fd EXCEPT ![p] = "none"]
  /\ UNCHANGED <<tries, saved, rxSaved, got, attrs, lock, orphan, lineVars>>

\* The last MyuartClose() of a call; after a lock not had it is the second one.
Close(p) ==
  /\ pc[p] = "close"
  /\ MyuartClose(p, "none") /\ Goto(p, "idle")
  /\ UNCHANGED rxSaved
-----------------------------------------------------------------------------
(* The end of a daemon.  rs485_socket_stop() and rs485_mqtt_stop() kill it *)
(* with signal 9, and conn_loop() returns without a close: the kernel      *)
(* closes its descriptors and the attributes stay.                         *)

ProcessGone(p) ==
  /\ Goto(p, "idle")
  /\ fd' = [fd EXCEPT ![p] = "none"] /\ tries' = [tries EXCEPT ![p] = 0]
  /\ saved' = [saved EXCEPT ![p] = "default"] /\ rxSaved' = [rxSaved EXCEPT ![p] = "default"]
  /\ got' = [got EXCEPT ![p] = {}]
  /\ lock' = IF lock = p THEN NoProc ELSE lock
  /\ orphan' = (orphan /\ lock # p)
  /\ UNCHANGED lineVars

\* Mutant: a lock that outlives its process, such as a lock file.
MutKill(p) ==
  /\ Stops /\ p \in Daemon /\ pc[p] # "idle"
  /\ Goto(p, "idle")
  /\ fd' = [fd EXCEPT ![p] = "none"] /\ tries' = [tries EXCEPT ![p] = 0]
  /\ UNCHANGED <<saved, rxSaved, got, attrs, lock, orphan, lineVars>>

Kill(p) ==
  /\ Stops /\ p \in Daemon /\ pc[p] # "idle"
  /\ ProcessGone(p)
  /\ UNCHANGED attrs

\* mqtt_loop() gives up reconnecting and closes the tty it knows of; then the process ends.
MqttEnds(p) ==
  /\ Stops /\ p \in Mqtt /\ pc[p] = "ready"
  /\ ProcessGone(p)
  /\ attrs' = IF fd[p] = "open" THEN saved[p] ELSE attrs
-----------------------------------------------------------------------------
(* The line and the slave.  With other attributes than uartOpen() sets a   *)
(* frame may or may not get through.                                       *)

GetsThrough(p, buf) == IF attrs = "set" THEN {buf \cup {p}} ELSE {buf, buf \cup {p}}

Transmit(p) ==
  /\ p \in outbuf
  /\ outbuf' = outbuf \ {p}
  /\ wire' \in GetsThrough(p, wire)
  /\ UNCHANGED inbuf

SlaveAnswers(p) ==
  /\ p \in wire
  /\ wire' = wire \ {p}
  /\ inbuf' \in GetsThrough(p, inbuf)
  /\ UNCHANGED outbuf

SlaveSilent(p) ==
  /\ p \in wire
  /\ wire' = wire \ {p}
  /\ UNCHANGED <<outbuf, inbuf>>

Line(p) ==
  /\ Transmit(p) \/ SlaveAnswers(p) \/ SlaveSilent(p)
  /\ UNCHANGED <<pc, fd, tries, saved, rxSaved, got, attrs, lock, orphan>>
-----------------------------------------------------------------------------
\* What a process does by itself once it is asked for something.
Run(p) ==
  \/ FlushOpened(p) \/ OddLength(p)
  \/ TryLock(p) \/ RetryLock(p) \/ LockTimeout(p)
  \/ TtyWrite(p) \/ RxBegin(p) \/ RxOnStale(p) \/ RxEnd(p) \/ Close(p)

Asked(p) == Open(p) \/ Reconnect(p) \/ BridgeRequest(p) \/ MqttRequest(p) \/ WriteFile(p)

Next == \E p \in Proc : Run(p) \/ Asked(p) \/ Kill(p) \/ MqttEnds(p) \/ Line(p)

Spec == Init /\ [][Next]_vars

\* Every process that has something to do is scheduled, and the line moves on.
FairSpec == Spec /\ \A p \in Proc : WF_vars(Run(p)) /\ WF_vars(Line(p))
-----------------------------------------------------------------------------
(* The type invariant. *)
TypeOK ==
  /\ pc \in [Proc -> {"idle", "opened", "ready", "lock", "send", "sent", "reading", "close"}]
  /\ fd \in [Proc -> {"none", "open", "stale"}]
  /\ tries \in [Proc -> 0..MaxTries]
  /\ saved \in [Proc -> {"default", "set"}] /\ rxSaved \in [Proc -> {"default", "set"}]
  /\ got \in [Proc -> SUBSET Proc]
  /\ attrs \in {"default", "set"} /\ lock \in Proc \cup {NoProc} /\ orphan \in BOOLEAN
  /\ outbuf \subseteq Proc /\ wire \subseteq Proc /\ inbuf \subseteq Proc

\* p writes to or reads from the tty, on a live descriptor.
Exchanging(p) == pc[p] \in {"send", "sent", "reading"} /\ fd[p] = "open"

\* Of the processes that lock, one at a time writes to and reads from the tty, though
\* some ignore that they did not get the lock and go on (conn.c:205-225, 243-252).
MutualExclusion == \A p, q \in Locker : Exchanging(p) /\ Exchanging(q) => p = q

\* With a slave that is not late and nobody killed or writing unlocked, what a process
\* reads is the answer to its own request, whoever opened, flushed, was refused or closed
\* the tty meanwhile (modbus_api.c:558-564, conn.c:214-222).
OwnAnswers == \A p \in Proc : got[p] \subseteq {p}

\* The lock is held through a descriptor somebody still has: the double close of a
\* refused caller never leaves it locked or frees another's (conn.c:214-218, 252).
LockHeldOpen == lock # NoProc => fd[lock] = "open" \/ orphan

\* A call ends and a daemon becomes ready again, whoever holds the lock
\* (conn.c:214-220, modbus_api.c:551-557).
CallsEnd == \A p \in Locker : pc[p] = "lock" ~> pc[p] \in {"idle", "ready"}

\* A call never keeps the lock: refused calls and daemons can have it later.
CallsUnlock == \A p \in Modbus \cup Terminal : lock = p ~> lock # p
=============================================================================
