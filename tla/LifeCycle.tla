----------------------------- MODULE LifeCycle -----------------------------
(***************************************************************************)
(* The processes of gl-rs485: main() of src/src/main.c from its start to   *)
(* its end, beside the API calls of src/src/modbus_api.c that start and    *)
(* stop it, that change the stored configuration and that keep, in the     *)
(* same store, whether each bridge is running.  What the bridges do while  *)
(* they run is the subject of ConnLoop and MqttBridge.                     *)
(***************************************************************************)
EXTENDS Integers, Sequences

CONSTANTS
  Proc,      \* processes; an identity is used once
  Call,      \* threads that call the API
  Speeds,    \* speeds as stored: sequences of digits and Other
  Other,     \* a character that is not a digit
  Ports, Modes,
  Options,   \* what a user may give on the command line: -s and -P
  Nothing    \* no value

Kind == {"socket", "mqtt"}
MaxSpeed == 115200

ASSUME LifeAssumption ==
  /\ Other \notin 0..9
  /\ \A t \in Speeds : t \in Seq(0..9 \cup {Other})
  /\ Modes \subseteq {"tcps", "tcpc", "udp"} /\ Nothing \notin Ports \cup Nat
  /\ Options \subseteq [speed : Nat \cup {Nothing}, port : Ports \cup {Nothing}]

VARIABLES
  store,   \* the configuration in UCI
  status,  \* and the status options of both bridges
  proc,    \* a process: its place in main(), -B, options, cfg, and
           \* the store when it last ran cfg_init()
  call,    \* a call: its place, its kind, whom it started, whom it will kill
  clean    \* since the last stop that left nothing running, calls came one at a
           \* time, found nothing to start beside, and no process ended by itself

vars == <<store, status, proc, call, clean>>

\* The places of main() in order: in the foreground, as a daemon, as a bridge.
Foreground == {"main", "log"}
Starting   == {"forked", "tty", "bound"}
Bridging   == {"ready", "serving", "ending"}
Alive      == Foreground \cup Starting \cup Bridging

Live  == {p \in Proc : proc[p].at \in Alive}
Quiet == \A c \in Call : call[c].at = "idle"

-----------------------------------------------------------------------------
(* cfg_init()                                                              *)

powTen[n \in Nat] == IF n = 0 THEN 1 ELSE 10 * powTen[n - 1]

\* How many digits a text begins with.
Leading(text) == CHOOSE n \in 0..Len(text) :
  (\A k \in 1..n : text[k] # Other) /\ (n = Len(text) \/ text[n + 1] = Other)

\* Each digit is scaled by the length of the text; at a character that is no
\* digit what was added so far is divided by ten, once, and the loop ends.
strToNumber(numbers) ==
  LET length == Len(numbers)
      first  == Leading(numbers)
      sum[n \in 0..first] ==
        IF n = 0 THEN 0 ELSE sum[n - 1] + numbers[n] * powTen[length - n]
  IN IF first = length THEN sum[first] ELSE sum[first] \div 10

SpeedOf(text) == LET speed == strToNumber(text)
                 IN IF speed > MaxSpeed THEN MaxSpeed ELSE speed

CfgInit == [speed |-> SpeedOf(store.speed), port |-> store.port, mode |-> store.mode]

Stored    == [speed : Speeds, port : Ports, mode : Modes]
NoOptions == [speed |-> Nothing, port |-> Nothing]
Off(place) == [at |-> place, kind |-> Nothing, opts |-> NoOptions, cfg |-> Nothing, read |-> Nothing]
Idle      == [at |-> "idle", kind |-> Nothing, started |-> Nothing, targets |-> {}]

Init ==
  /\ store \in Stored /\ status = [k \in Kind |-> "0"]
  /\ proc = [p \in Proc |-> Off("unused")] /\ call = [c \in Call |-> Idle]
  /\ clean = TRUE

-----------------------------------------------------------------------------
(* A process.                                                              *)

Goto(p, place) == proc' = [proc EXCEPT ![p].at = place]
Gone(p) == proc' = [proc EXCEPT ![p] = Off("gone")]

\* A process is created, by a call or in a shell.
Launch(p, k, o) ==
  /\ proc[p].at = "unused"
  /\ proc' = [proc EXCEPT ![p].at = "main", ![p].kind = k, ![p].opts = o]
  /\ clean' = (clean /\ Quiet /\ Live = {})

UserStarts(p) ==
  /\ \E k \in Kind \cup {"unknown"}, o \in Options : Launch(p, k, o)
  /\ UNCHANGED <<store, status, call>>

Given(o, value) == IF o = Nothing THEN value ELSE o

\* Faulty variant: cfg_init() runs after the options, which are lost in it.
MutReadConfig(p) ==
  /\ proc[p].at = "main"
  /\ proc' = [proc EXCEPT ![p].at = "log", ![p].read = store, ![p].cfg = CfgInit]
  /\ UNCHANGED <<store, status, call, clean>>

\* cfg_init(), and the options over it.
ReadConfig(p) ==
  /\ proc[p].at = "main"
  /\ LET o == proc[p].opts IN
       proc' = [proc EXCEPT ![p].at = "log", ![p].read = store,
                            ![p].cfg = [CfgInit EXCEPT !.speed = Given(o.speed, @),
                                                       !.port = Given(o.port, @)]]
  /\ UNCHANGED <<store, status, call, clean>>

\* An option is invalid, the log does not open, the process cannot fork.
StartFails(p) ==
  /\ proc[p].at = "log"
  /\ Gone(p) /\ clean' = FALSE
  /\ UNCHANGED <<store, status, call>>

\* daemon(): the parent ends and whoever waits for it goes on.  The child has
\* a number of its own, see Pid.
Daemonize(p) ==
  /\ proc[p].at = "log"
  /\ Goto(p, "forked")
  /\ UNCHANGED <<store, status, call, clean>>

Commit(values) == status' = [k \in Kind |-> IF k \in DOMAIN values THEN values[k] ELSE status[k]]
Only(k, s) == [x \in {k} |-> s]
Both(s)    == [x \in Kind |-> s]

MqttReady(p) ==
  /\ proc[p].at = "forked" /\ proc[p].kind = "mqtt"
  /\ Goto(p, "serving") /\ Commit(Only("mqtt", "1"))
  /\ UNCHANGED <<store, call, clean>>

\* tty_open() reads the configuration again, after the options.
TtyOpen(p) ==
  /\ proc[p].at = "forked" /\ proc[p].kind = "socket"
  /\ proc' = [proc EXCEPT ![p].at = "tty", ![p].read = store, ![p].cfg = CfgInit]
  /\ UNCHANGED <<store, status, call, clean>>

\* A listening socket holds its port against others that would bind to it or
\* listen; sockets that are only bound do not, with SO_REUSEADDR.
Listens(p)  == proc[p].at \in Bridging /\ proc[p].kind = "socket" /\ proc[p].cfg.mode = "tcps"
PortFree(p) == \A q \in Proc \ {p} : Listens(q) => proc[q].cfg.port # proc[p].cfg.port

\* socket(), then bind() or, in tcpc mode, connect().
SockCreateServer(p) ==
  /\ proc[p].at = "tty"
  /\ proc[p].cfg.mode = "tcps" => PortFree(p)
  /\ Goto(p, IF proc[p].cfg.mode = "tcps" THEN "bound" ELSE "ready")
  /\ UNCHANGED <<store, status, call, clean>>

\* Faulty variant: the result of listen() is not looked at.
MutListen(p) ==
  /\ proc[p].at = "bound"
  /\ Goto(p, "ready")
  /\ UNCHANGED <<store, status, call, clean>>

Listen(p) ==
  /\ proc[p].at = "bound" /\ PortFree(p)
  /\ Goto(p, "ready")
  /\ UNCHANGED <<store, status, call, clean>>

\* The tty, the socket, bind(), connect() or listen() fails: the status stays.
ConnInitFails(p) ==
  /\ proc[p].at \in {"tty", "bound"} \/ (proc[p].at = "forked" /\ proc[p].kind = "socket")
  /\ Gone(p) /\ clean' = FALSE
  /\ UNCHANGED <<store, status, call>>

SocketReady(p) ==
  /\ proc[p].at = "ready"
  /\ Goto(p, "serving") /\ Commit(Only("socket", "1"))
  /\ UNCHANGED <<store, call, clean>>

\* conn_loop() or mqtt_loop() returns, or -B named neither.
LoopEnds(p) ==
  /\ proc[p].at = "serving" \/ (proc[p].at = "forked" /\ proc[p].kind = "unknown")
  /\ Goto(p, "ending") /\ clean' = FALSE
  /\ UNCHANGED <<store, status, call>>

Ends(p) ==
  /\ proc[p].at = "ending"
  /\ Gone(p) /\ Commit(Both("0"))
  /\ UNCHANGED <<store, call, clean>>

\* A signal, or the loop's own exit().
Dies(p) ==
  /\ proc[p].at \in Alive
  /\ Gone(p) /\ clean' = FALSE
  /\ UNCHANGED <<store, status, call>>

ProcStep(p) ==
  \/ ReadConfig(p) \/ StartFails(p) \/ Daemonize(p) \/ MqttReady(p)
  \/ TtyOpen(p) \/ SockCreateServer(p) \/ Listen(p) \/ ConnInitFails(p) \/ SocketReady(p)
  \/ Ends(p)

-----------------------------------------------------------------------------
(* The API.                                                                *)

\* rs485_socket_start(), rs485_mqtt_start(): the command runs until its
\* foreground process has ended.
Start(c, k) ==
  /\ call[c].at = "idle"
  /\ \E p \in Proc :
       /\ Launch(p, k, NoOptions)
       /\ call' = [call EXCEPT ![c].at = "starting", ![c].kind = k, ![c].started = p]
  /\ UNCHANGED <<store, status>>

\* Then the status is set, whatever has become of the daemon.
StartDone(c) ==
  /\ call[c].at = "starting" /\ proc[call[c].started].at \notin Foreground
  /\ call' = [call EXCEPT ![c] = Idle] /\ Commit(Only(call[c].kind, "1"))
  /\ UNCHANGED <<store, proc, clean>>

\* A process by its number: another one before daemon() and after.
Pid(p)  == <<p, IF proc[p].at \in Foreground THEN "parent" ELSE "daemon">>
LivePid == {Pid(p) : p \in Live}

\* rs485_socket_stop(), rs485_mqtt_stop(): pgrep lists who is there.
Stop(c) ==
  /\ call[c].at = "idle"
  /\ call' = [call EXCEPT ![c].at = "stopping", ![c].targets = LivePid]
  /\ clean' = (clean /\ Quiet)
  /\ UNCHANGED <<store, status, proc>>

\* Faulty variant: the process is asked to end, and does so in order.
MutKillOne(c) ==
  /\ call[c].at = "stopping"
  /\ \E pid \in call[c].targets :
       /\ call' = [call EXCEPT ![c].targets = @ \ {pid}]
       /\ proc' = IF pid \in LivePid THEN [proc EXCEPT ![pid[1]].at = "ending"] ELSE proc
  /\ UNCHANGED <<store, status, clean>>

\* kill -9, one after the other; the number may have gone meanwhile.
KillOne(c) ==
  /\ call[c].at = "stopping"
  /\ \E pid \in call[c].targets :
       /\ call' = [call EXCEPT ![c].targets = @ \ {pid}]
       /\ proc' = IF pid \in LivePid THEN [proc EXCEPT ![pid[1]] = Off("gone")] ELSE proc
  /\ UNCHANGED <<store, status, clean>>

\* Faulty variant: only the status of the bridge that was started is reset.
MutStopDone(c) ==
  /\ call[c].at = "stopping" /\ call[c].targets = {}
  /\ call' = [call EXCEPT ![c] = Idle] /\ Commit(Only("socket", "0"))
  /\ clean' = (Live = {} /\ \A d \in Call \ {c} : call[d].at = "idle")
  /\ UNCHANGED <<store, proc>>

StopDone(c) ==
  /\ call[c].at = "stopping" /\ call[c].targets = {}
  /\ call' = [call EXCEPT ![c] = Idle] /\ Commit(Both("0"))
  /\ clean' = (Live = {} /\ \A d \in Call \ {c} : call[d].at = "idle")
  /\ UNCHANGED <<store, proc>>

\* set_rs485_attr() and set_socket_config(): one commit each.
SetAttr ==
  /\ \E s \in Speeds : store' = [store EXCEPT !.speed = s]
  /\ UNCHANGED <<status, proc, call, clean>>

SetSocketConfig ==
  /\ \E n \in Ports, m \in Modes : store' = [store EXCEPT !.port = n, !.mode = m]
  /\ UNCHANGED <<status, proc, call, clean>>

CallStep(c) == StartDone(c) \/ KillOne(c) \/ StopDone(c)

Next ==
  \/ \E p \in Proc : ProcStep(p) \/ LoopEnds(p) \/ Dies(p) \/ UserStarts(p)
  \/ \E c \in Call : CallStep(c) \/ Stop(c) \/ \E k \in Kind : Start(c, k)
  \/ SetAttr \/ SetSocketConfig

Spec == Init /\ [][Next]_vars

-----------------------------------------------------------------------------

Config ==
  [speed : {SpeedOf(t) : t \in Speeds} \cup {o.speed : o \in Options}, port : Ports, mode : Modes]

Process ==
  [at : Alive \cup {"unused", "gone"}, kind : Kind \cup {"unknown", Nothing},
   opts : Options \cup {NoOptions}, cfg : Config \cup {Nothing}, read : Stored \cup {Nothing}]

Calling ==
  [at : {"idle", "starting", "stopping"}, kind : Kind \cup {Nothing},
   started : Proc \cup {Nothing}, targets : SUBSET (Proc \X {"parent", "daemon"})]

TypeOK ==
  /\ store \in Stored /\ status \in [Kind -> {"0", "1"}]
  /\ proc \in [Proc -> Process] /\ call \in [Call -> Calling]
  /\ clean \in BOOLEAN
  /\ \A p \in Proc : proc[p].at \in Alive \ {"main"} => proc[p].cfg \in Config /\ proc[p].read \in Stored

\* With calls one at a time, one bridge started from rest, and no bridge that
\* ended by itself, the status is what it says whenever no call is under way;
\* and however wrong it became, a stop that leaves nothing running sets it
\* right again.
StatusTrue == clean /\ Quiet => \A k \in Kind :
  /\ status[k] = "1" => \E p \in Live : proc[p].kind = k
  /\ \A p \in Proc : proc[p].at = "serving" /\ proc[p].kind = k => status[k] = "1"

\* Two socket bridges never listen on one port, though both may be bound to
\* it when they start together.
OneListener == \A p, q \in Proc : p # q /\ Listens(p) /\ Listens(q) => proc[p].cfg.port # proc[q].cfg.port

\* The number a text begins with, when at most one character is no digit and
\* it is the last.
Numeric(text) == \A n \in 1..Len(text) : text[n] = Other => n = Len(text)
Decimal(text) ==
  LET value[n \in 0..Leading(text)] == IF n = 0 THEN 0 ELSE 10 * value[n - 1] + text[n]
  IN value[Leading(text)]

\* A bridge runs with the numbers that are stored as text, up to the fastest
\* speed, and the MQTT bridge with its options in their place.  Of a socket
\* bridge with options it says nothing, see OptionsHold.
ConfigRight == \A p \in Proc : proc[p].at = "serving" /\ Numeric(proc[p].read.speed) =>
  LET number == Decimal(proc[p].read.speed)
      stored == IF number > MaxSpeed THEN MaxSpeed ELSE number
  IN proc[p].kind = "mqtt" \/ proc[p].opts = NoOptions =>
       /\ proc[p].cfg.speed = Given(proc[p].opts.speed, stored)
       /\ proc[p].cfg.port = Given(proc[p].opts.port, proc[p].read.port)

\* What readme.md says of -s and -P: they set speed and port.  Violated: the
\* socket bridge reads the configuration again when it opens the tty.
OptionsHold == \A p \in Proc : proc[p].at = "serving" =>
  /\ proc[p].opts.speed \in {Nothing, proc[p].cfg.speed}
  /\ proc[p].opts.port \in {Nothing, proc[p].cfg.port}
=============================================================================
