-------------------------- MODULE LifeCycleProofs --------------------------
(***************************************************************************)
(* Proofs about the processes of gl-rs485, for any number of processes and *)
(* calls: their types, the port they listen on, the status, and what they   *)
(* run with, for any text that may be stored as the speed.                 *)
(***************************************************************************)
EXTENDS LifeCycle, DataLemmas

USE DEF Foreground, Starting, Bridging, Alive

LEMMA ConfigTyped == ASSUME TypeOK PROVE CfgInit \in Config /\ store \in Stored
BY LifeAssumption DEF TypeOK, CfgInit, Config, Stored

LEMMA OptionsTyped ==
  ASSUME TypeOK, NEW p \in Proc
  PROVE  [CfgInit EXCEPT !.speed = Given(proc[p].opts.speed, @),
                         !.port = Given(proc[p].opts.port, @)] \in Config
<1> DEFINE o == proc[p].opts
<1>1. o \in Options \cup {NoOptions}  BY DEF TypeOK, Process
<1>2. CfgInit \in Config  BY ConfigTyped
<1>3. o.speed = Nothing \/ o.speed \in {x.speed : x \in Options}  BY <1>1 DEF NoOptions
<1>4. o.port = Nothing \/ o.port \in Ports  BY <1>1, LifeAssumption DEF NoOptions
<1>5. QED  BY <1>2, <1>3, <1>4 DEF Config, Given

LEMMA ProcTyped ==
  ASSUME TypeOK, NEW p \in Proc, NEW r \in Process, proc' = [proc EXCEPT ![p] = r],
         r.at \in Alive \ {"main"} => r.cfg \in Config /\ r.read \in Stored
  PROVE  /\ proc' \in [Proc -> Process]
         /\ \A q \in Proc : proc'[q].at \in Alive \ {"main"} => proc'[q].cfg \in Config /\ proc'[q].read \in Stored
BY DEF TypeOK

\* A process moves to another place with its configuration.
LEMMA GotoTyped ==
  ASSUME TypeOK, NEW p \in Proc, proc[p].at \in Alive \ {"main"}, NEW place \in Alive, Goto(p, place)
  PROVE  /\ proc' \in [Proc -> Process]
         /\ \A q \in Proc : proc'[q].at \in Alive \ {"main"} => proc'[q].cfg \in Config /\ proc'[q].read \in Stored
<1> DEFINE r == [proc[p] EXCEPT !.at = place]
<1>1. r \in Process /\ r.cfg \in Config /\ r.read \in Stored  BY DEF TypeOK, Process
<1>2. proc' = [proc EXCEPT ![p] = r]  BY DEF Goto
<1>3. QED  BY <1>1, <1>2, ProcTyped

LEMMA GoneTyped ==
  ASSUME TypeOK, NEW p \in Proc, Gone(p)
  PROVE  /\ proc' \in [Proc -> Process]
         /\ \A q \in Proc : proc'[q].at \in Alive \ {"main"} => proc'[q].cfg \in Config /\ proc'[q].read \in Stored
<1>1. Off("gone") \in Process  BY DEF Off, Process
<1>2. Off("gone").at \notin Alive  BY DEF Off
<1>3. QED  BY <1>1, <1>2, ProcTyped DEF Gone

LEMMA LaunchTyped ==
  ASSUME TypeOK, NEW p \in Proc, NEW k \in Kind \cup {"unknown"}, NEW o \in Options \cup {NoOptions},
         Launch(p, k, o)
  PROVE  /\ proc' \in [Proc -> Process]
         /\ \A q \in Proc : proc'[q].at \in Alive \ {"main"} => proc'[q].cfg \in Config /\ proc'[q].read \in Stored
<1> DEFINE r == [proc[p] EXCEPT !.at = "main", !.kind = k, !.opts = o]
<1>1. r \in Process /\ r.at = "main"  BY DEF TypeOK, Process
<1>2. proc' = [proc EXCEPT ![p] = r]  BY DEF Launch, TypeOK, Process
<1>3. QED  BY <1>1, <1>2, ProcTyped

LEMMA CommitTyped ==
  ASSUME TypeOK, NEW values, Commit(values), \A k \in DOMAIN values : values[k] \in {"0", "1"}
  PROVE  status' \in [Kind -> {"0", "1"}]
BY DEF TypeOK, Commit


LEMMA TypeInit == Init => TypeOK
<1> SUFFICES ASSUME Init PROVE TypeOK  OBVIOUS
<1>1. Off("unused") \in Process /\ Idle \in Calling  BY DEF Off, Process, Idle, Calling
<1>2. Off("unused").at = "unused"  BY DEF Off
<1>3. QED  BY <1>1, <1>2 DEF Init, TypeOK

LEMMA TypeNext == TypeOK /\ [Next]_vars => TypeOK'
<1> SUFFICES ASSUME TypeOK, [Next]_vars PROVE TypeOK'  OBVIOUS
<1> DEFINE ProcsOK == /\ proc \in [Proc -> Process]
                      /\ \A q \in Proc : proc[q].at \in Alive \ {"main"} =>
                           proc[q].cfg \in Config /\ proc[q].read \in Stored
<1>a. ASSUME store' \in Stored, status' \in [Kind -> {"0", "1"}], ProcsOK',
             call' \in [Call -> Calling], clean' \in BOOLEAN
      PROVE  TypeOK'
  BY <1>a, Zenon DEF TypeOK
<1>b. ProcsOK /\ store \in Stored /\ status \in [Kind -> {"0", "1"}] /\ call \in [Call -> Calling]
  BY DEF TypeOK
<1>c. clean \in BOOLEAN  BY Zenon DEF TypeOK
<1>d. \A p \in Proc, k \in Kind \cup {"unknown"} : \A o : Launch(p, k, o) => clean' \in BOOLEAN
  BY <1>c, Zenon DEF Launch
<1> HIDE DEF ProcsOK
<1>1. ASSUME NEW p \in Proc, UserStarts(p) PROVE TypeOK'
  <2>1. PICK k \in Kind \cup {"unknown"}, o \in Options : Launch(p, k, o)  BY <1>1, Zenon DEF UserStarts
  <2>2. ProcsOK'  BY <2>1, LaunchTyped DEF ProcsOK
  <2>3. clean' \in BOOLEAN  BY <2>1, <1>d, Zenon
  <2>4. store' = store /\ status' = status /\ call' = call  BY <1>1, Zenon DEF UserStarts
  <2>5. QED  BY <2>2, <2>3, <2>4, <1>a, <1>b, Zenon
<1>2. ASSUME NEW p \in Proc, ReadConfig(p) PROVE TypeOK'
  <2> DEFINE c == [CfgInit EXCEPT !.speed = Given(proc[p].opts.speed, @),
                                  !.port = Given(proc[p].opts.port, @)]
             r == [proc[p] EXCEPT !.at = "log", !.read = store, !.cfg = c]
  <2>1. c \in Config  BY OptionsTyped
  <2> HIDE DEF c
  <2>2. r \in Process /\ r.cfg \in Config /\ r.read \in Stored  BY <2>1, <1>b DEF TypeOK, Process
  <2>3. proc' = [proc EXCEPT ![p] = r]  BY <1>2 DEF ReadConfig, TypeOK, Process, c
  <2>4. ProcsOK'  BY <2>2, <2>3, ProcTyped DEF ProcsOK
  <2>5. store' = store /\ status' = status /\ call' = call /\ clean' = clean  BY <1>2, Zenon DEF ReadConfig
  <2>6. QED  BY <2>4, <2>5, <1>a, <1>b, <1>c, Zenon
<1>3. ASSUME NEW p \in Proc, TtyOpen(p) PROVE TypeOK'
  <2> DEFINE r == [proc[p] EXCEPT !.at = "tty", !.read = store, !.cfg = CfgInit]
  <2>1. r \in Process /\ r.cfg \in Config /\ r.read \in Stored  BY ConfigTyped DEF TypeOK, Process
  <2>2. proc' = [proc EXCEPT ![p] = r]  BY <1>3 DEF TtyOpen, TypeOK, Process
  <2>3. ProcsOK'  BY <2>1, <2>2, ProcTyped DEF ProcsOK
  <2>4. store' = store /\ status' = status /\ call' = call /\ clean' = clean  BY <1>3, Zenon DEF TtyOpen
  <2>5. QED  BY <2>3, <2>4, <1>a, <1>b, <1>c, Zenon
<1>4. ASSUME NEW p \in Proc, StartFails(p) \/ ConnInitFails(p) \/ Dies(p) PROVE TypeOK'
  <2>1. Gone(p) /\ store' = store /\ status' = status /\ call' = call
    BY <1>4, Zenon DEF StartFails, ConnInitFails, Dies
  <2>2. clean' = FALSE  BY <1>4, Zenon DEF StartFails, ConnInitFails, Dies
  <2>3. ProcsOK'  BY <2>1, GoneTyped DEF ProcsOK
  <2>4. clean' \in BOOLEAN  BY <2>2, Zenon
  <2>5. QED  BY <2>1, <2>3, <2>4, <1>a, <1>b, Zenon
<1>5. ASSUME NEW p \in Proc, Daemonize(p) \/ SockCreateServer(p) \/ Listen(p) \/ LoopEnds(p) PROVE TypeOK'
  <2>1. proc[p].at \in Alive \ {"main"} /\ \E place \in Alive : Goto(p, place)
    BY <1>5 DEF Daemonize, SockCreateServer, Listen, LoopEnds
  <2>2. ProcsOK'  BY <2>1, GotoTyped DEF ProcsOK
  <2>3. store' = store /\ status' = status /\ call' = call
    BY <1>5, Zenon DEF Daemonize, SockCreateServer, Listen, LoopEnds
  <2>4. clean' \in BOOLEAN  BY <1>5, <1>c, Zenon DEF Daemonize, SockCreateServer, Listen, LoopEnds
  <2>5. QED  BY <2>2, <2>3, <2>4, <1>a, <1>b, Zenon
<1>6. ASSUME NEW p \in Proc, MqttReady(p) \/ SocketReady(p) \/ Ends(p) PROVE TypeOK'
  <2>1. proc[p].at \in Alive \ {"main"} /\ (Gone(p) \/ Goto(p, "serving"))
    BY <1>6 DEF MqttReady, SocketReady, Ends
  <2>2. ProcsOK'  BY <2>1, GotoTyped, GoneTyped DEF ProcsOK
  <2>3. status' \in [Kind -> {"0", "1"}]
    BY <1>6, CommitTyped DEF MqttReady, SocketReady, Ends, Only, Both, Kind
  <2>4. store' = store /\ call' = call /\ clean' = clean
    BY <1>6, Zenon DEF MqttReady, SocketReady, Ends
  <2>5. QED  BY <2>2, <2>3, <2>4, <1>a, <1>b, <1>c, Zenon
<1>7. ASSUME NEW c \in Call, NEW k \in Kind, Start(c, k) PROVE TypeOK'
  <2>1. PICK p \in Proc : /\ Launch(p, k, NoOptions)
                          /\ call' = [call EXCEPT ![c].at = "starting", ![c].kind = k, ![c].started = p]
    BY <1>7, Zenon DEF Start
  <2>2. ProcsOK'  BY <2>1, LaunchTyped DEF ProcsOK
  <2>3. call' \in [Call -> Calling]
    <3> DEFINE r == [call[c] EXCEPT !.at = "starting", !.kind = k, !.started = p]
    <3>1. r \in Calling  BY <1>b DEF Calling
    <3>2. call' = [call EXCEPT ![c] = r]  BY <2>1, <1>b DEF Calling
    <3>3. QED  BY <3>1, <3>2, <1>b
  <2>4. clean' \in BOOLEAN  BY <2>1, <1>d, Zenon
  <2>5. store' = store /\ status' = status  BY <1>7, Zenon DEF Start
  <2>6. QED  BY <2>2, <2>3, <2>4, <2>5, <1>a, <1>b, Zenon
<1>8. ASSUME NEW c \in Call, StartDone(c) \/ StopDone(c) PROVE TypeOK'
  <2>1. call' = [call EXCEPT ![c] = Idle]  BY <1>8, Zenon DEF StartDone, StopDone
  <2>2. call' \in [Call -> Calling]  BY <2>1, <1>b DEF Calling, Idle
  <2>3. status' \in [Kind -> {"0", "1"}]
    <3>1. CASE StartDone(c)
      <4>1. Commit(Only(call[c].kind, "1"))  BY <3>1, Zenon DEF StartDone
      <4>2. QED  BY <4>1, <1>b DEF Commit, Only
    <3>2. CASE StopDone(c)
      <4>1. Commit(Both("0"))  BY <3>2, Zenon DEF StopDone
      <4>2. QED  BY <4>1, <1>b DEF Commit, Both
    <3>3. QED  BY <1>8, <3>1, <3>2
  <2>4. ProcsOK' /\ store' = store
    BY <1>8, <1>b, Zenon DEF StartDone, StopDone, ProcsOK
  <2>5. clean' \in BOOLEAN  BY <1>8, <1>c, Zenon DEF StartDone, StopDone
  <2>6. QED  BY <2>2, <2>3, <2>4, <2>5, <1>a, <1>b, Zenon
<1>9. ASSUME NEW c \in Call, Stop(c) PROVE TypeOK'
  <2>1. LivePid \in SUBSET (Proc \X {"parent", "daemon"})
    BY DEF LivePid, Live, Pid
  <2>2. call' \in [Call -> Calling]
    <3> DEFINE r == [call[c] EXCEPT !.at = "stopping", !.targets = LivePid]
    <3>1. r \in Calling  BY <1>b, <2>1 DEF Calling
    <3>2. call' = [call EXCEPT ![c] = r]  BY <1>9, <1>b DEF Stop, Calling
    <3>3. QED  BY <3>1, <3>2, <1>b
  <2>3. ProcsOK' /\ store' = store /\ status' = status  BY <1>9, <1>b, Zenon DEF Stop, ProcsOK
  <2>4. clean' \in BOOLEAN  BY <1>9, <1>c, Zenon DEF Stop
  <2>5. QED  BY <2>2, <2>3, <2>4, <1>a, <1>b, Zenon
<1>10. ASSUME NEW c \in Call, KillOne(c) PROVE TypeOK'
  <2>1. PICK pid \in call[c].targets :
           /\ call' = [call EXCEPT ![c].targets = @ \ {pid}]
           /\ proc' = IF pid \in LivePid THEN [proc EXCEPT ![pid[1]] = Off("gone")] ELSE proc
    BY <1>10, Zenon DEF KillOne
  <2>2. call' \in [Call -> Calling]  BY <2>1, <1>b DEF Calling
  <2>3. pid \in LivePid => \E p \in Proc : pid[1] = p  BY DEF LivePid, Pid, Live
  <2>4. proc' = proc \/ \E p \in Proc : Gone(p)  BY <2>1, <2>3 DEF Gone
  <2>5. ProcsOK'  BY <2>4, <1>b, GoneTyped DEF ProcsOK
  <2>6. store' = store /\ status' = status /\ clean' = clean  BY <1>10, Zenon DEF KillOne
  <2>7. QED  BY <2>2, <2>5, <2>6, <1>a, <1>b, <1>c, Zenon
<1>11. CASE SetAttr \/ SetSocketConfig
  <2>1. store' \in Stored  BY <1>11, <1>b DEF SetAttr, SetSocketConfig, Stored
  <2>2. ProcsOK' /\ status' = status /\ call' = call /\ clean' = clean
    BY <1>11, <1>b, Zenon DEF SetAttr, SetSocketConfig, ProcsOK
  <2>3. QED  BY <2>1, <2>2, <1>a, <1>b, <1>c, Zenon
<1>12. CASE UNCHANGED vars
  <2>1. ProcsOK' /\ store' = store /\ status' = status /\ call' = call /\ clean' = clean
    BY <1>12, <1>b, Zenon DEF vars, ProcsOK
  <2>2. QED  BY <2>1, <1>a, <1>b, <1>c, Zenon
<1>13. QED
  BY <1>1, <1>2, <1>3, <1>4, <1>5, <1>6, <1>7, <1>8, <1>9, <1>10, <1>11, <1>12, Zenon
  DEF Next, ProcStep, CallStep

\* What rs485_socket_stop() kills is a process that lives, and only that one goes.
LEMMA KilledGone ==
  ASSUME NEW c \in Call, KillOne(c)
  PROVE  proc' = proc \/ \E y \in Proc : Gone(y)
<1>1. PICK pid \in call[c].targets :
        proc' = IF pid \in LivePid THEN [proc EXCEPT ![pid[1]] = Off("gone")] ELSE proc
  BY Zenon DEF KillOne
<1>2. CASE pid \in LivePid
  <2>1. PICK y \in Live : pid = Pid(y)  BY <1>2, Zenon DEF LivePid
  <2>2. pid[1] = y /\ y \in Proc  BY <2>1 DEF Pid, Live
  <2>3. Gone(y)  BY <1>1, <1>2, <2>2, Zenon DEF Gone
  <2>4. QED  BY <2>2, <2>3, Zenon
<1>3. CASE pid \notin LivePid  BY <1>1, <1>3, Zenon
<1>4. QED  BY <1>2, <1>3, Zenon

\* Every variable keeps its type: a process past cfg_init() has a whole
\* configuration, whatever was stored or given meanwhile.
THEOREM TypeCorrect == Spec => []TypeOK
<1>1. Init => TypeOK  BY TypeInit
<1>2. TypeOK /\ [Next]_vars => TypeOK'  BY TypeNext
<1>3. QED  BY <1>1, <1>2, PTL DEF Spec

-----------------------------------------------------------------------------
(* The port.                                                               *)

\* A process listens from the step that finds its port free, and keeps the
\* port as long as it listens.
LEMMA ListenerNext == TypeOK /\ OneListener /\ [Next]_vars => OneListener'
<1> SUFFICES ASSUME TypeOK, OneListener, [Next]_vars,
                    NEW p \in Proc, NEW q \in Proc, p # q, Listens(p)', Listens(q)'
             PROVE  proc'[p].cfg.port # proc'[q].cfg.port
  BY Zenon DEF OneListener
<1> DEFINE Kept(x) == Listens(x) /\ proc'[x].cfg = proc[x].cfg
           New(x)  == PortFree(x) /\ proc'[x].cfg = proc[x].cfg
<1>1. ASSUME NEW x \in Proc, Listens(x)'
      PROVE  Kept(x) \/ (New(x) /\ \A y \in Proc \ {x} : proc'[y] = proc[y])
  <2>1. ASSUME NEW y \in Proc, UserStarts(y) PROVE Kept(x)
    BY <1>1, <2>1 DEF UserStarts, Launch, Listens, TypeOK, Process
  <2>2. ASSUME NEW c \in Call, NEW k \in Kind, Start(c, k) PROVE Kept(x)
    BY <1>1, <2>2 DEF Start, Launch, Listens, TypeOK, Process
  <2>3. ASSUME NEW y \in Proc, ReadConfig(y) \/ TtyOpen(y) PROVE Kept(x)
    BY <1>1, <2>3 DEF ReadConfig, TtyOpen, Listens, TypeOK, Process
  <2>4. ASSUME NEW y \in Proc, Gone(y) PROVE Kept(x)
    BY <1>1, <2>4 DEF Gone, Off, Listens, TypeOK
  <2>5. ASSUME NEW y \in Proc, NEW place \in Starting, Goto(y, place) PROVE Kept(x)
    BY <1>1, <2>5 DEF Goto, Listens, TypeOK, Process
  <2>6. ASSUME NEW y \in Proc, NEW place, Goto(y, place), Listens(y) \/ proc[y].kind # "socket" PROVE Kept(x)
    BY <1>1, <2>6 DEF Goto, Listens, TypeOK, Process
  <2>7. ASSUME NEW y \in Proc, NEW place, Goto(y, place), proc[y].cfg.mode # "tcps" PROVE Kept(x)
    BY <1>1, <2>7 DEF Goto, Listens, TypeOK, Process
  <2>8. ASSUME NEW y \in Proc, Listen(y) PROVE Kept(x) \/ (New(x) /\ \A z \in Proc \ {x} : proc'[z] = proc[z])
    BY <1>1, <2>8 DEF Listen, Goto, Listens, TypeOK, Process
  <2>9. ASSUME proc' = proc PROVE Kept(x)
    BY <1>1, <2>9 DEF Listens
  <2>10. ASSUME NEW y \in Proc, SockCreateServer(y) PROVE Kept(x)
    BY <2>10, <2>5, <2>7, Zenon DEF SockCreateServer
  <2>11. ASSUME NEW y \in Proc, SocketReady(y) \/ LoopEnds(y) PROVE Kept(x)
    <3>1. Listens(y) \/ proc[y].kind # "socket" \/ proc[y].cfg.mode # "tcps"
      BY <2>11 DEF Listens, SocketReady, LoopEnds
    <3>2. \E place : Goto(y, place)  BY <2>11, Zenon DEF SocketReady, LoopEnds
    <3>3. QED  BY <3>1, <3>2, <2>6, <2>7, Zenon
  <2>12. ASSUME NEW y \in Proc, MqttReady(y) PROVE Kept(x)
    BY <2>12, <2>6 DEF MqttReady
  <2>13. ASSUME NEW y \in Proc, Daemonize(y) PROVE Kept(x)
    BY <2>13, <2>5 DEF Daemonize
  <2>14. ASSUME NEW c \in Call, KillOne(c) PROVE Kept(x)
    <3>1. proc' = proc \/ \E y \in Proc : Gone(y)  BY <2>14, KilledGone
    <3>2. QED  BY <3>1, <2>4, <2>9, Zenon
  <2>15. QED
    BY <2>1, <2>2, <2>3, <2>4, <2>8, <2>9, <2>10, <2>11, <2>12, <2>13, <2>14, Zenon
    DEF Next, ProcStep, CallStep, StartFails, ConnInitFails, Dies, Ends, StartDone, StopDone, Stop,
        SetAttr, SetSocketConfig, vars
<1>2. CASE Kept(p) /\ Kept(q)  BY <1>2 DEF OneListener
<1>3. CASE New(p) /\ \A y \in Proc \ {p} : proc'[y] = proc[y]
  <2>1. proc'[q] = proc[q]  BY <1>3
  <2>2. Listens(q)  BY <2>1 DEF Listens
  <2>3. QED  BY <1>3, <2>1, <2>2 DEF PortFree
<1>4. CASE New(q) /\ \A y \in Proc \ {q} : proc'[y] = proc[y]
  <2>1. proc'[p] = proc[p]  BY <1>4
  <2>2. Listens(p)  BY <2>1 DEF Listens
  <2>3. QED  BY <1>4, <2>1, <2>2 DEF PortFree
<1>5. QED  BY <1>1, <1>2, <1>3, <1>4, Zenon

\* However many bridges start together, with the same port or not, no two of
\* them listen on one.
THEOREM PortsApart == Spec => []OneListener
<1>1. Init => OneListener
  BY DEF Init, OneListener, Listens, Off
<1>2. QED  BY <1>1, TypeCorrect, ListenerNext, PTL DEF Spec

-----------------------------------------------------------------------------
(* The status.                                                             *)


\* Only the socket bridge goes through the places of conn_init().
PlaceInv == \A p \in Proc : proc[p].at \in {"tty", "bound", "ready"} => proc[p].kind = "socket"

\* What ends by itself is not clean.
NoEnding == clean => \A p \in Proc : proc[p].at # "ending"

\* A stop under way will set the status; otherwise it is right, and a start
\* under way has the bridge it started alive.
Shown ==
  /\ \A k \in Kind : status[k] = "1" => \E p \in Live : proc[p].kind = k
  /\ \A p \in Proc, k \in Kind : proc[p].at = "serving" /\ proc[p].kind = k => status[k] = "1"
  /\ \A c \in Call : call[c].at = "starting" =>
       call[c].started \in Live /\ proc[call[c].started].kind = call[c].kind

NoStop == \A c \in Call : call[c].at # "stopping"

StatusInv == PlaceInv /\ NoEnding /\ (clean /\ NoStop => Shown)

LEMMA PlaceNext == TypeOK /\ PlaceInv /\ [Next]_vars => PlaceInv'
<1> SUFFICES ASSUME TypeOK, PlaceInv, [Next]_vars, NEW p \in Proc, proc'[p].at \in {"tty", "bound", "ready"}
             PROVE  proc'[p].kind = "socket"
  BY Zenon DEF PlaceInv
<1>1. ASSUME NEW y \in Proc, UserStarts(y) \/ ReadConfig(y) PROVE proc'[p].kind = "socket"
  <2>1. CASE \E k, o : proc' = [proc EXCEPT ![y].at = "main", ![y].kind = k, ![y].opts = o]
    BY <2>1 DEF PlaceInv, TypeOK, Process
  <2>2. CASE \E r, f : proc' = [proc EXCEPT ![y].at = "log", ![y].read = r, ![y].cfg = f]
    BY <2>2 DEF PlaceInv, TypeOK, Process
  <2>3. ASSUME UserStarts(y) PROVE \E k, o : proc' = [proc EXCEPT ![y].at = "main", ![y].kind = k, ![y].opts = o]
    <3>1. PICK k \in Kind \cup {"unknown"}, o \in Options : Launch(y, k, o)  BY <2>3, Zenon DEF UserStarts
    <3>2. proc' = [proc EXCEPT ![y].at = "main", ![y].kind = k, ![y].opts = o]  BY <3>1, Zenon DEF Launch
    <3>3. QED  BY <3>2, Zenon
  <2>4. ASSUME ReadConfig(y) PROVE \E r, f : proc' = [proc EXCEPT ![y].at = "log", ![y].read = r, ![y].cfg = f]
    BY <2>4, Zenon DEF ReadConfig
  <2>5. QED  BY <1>1, <2>1, <2>2, <2>3, <2>4, Zenon
<1>2. ASSUME NEW c \in Call, NEW k \in Kind, Start(c, k) PROVE proc'[p].kind = "socket"
  BY <1>2 DEF Start, Launch, PlaceInv, TypeOK, Process
<1>3. ASSUME NEW y \in Proc, Gone(y) PROVE proc'[p].kind = "socket"
  BY <1>3 DEF Gone, Off, PlaceInv, TypeOK
<1>4. ASSUME NEW y \in Proc, TtyOpen(y) \/ SockCreateServer(y) \/ Listen(y) PROVE proc'[p].kind = "socket"
  BY <1>4 DEF TtyOpen, SockCreateServer, Listen, Goto, PlaceInv, TypeOK, Process
<1>5. ASSUME NEW y \in Proc, NEW place \in {"forked", "serving", "ending"}, Goto(y, place) PROVE proc'[p].kind = "socket"
  BY <1>5 DEF Goto, PlaceInv, TypeOK, Process
<1>6. ASSUME NEW c \in Call, KillOne(c) PROVE proc'[p].kind = "socket"
  <2>1. proc' = proc \/ \E y \in Proc : Gone(y)  BY <1>6, KilledGone
  <2>2. QED  BY <2>1, <1>3 DEF PlaceInv
<1>7. ASSUME proc' = proc PROVE proc'[p].kind = "socket"  BY <1>7 DEF PlaceInv
<1>8. ASSUME NEW y \in Proc, Daemonize(y) \/ MqttReady(y) \/ SocketReady(y) \/ LoopEnds(y)
      PROVE  proc'[p].kind = "socket"
  BY <1>8, <1>5 DEF Daemonize, MqttReady, SocketReady, LoopEnds
<1>9. QED
  BY <1>1, <1>2, <1>3, <1>4, <1>6, <1>7, <1>8, Zenon
  DEF Next, ProcStep, CallStep, StartFails, ConnInitFails, Dies, Ends, StartDone, StopDone, Stop,
      SetAttr, SetSocketConfig, vars

LEMMA EndingNext == TypeOK /\ NoEnding /\ [Next]_vars => NoEnding'
<1> SUFFICES ASSUME TypeOK, NoEnding, [Next]_vars, clean', NEW p \in Proc PROVE proc'[p].at # "ending"
  BY Zenon DEF NoEnding
<1>1. ASSUME clean PROVE proc[p].at # "ending"  BY <1>1, Zenon DEF NoEnding
<1>2. ASSUME NEW y \in Proc, UserStarts(y) PROVE proc'[p].at # "ending"
  <2>1. clean /\ \E k, o : proc' = [proc EXCEPT ![y].at = "main", ![y].kind = k, ![y].opts = o]
    BY <1>2, Zenon DEF UserStarts, Launch
  <2>2. QED  BY <1>1, <2>1 DEF TypeOK, Process
<1>3. ASSUME NEW c \in Call, NEW k \in Kind, Start(c, k) PROVE proc'[p].at # "ending"
  <2>1. clean /\ \E y \in Proc : \E o : proc' = [proc EXCEPT ![y].at = "main", ![y].kind = k, ![y].opts = o]
    BY <1>3, Zenon DEF Start, Launch
  <2>2. QED  BY <1>1, <2>1 DEF TypeOK, Process
<1>4. ASSUME NEW y \in Proc, StartFails(y) \/ ConnInitFails(y) \/ Dies(y) \/ LoopEnds(y) PROVE FALSE
  BY <1>4, Zenon DEF StartFails, ConnInitFails, Dies, LoopEnds
<1>5. ASSUME NEW y \in Proc, ReadConfig(y) \/ TtyOpen(y) \/ SockCreateServer(y) \/ Listen(y)
                               \/ Daemonize(y) \/ MqttReady(y) \/ SocketReady(y)
      PROVE  proc'[p].at # "ending"
  <2>1. clean  BY <1>5, Zenon DEF ReadConfig, TtyOpen, SockCreateServer, Listen, Daemonize, MqttReady, SocketReady
  <2>2. CASE ReadConfig(y) \/ TtyOpen(y)
    BY <1>1, <2>1, <2>2 DEF ReadConfig, TtyOpen, TypeOK, Process
  <2>3. CASE \E place \in Alive \ {"ending"} : Goto(y, place)
    BY <1>1, <2>1, <2>3 DEF Goto, TypeOK, Process
  <2>4. QED
    BY <1>5, <2>2, <2>3 DEF SockCreateServer, Listen, Daemonize, MqttReady, SocketReady
<1>6. ASSUME NEW y \in Proc, Ends(y) PROVE FALSE
  <2>1. clean /\ proc[y].at = "ending"  BY <1>6, Zenon DEF Ends
  <2>2. QED  BY <2>1, Zenon DEF NoEnding
<1>7. ASSUME NEW c \in Call, KillOne(c) PROVE proc'[p].at # "ending"
  <2>1. proc' = proc \/ \E y \in Proc : Gone(y)  BY <1>7, KilledGone
  <2>2. clean  BY <1>7, Zenon DEF KillOne
  <2>3. QED  BY <2>1, <2>2, <1>1 DEF Gone, Off, TypeOK
<1>8. ASSUME NEW c \in Call, StopDone(c) PROVE proc'[p].at # "ending"
  <2>1. Live = {} /\ proc' = proc  BY <1>8, Zenon DEF StopDone
  <2>2. QED  BY <2>1 DEF Live
<1>9. ASSUME proc' = proc, clean PROVE proc'[p].at # "ending"  BY <1>9, <1>1, Zenon
<1>10. ASSUME NEW c \in Call, StartDone(c) \/ Stop(c) PROVE proc'[p].at # "ending"
  BY <1>10, <1>9, Zenon DEF StartDone, Stop
<1>11. CASE SetAttr \/ SetSocketConfig \/ UNCHANGED vars
  BY <1>11, <1>9, Zenon DEF SetAttr, SetSocketConfig, vars
<1>12. QED
  BY <1>2, <1>3, <1>4, <1>5, <1>6, <1>7, <1>8, <1>10, <1>11, Zenon DEF Next, ProcStep, CallStep

\* Of a step that leaves calls and status alone, and each process alive or
\* dead, of its kind, and serving only what already did.
LEMMA ShownKept ==
  ASSUME Shown, call' = call, status' = status,
         \A p \in Proc : proc'[p].kind = proc[p].kind /\ (proc[p].at \in Alive => proc'[p].at \in Alive)
                       /\ (proc'[p].at = "serving" => proc[p].at = "serving")
  PROVE  Shown'
<1>1. Live \subseteq Live'  BY DEF Live
<1>2. ASSUME NEW k \in Kind, status'[k] = "1" PROVE \E p \in Live' : proc'[p].kind = k
  <2>1. PICK p \in Live : proc[p].kind = k  BY <1>2, Zenon DEF Shown
  <2>2. p \in Live' /\ p \in Proc  BY <2>1, <1>1 DEF Live
  <2>3. QED  BY <2>1, <2>2
<1>3. ASSUME NEW p \in Proc, NEW k \in Kind, proc'[p].at = "serving", proc'[p].kind = k
      PROVE  status'[k] = "1"
  BY <1>3, Zenon DEF Shown
<1>4. ASSUME NEW c \in Call, call'[c].at = "starting"
      PROVE  call'[c].started \in Live' /\ proc'[call'[c].started].kind = call'[c].kind
  <2>1. call[c].started \in Live /\ proc[call[c].started].kind = call[c].kind
    BY <1>4, Zenon DEF Shown
  <2>2. call[c].started \in Proc  BY <2>1 DEF Live
  <2>3. QED  BY <2>1, <2>2, <1>1
<1>5. QED  BY <1>2, <1>3, <1>4, Zenon DEF Shown

\* The bridge that starts to serve is of the kind whose status is set.
LEMMA ShownServing ==
  ASSUME TypeOK, Shown, NEW p \in Proc, NEW k \in Kind, proc[p].at \in Alive, proc[p].kind = k,
         Goto(p, "serving"), call' = call, Commit(Only(k, "1"))
  PROVE  Shown'
<1>1. \A q \in Proc : proc'[q].kind = proc[q].kind /\ (proc[q].at \in Alive => proc'[q].at \in Alive)
                     /\ (proc'[q].at = "serving" => q = p \/ proc[q].at = "serving")
  BY DEF Goto, TypeOK, Process
<1>2. status'[k] = "1" /\ \A x \in Kind \ {k} : status'[x] = status[x]
  BY DEF Commit, Only
<1>3. Live \subseteq Live' /\ p \in Live  BY <1>1 DEF Live
<1>4. ASSUME NEW x \in Kind, status'[x] = "1" PROVE \E q \in Live' : proc'[q].kind = x
  <2>1. CASE x = k  BY <2>1, <1>1, <1>3
  <2>2. CASE x # k
    <3>1. PICK q \in Live : proc[q].kind = x  BY <1>4, <1>2, <2>2, Zenon DEF Shown
    <3>2. q \in Live' /\ q \in Proc  BY <3>1, <1>3 DEF Live
    <3>3. QED  BY <3>1, <3>2, <1>1
  <2>3. QED  BY <2>1, <2>2
<1>5. ASSUME NEW q \in Proc, NEW x \in Kind, proc'[q].at = "serving", proc'[q].kind = x
      PROVE  status'[x] = "1"
  <2>1. CASE q = p  BY <2>1, <1>5, <1>1, <1>2
  <2>2. CASE q # p
    <3>1. status[x] = "1"  BY <2>2, <1>5, <1>1, Zenon DEF Shown
    <3>2. QED  BY <3>1, <1>2
  <2>3. QED  BY <2>1, <2>2
<1>6. ASSUME NEW c \in Call, call'[c].at = "starting"
      PROVE  call'[c].started \in Live' /\ proc'[call'[c].started].kind = call'[c].kind
  <2>1. call[c].started \in Live /\ proc[call[c].started].kind = call[c].kind
    BY <1>6, Zenon DEF Shown
  <2>2. call[c].started \in Proc  BY <2>1 DEF Live
  <2>3. QED  BY <2>1, <2>2, <1>1, <1>3
<1>7. QED  BY <1>4, <1>5, <1>6, Zenon DEF Shown

\* A clean start finds nothing alive, so nothing is shown as running.
LEMMA ShownLaunch ==
  ASSUME TypeOK, clean /\ NoStop => Shown, NEW p \in Proc, NEW k, NEW o, Launch(p, k, o), clean',
         status' = status,
         \/ call' = call
         \/ k \in Kind /\ \E c \in Call :
              call' = [call EXCEPT ![c].at = "starting", ![c].kind = k, ![c].started = p]
  PROVE  Shown'
<1>1. clean /\ Quiet /\ Live = {}  BY Zenon DEF Launch
<1>2. NoStop  BY <1>1 DEF Quiet, NoStop
<1>3. \A x \in Kind : status'[x] # "1"  BY <1>1, <1>2 DEF Shown
<1>4. proc' = [proc EXCEPT ![p].at = "main", ![p].kind = k, ![p].opts = o]  BY Zenon DEF Launch
<1>5. proc'[p].at = "main" /\ proc'[p].kind = k /\ \A q \in Proc \ {p} : proc'[q] = proc[q]
  <2> DEFINE r == [proc[p] EXCEPT !.at = "main", !.kind = k, !.opts = o]
  <2>1. proc \in [Proc -> Process]  BY DEF TypeOK
  <2>2. proc' = [proc EXCEPT ![p] = r]  BY <1>4, <2>1 DEF Process
  <2>3. r.at = "main" /\ r.kind = k  BY <2>1 DEF Process
  <2>4. proc'[p] = r /\ \A q \in Proc \ {p} : proc'[q] = proc[q]
    <3> HIDE DEF r
    <3>1. QED  BY <2>1, <2>2
  <2>5. QED  BY <2>3, <2>4
<1>6. \A q \in Proc : proc'[q].at # "serving"
  <2>1. \A q \in Proc : proc[q].at # "serving"  BY <1>1 DEF Live
  <2>2. QED  BY <2>1, <1>5
<1>7. p \in Live'  BY <1>5 DEF Live
<1>8. ASSUME NEW c \in Call, call'[c].at = "starting"
      PROVE  call'[c].started = p /\ call'[c].kind = k
  <2>1. call[c].at # "starting" /\ call \in [Call -> Calling]  BY <1>1 DEF Quiet, TypeOK
  <2>2. PICK d \in Call : call' = [call EXCEPT ![d].at = "starting", ![d].kind = k, ![d].started = p]
    BY <2>1, <1>8
  <2>3. c = d  BY <2>1, <2>2, <1>8
  <2>4. call[c] \in Calling /\ call' = [call EXCEPT ![c] = [call[c] EXCEPT !.at = "starting", !.kind = k, !.started = p]]
    BY <2>1, <2>2, <2>3 DEF Calling
  <2>5. call'[c] = [call[c] EXCEPT !.at = "starting", !.kind = k, !.started = p]
    BY <2>1, <2>4, Zenon
  <2>6. QED  BY <2>4, <2>5 DEF Calling
<1>9. QED  BY <1>3, <1>5, <1>6, <1>7, <1>8, Zenon DEF Shown

LEMMA ShownNext ==
  TypeOK /\ StatusInv /\ [Next]_vars /\ clean' /\ NoStop' => Shown'
<1> SUFFICES ASSUME TypeOK, PlaceInv, NoEnding, clean /\ NoStop => Shown, [Next]_vars, clean', NoStop'
             PROVE  Shown'
  BY Zenon DEF StatusInv
<1>1. ASSUME call' = call, clean PROVE Shown
  BY <1>1, Zenon DEF NoStop
<1>2. ASSUME NEW y \in Proc, UserStarts(y) PROVE Shown'
  <2>1. PICK k, o : Launch(y, k, o)  BY <1>2, Zenon DEF UserStarts
  <2>2. status' = status /\ call' = call  BY <1>2, Zenon DEF UserStarts
  <2>3. QED  BY <2>1, <2>2, ShownLaunch, Zenon
<1>3. ASSUME NEW c \in Call, NEW k \in Kind, Start(c, k) PROVE Shown'
  <2>1. PICK y \in Proc : Launch(y, k, NoOptions)
               /\ call' = [call EXCEPT ![c].at = "starting", ![c].kind = k, ![c].started = y]
    BY <1>3, Zenon DEF Start
  <2>2. status' = status  BY <1>3, Zenon DEF Start
  <2>3. QED  BY <2>1, <2>2, ShownLaunch, Zenon
<1>4. ASSUME NEW y \in Proc, StartFails(y) \/ ConnInitFails(y) \/ Dies(y) \/ LoopEnds(y) PROVE FALSE
  BY <1>4, Zenon DEF StartFails, ConnInitFails, Dies, LoopEnds
<1>5. ASSUME NEW y \in Proc, Ends(y) PROVE FALSE
  <2>1. clean /\ proc[y].at = "ending"  BY <1>5, Zenon DEF Ends
  <2>2. QED  BY <2>1, Zenon DEF NoEnding
<1>6. ASSUME NEW y \in Proc, MqttReady(y) \/ SocketReady(y) PROVE Shown'
  <2>1. call' = call /\ clean  BY <1>6, Zenon DEF MqttReady, SocketReady
  <2>2. Shown  BY <2>1, <1>1
  <2>3. ASSUME MqttReady(y) PROVE Shown'
    <3>1. proc[y].at \in Alive /\ proc[y].kind = "mqtt" /\ "mqtt" \in Kind  BY <2>3 DEF MqttReady, Kind
    <3>2. Goto(y, "serving") /\ Commit(Only("mqtt", "1"))  BY <2>3, Zenon DEF MqttReady
    <3>3. QED  BY <2>1, <2>2, <3>1, <3>2, ShownServing, Zenon
  <2>4. ASSUME SocketReady(y) PROVE Shown'
    <3>1. proc[y].at \in Alive /\ proc[y].kind = "socket" /\ "socket" \in Kind
      BY <2>4 DEF SocketReady, Kind, PlaceInv
    <3>2. Goto(y, "serving") /\ Commit(Only("socket", "1"))  BY <2>4, Zenon DEF SocketReady
    <3>3. QED  BY <2>1, <2>2, <3>1, <3>2, ShownServing, Zenon
  <2>5. QED  BY <1>6, <2>3, <2>4, Zenon
<1>7. ASSUME NEW y \in Proc, ReadConfig(y) \/ TtyOpen(y) \/ SockCreateServer(y) \/ Listen(y) \/ Daemonize(y)
      PROVE  Shown'
  <2>1. call' = call /\ status' = status /\ clean
    BY <1>7, Zenon DEF ReadConfig, TtyOpen, SockCreateServer, Listen, Daemonize
  <2>2. CASE \E place, r, f : place \in Alive \ {"serving"} /\ proc[y].at \in Alive
                  /\ proc' = [proc EXCEPT ![y].at = place, ![y].read = r, ![y].cfg = f]
    <3>1. \A q \in Proc : proc'[q].kind = proc[q].kind /\ (proc[q].at \in Alive => proc'[q].at \in Alive)
                         /\ (proc'[q].at = "serving" => proc[q].at = "serving")
      BY <2>2 DEF TypeOK, Process
    <3>2. QED  BY <3>1, <2>1, <1>1, ShownKept, Zenon
  <2>3. CASE \E place \in Alive \ {"serving"} : proc[y].at \in Alive /\ Goto(y, place)
    <3>1. \A q \in Proc : proc'[q].kind = proc[q].kind /\ (proc[q].at \in Alive => proc'[q].at \in Alive)
                         /\ (proc'[q].at = "serving" => proc[q].at = "serving")
      BY <2>3 DEF Goto, TypeOK, Process
    <3>2. QED  BY <3>1, <2>1, <1>1, ShownKept, Zenon
  <2>4. ASSUME ReadConfig(y) \/ TtyOpen(y)
        PROVE  \E place, r, f : place \in Alive \ {"serving"} /\ proc[y].at \in Alive
                  /\ proc' = [proc EXCEPT ![y].at = place, ![y].read = r, ![y].cfg = f]
    <3>1. "log" \in Alive \ {"serving"} /\ "tty" \in Alive \ {"serving"} /\ "main" \in Alive /\ "forked" \in Alive
      OBVIOUS
    <3>2. QED  BY <2>4, <3>1, Zenon DEF ReadConfig, TtyOpen
  <2>5. ASSUME SockCreateServer(y) \/ Listen(y) \/ Daemonize(y)
        PROVE  \E place \in Alive \ {"serving"} : proc[y].at \in Alive /\ Goto(y, place)
    BY <2>5 DEF SockCreateServer, Listen, Daemonize
  <2>6. QED  BY <1>7, <2>2, <2>3, <2>4, <2>5, Zenon
<1>8. ASSUME NEW c \in Call, StartDone(c) PROVE Shown'
  <2>1. clean /\ proc' = proc /\ call[c].at = "starting" /\ call' = [call EXCEPT ![c] = Idle]
             /\ Commit(Only(call[c].kind, "1"))
    BY <1>8, Zenon DEF StartDone
  <2>2. \A d \in Call : call'[d] = call[d] \/ (d = c /\ call'[d].at = "idle")
    BY <2>1 DEF Idle, TypeOK
  <2>3. NoStop  BY <2>1, <2>2 DEF NoStop
  <2>4. Shown  BY <2>1, <2>3
  <2>5. call[c].started \in Live /\ proc[call[c].started].kind = call[c].kind
    BY <2>1, <2>4, Zenon DEF Shown
  <2>6. \A x \in Kind : status'[x] = IF x = call[c].kind THEN "1" ELSE status[x]
    BY <2>1 DEF Commit, Only
  <2>7. Live' = Live  BY <2>1 DEF Live
  <2>8. ASSUME NEW x \in Kind, status'[x] = "1" PROVE \E q \in Live' : proc'[q].kind = x
    <3>1. CASE x = call[c].kind  BY <3>1, <2>1, <2>5, <2>7
    <3>2. CASE x # call[c].kind  BY <3>2, <2>8, <2>1, <2>4, <2>6, <2>7 DEF Shown
    <3>3. QED  BY <3>1, <3>2
  <2>9. ASSUME NEW q \in Proc, NEW x \in Kind, proc'[q].at = "serving", proc'[q].kind = x PROVE status'[x] = "1"
    <3>1. status[x] = "1"  BY <2>9, <2>1, <2>4, Zenon DEF Shown
    <3>2. QED  BY <3>1, <2>6
  <2>10. ASSUME NEW d \in Call, call'[d].at = "starting"
         PROVE  call'[d].started \in Live' /\ proc'[call'[d].started].kind = call'[d].kind
    <3>1. call'[d] = call[d]  BY <2>10, <2>2
    <3>2. call[d].started \in Live /\ proc[call[d].started].kind = call[d].kind
      BY <3>1, <2>10, <2>4 DEF Shown
    <3>3. QED  BY <3>1, <3>2, <2>1, <2>7
  <2>11. QED  BY <2>8, <2>9, <2>10, Zenon DEF Shown
<1>9. ASSUME NEW c \in Call, Stop(c) \/ KillOne(c) PROVE FALSE
  <2>1. call'[c].at = "stopping"
    <3>1. ASSUME Stop(c) PROVE call'[c].at = "stopping"
      BY <3>1 DEF Stop, TypeOK, Calling
    <3>2. ASSUME KillOne(c) PROVE call'[c].at = "stopping"
      <4>1. PICK t : call' = [call EXCEPT ![c].targets = t] /\ call[c].at = "stopping"
        BY <3>2, Zenon DEF KillOne
      <4>2. QED  BY <4>1 DEF TypeOK, Calling
    <3>3. QED  BY <1>9, <3>1, <3>2
  <2>2. QED  BY <2>1, Zenon DEF NoStop
<1>10. ASSUME NEW c \in Call, StopDone(c) PROVE Shown'
  <2>1. Live = {} /\ proc' = proc /\ call' = [call EXCEPT ![c] = Idle] /\ Commit(Both("0"))
             /\ \A d \in Call \ {c} : call[d].at = "idle"
    BY <1>10, Zenon DEF StopDone
  <2>2. \A x \in Kind : status'[x] # "1"  BY <2>1 DEF Commit, Both
  <2>3. \A d \in Call : call'[d].at = "idle"  BY <2>1 DEF Idle, TypeOK
  <2>4. \A q \in Proc : proc'[q].at # "serving"  BY <2>1 DEF Live
  <2>5. QED  BY <2>2, <2>3, <2>4 DEF Shown
<1>11. CASE SetAttr \/ SetSocketConfig \/ UNCHANGED vars
  <2>1. call' = call /\ status' = status /\ clean /\ proc' = proc
    BY <1>11, Zenon DEF SetAttr, SetSocketConfig, vars
  <2>2. QED  BY <2>1, <1>1, ShownKept, Zenon
<1>12. QED
  BY <1>2, <1>3, <1>4, <1>5, <1>6, <1>7, <1>8, <1>9, <1>10, <1>11, Zenon DEF Next, ProcStep, CallStep

\* The status is true whenever a clean history leaves no call under way: what
\* is set is set by the bridge that serves or by the call that started it, and
\* only a stop that found everything gone, or nothing else under way, resets it.
THEOREM StatusShown == Spec => []StatusTrue
<1>1. Init => StatusInv
  BY DEF Init, StatusInv, PlaceInv, NoEnding, Shown, Off, Idle
<1>2. TypeOK /\ StatusInv /\ [Next]_vars => StatusInv'
  BY PlaceNext, EndingNext, ShownNext, Zenon DEF StatusInv
<1>3. StatusInv => StatusTrue
  <2>1. Quiet => NoStop  BY DEF Quiet, NoStop
  <2>2. QED  BY <2>1, Zenon DEF StatusInv, StatusTrue, Shown
<1>4. QED  BY <1>1, <1>2, <1>3, TypeCorrect, PTL DEF Spec
-----------------------------------------------------------------------------
(* The configuration.                                                      *)

Text == Seq(0..9 \cup {Other})

\* powTen() multiplies by ten n times.
LEMMA PowTen ==
  /\ powTen[0] = 1
  /\ \A n \in Nat : powTen[n] \in Nat /\ powTen[n + 1] = 10 * powTen[n]
<1> DEFINE step == [n \in Nat |-> [x \in Nat |-> 10 * x]]
<1>1. 1 \in Nat /\ step \in [Nat -> [Nat -> Nat]]  OBVIOUS
<1>2. PICK g : g \in [Nat -> Nat] /\ Recursive(g, 1, step)
  <2> HIDE DEF step
  <2>1. QED  BY <1>1, Recursion
<1>3. g = [n \in Nat |-> IF n = 0 THEN 1 ELSE 10 * g[n - 1]]
  <2>1. ASSUME NEW n \in Nat, n # 0  PROVE step[n][g[n - 1]] = 10 * g[n - 1]
    <3>1. n - 1 \in Nat /\ g[n - 1] \in Nat  BY <1>2, <2>1
    <3>2. QED  BY <3>1
  <2> HIDE DEF step
  <2>2. QED  BY <1>2, <2>1 DEF Recursive
<1>4. powTen = [n \in Nat |-> IF n = 0 THEN 1 ELSE 10 * powTen[n - 1]]  BY <1>3 DEF powTen
<1>5. powTen[0] = 1  BY <1>4
<1>6. \A n \in Nat : powTen[n + 1] = 10 * powTen[n]
  <2>1. \A n \in Nat : n + 1 \in Nat /\ n + 1 # 0 /\ (n + 1) - 1 = n  OBVIOUS
  <2>2. QED  BY <1>4, <2>1, Zenon
<1> DEFINE Num == {n \in Nat : powTen[n] \in Nat}
<1>7. \A n \in Nat : n \in Num
  <2>1. 0 \in Num  BY <1>5
  <2>2. ASSUME NEW n \in Nat, n \in Num  PROVE n + 1 \in Num
    <3>1. powTen[n] \in Nat /\ powTen[n + 1] = 10 * powTen[n]  BY <2>2, <1>6
    <3>2. QED  BY <3>1
  <2> HIDE DEF Num
  <2>3. QED  BY <2>1, <2>2, AllNats
<1>8. QED  BY <1>5, <1>6, <1>7

\* A text has as many leading digits as stand before its first other character.
LEMMA LeadingDigits ==
  ASSUME NEW t \in Text
  PROVE  /\ Leading(t) \in 0..Len(t)
         /\ \A k \in 1..Leading(t) : t[k] \in 0..9
         /\ Leading(t) = Len(t) \/ t[Leading(t) + 1] = Other
<1> DEFINE L == Len(t)
           Stops == {n \in 0..L : n = L \/ t[n + 1] = Other}
<1>1. L \in Nat /\ \A k \in 1..L : t[k] \in 0..9 \cup {Other}  BY DEF Text
<1>2. L \in Stops /\ Stops \subseteq Nat  BY <1>1
<1>3. PICK m \in Stops : \A n \in Stops : m <= n
  <2> HIDE DEF Stops
  <2>1. QED  BY <1>2, LeastNat
<1>4. m \in 0..L /\ (m = L \/ t[m + 1] = Other)  OBVIOUS
<1>5. ASSUME NEW k \in 1..m  PROVE t[k] # Other
  <2>1. k - 1 \in 0..L /\ (k - 1) + 1 = k /\ ~(m <= k - 1)  BY <1>1, <1>4
  <2>2. k - 1 \notin Stops  BY <2>1, <1>3
  <2>3. QED  BY <2>1, <2>2
<1>6. /\ Leading(t) \in 0..L
      /\ \A k \in 1..Leading(t) : t[k] # Other
      /\ Leading(t) = L \/ t[Leading(t) + 1] = Other
  BY <1>4, <1>5 DEF Leading
<1>7. \A k \in 1..Leading(t) : k \in 1..L  BY <1>1, <1>6
<1>8. QED  BY <1>1, <1>6, <1>7

\* The loop of strToNumber() after n digits: their number, scaled by what follows.
LEMMA Sums ==
  ASSUME NEW t \in Text, NEW m \in 0..Len(t), \A k \in 1..m : t[k] \in 0..9,
         NEW sum, NEW value,
         sum = CHOOSE f : f = [n \in 0..m |-> IF n = 0 THEN 0 ELSE f[n - 1] + t[n] * powTen[Len(t) - n]],
         value = CHOOSE f : f = [n \in 0..m |-> IF n = 0 THEN 0 ELSE 10 * f[n - 1] + t[n]]
  PROVE  value[m] \in Nat /\ sum[m] = value[m] * powTen[Len(t) - m]
<1> DEFINE L == Len(t)
           digit == [n \in Nat |-> IF n \in 1..m THEN t[n] ELSE 0]
           part  == [n \in Nat |-> IF n \in 1..m THEN t[n] * powTen[L - n] ELSE 0]
           addTo == [n \in Nat |-> [x \in Nat |-> x + part[n]]]
           after == [n \in Nat |-> [x \in Nat |-> 10 * x + digit[n]]]
<1>1. L \in Nat /\ m \in Nat /\ 0 \in Nat  BY DEF Text
<1> HIDE DEF L
<1>2. \A n \in 1..m : n \in Nat /\ L - n \in Nat /\ n - 1 \in 0..m  BY <1>1 DEF L
<1>3. digit \in [Nat -> Nat]  OBVIOUS
<1>4. part \in [Nat -> Nat]
  <2>1. ASSUME NEW n \in 1..m  PROVE t[n] * powTen[L - n] \in Nat
    <3>1. L - n \in Nat  BY <1>2
    <3>2. powTen[L - n] \in Nat  BY <3>1, PowTen, Zenon
    <3>3. t[n] \in Nat  OBVIOUS
    <3>4. QED  BY <3>2, <3>3
  <2>2. QED  BY <2>1
<1>5. \A n \in 1..m : digit[n] = t[n] /\ part[n] = t[n] * powTen[L - n]  BY <1>2
<1> HIDE DEF digit, part
<1>6. addTo \in [Nat -> [Nat -> Nat]]
  <2>1. \A n \in Nat : part[n] \in Nat  BY <1>4
  <2>2. QED  BY <2>1
<1>7. after \in [Nat -> [Nat -> Nat]]
  <2>1. \A n \in Nat : digit[n] \in Nat  BY <1>3
  <2>2. QED  BY <2>1
<1>8. \A n \in 1..m, x \in Nat : addTo[n][x] = x + t[n] * powTen[L - n] /\ after[n][x] = 10 * x + t[n]
  BY <1>2, <1>5
<1> HIDE DEF addTo, after
<1>9. /\ sum = [n \in 0..m |-> IF n = 0 THEN 0 ELSE sum[n - 1] + t[n] * powTen[L - n]]
  <2>1. PICK f : f \in [0..m -> Nat] /\ Recursive(f, 0, addTo)
    BY <1>1, <1>6, RecursionUpto
  <2>2. ASSUME NEW n \in 0..m, n # 0  PROVE addTo[n][f[n - 1]] = f[n - 1] + t[n] * powTen[L - n]
    <3>1. n \in 1..m /\ f[n - 1] \in Nat  BY <1>1, <1>2, <2>1, <2>2
    <3>2. QED  BY <3>1, <1>8
  <2>3. f = [n \in 0..m |-> IF n = 0 THEN 0 ELSE f[n - 1] + t[n] * powTen[L - n]]  BY <2>1, <2>2 DEF Recursive
  <2>4. QED  BY <2>3 DEF L
<1>10. value = [n \in 0..m |-> IF n = 0 THEN 0 ELSE 10 * value[n - 1] + t[n]]
  <2>1. PICK f : f \in [0..m -> Nat] /\ Recursive(f, 0, after)
    BY <1>1, <1>7, RecursionUpto
  <2>2. ASSUME NEW n \in 0..m, n # 0  PROVE after[n][f[n - 1]] = 10 * f[n - 1] + t[n]
    <3>1. n \in 1..m /\ f[n - 1] \in Nat  BY <1>1, <1>2, <2>1, <2>2
    <3>2. QED  BY <3>1, <1>8
  <2>3. f = [n \in 0..m |-> IF n = 0 THEN 0 ELSE 10 * f[n - 1] + t[n]]  BY <2>1, <2>2 DEF Recursive
  <2>4. QED  BY <2>3
<1> DEFINE Fits == {n \in Nat : n \in 0..m => value[n] \in Nat /\ sum[n] = value[n] * powTen[L - n]}
<1>11. \A n \in Nat : n \in Fits
  <2>1. 0 \in Fits
    <3>1. value[0] = 0 /\ sum[0] = 0
      <4>1. 0 \in 0..m  BY <1>1
      <4>2. QED  BY <4>1, <1>9, <1>10, Zenon
    <3>2. powTen[L - 0] \in Nat  BY <1>1, PowTen
    <3>3. QED  BY <3>1, <3>2
  <2>2. ASSUME NEW n \in Nat, n \in Fits  PROVE n + 1 \in Fits
    <3> SUFFICES ASSUME n + 1 \in 0..m
                 PROVE  value[n + 1] \in Nat /\ sum[n + 1] = value[n + 1] * powTen[L - (n + 1)]
      OBVIOUS
    <3> DEFINE v == value[n]  d == t[n + 1]  P == powTen[L - (n + 1)]
    <3>1. n \in 0..m /\ n + 1 \in 1..m /\ n + 1 # 0 /\ (n + 1) - 1 = n  BY <1>1
    <3>2. value[n + 1] = 10 * v + d  BY <3>1, <1>10
    <3>3. sum[n + 1] = sum[n] + d * P  BY <3>1, <1>9
    <3>4. v \in Nat /\ sum[n] = v * powTen[L - n]  BY <3>1, <2>2
    <3>5. P \in Nat /\ powTen[L - n] = 10 * P
      <4>1. L - (n + 1) \in Nat /\ (L - (n + 1)) + 1 = L - n  BY <3>1, <1>1, <1>2
      <4>2. QED  BY <4>1, PowTen
    <3>6. d \in Nat  BY <3>1
    <3> HIDE DEF v, d, P
    <3>7. v * (10 * P) + d * P = (10 * v + d) * P  BY <3>4, <3>5, <3>6
    <3>8. 10 * v + d \in Nat  BY <3>4, <3>6
    <3>9. QED  BY <3>2, <3>3, <3>4, <3>5, <3>7, <3>8 DEF P
  <2> HIDE DEF Fits
  <2>3. QED  BY <2>1, <2>2, AllNats
<1>12. m \in 0..m  BY <1>1
<1>13. QED  BY <1>1, <1>11, <1>12 DEF L

\* strToNumber() of any text: the number it begins with, times ten for every
\* character after the first that is no digit (cfg.c:19-36).
LEMMA NumberScaled ==
  ASSUME NEW t \in Text
  PROVE  /\ Decimal(t) \in Nat
         /\ Leading(t) = Len(t) => strToNumber(t) = Decimal(t)
         /\ Leading(t) # Len(t) => strToNumber(t) = Decimal(t) * powTen[Len(t) - (Leading(t) + 1)]
<1> DEFINE L == Len(t)
           m == Leading(t)
           sum == CHOOSE f : f = [n \in 0..m |-> IF n = 0 THEN 0 ELSE f[n - 1] + t[n] * powTen[L - n]]
           value == CHOOSE f : f = [n \in 0..m |-> IF n = 0 THEN 0 ELSE 10 * f[n - 1] + t[n]]
<1>1. m \in 0..L /\ L \in Nat /\ \A k \in 1..m : t[k] \in 0..9  BY LeadingDigits DEF Text
<1>2. Decimal(t) = value[m]  BY DEF Decimal
<1>3. strToNumber(t) = IF m = L THEN sum[m] ELSE sum[m] \div 10  BY DEF strToNumber
<1>4. value[m] \in Nat /\ sum[m] = value[m] * powTen[L - m]
  <2> HIDE DEF m
  <2>1. QED  BY <1>1, Sums
<1> HIDE DEF sum, value, m, L
<1>5. CASE m = L
  <2>1. powTen[L - m] = 1  BY <1>1, <1>5, PowTen
  <2>2. QED  BY <2>1, <1>2, <1>3, <1>4, <1>5 DEF m, L
<1>6. CASE m # L
  <2> DEFINE P == powTen[L - (m + 1)]
  <2>1. L - (m + 1) \in Nat /\ (L - (m + 1)) + 1 = L - m  BY <1>1, <1>6
  <2>2. P \in Nat /\ powTen[L - m] = 10 * P  BY <2>1, PowTen
  <2> HIDE DEF P
  <2>3. ASSUME NEW v \in Nat  PROVE (v * (10 * P)) \div 10 = v * P
    <3>1. v * P \in Nat /\ v * (10 * P) = 10 * (v * P)  BY <2>2
    <3>2. \A x \in Nat : (10 * x) \div 10 = x  OBVIOUS
    <3>3. QED  BY <3>1, <3>2
  <2>4. QED  BY <2>2, <2>3, <1>2, <1>3, <1>4, <1>6 DEF m, L, P
<1>7. QED  BY <1>5, <1>6

\* A text of digits with at most one other character, the last, is read as its number.
LEMMA NumericRead ==
  ASSUME NEW t \in Text, Numeric(t)
  PROVE  strToNumber(t) = Decimal(t)
<1>1. CASE Leading(t) = Len(t)  BY <1>1, NumberScaled
<1>2. CASE Leading(t) # Len(t)
  <2>1. Leading(t) + 1 \in 1..Len(t) /\ Len(t) \in Nat  BY <1>2, LeadingDigits DEF Text
  <2>2. Leading(t) + 1 = Len(t)
    <3>1. t[Leading(t) + 1] = Other  BY <1>2, LeadingDigits, Zenon
    <3>2. QED  BY <2>1, <3>1, Zenon DEF Numeric
  <2>3. Len(t) - (Leading(t) + 1) = 0  BY <2>1, <2>2
  <2>4. powTen[Len(t) - (Leading(t) + 1)] = 1  BY <2>3, PowTen, Zenon
  <2>5. QED  BY <1>2, <2>4, NumberScaled
<1>3. QED  BY <1>1, <1>2

\* What cfg_init() makes of a stored configuration, and main() of that and the options.
FromStore(r)      == [speed |-> SpeedOf(r.speed), port |-> r.port, mode |-> r.mode]
WithOptions(r, o) == [FromStore(r) EXCEPT !.speed = Given(o.speed, @), !.port = Given(o.port, @)]

\* At each place of main() the configuration is that of the store when it was last
\* read, with the options until tty_open() has read it again.
CfgOf(x) ==
  /\ x.at \in {"log", "forked"} => x.cfg = WithOptions(x.read, x.opts)
  /\ x.at \in {"tty", "bound", "ready"} => x.cfg = FromStore(x.read)
  /\ x.at = "serving" => x.cfg = IF x.kind = "mqtt" THEN WithOptions(x.read, x.opts) ELSE FromStore(x.read)

CfgInv == \A p \in Proc : CfgOf(proc[p])

\* Only the process that moves has to be looked at.
LEMMA CfgMoves ==
  ASSUME TypeOK, CfgInv, NEW p \in Proc, NEW r, proc' = [proc EXCEPT ![p] = r], CfgOf(r)
  PROVE  CfgInv'
<1>1. \A q \in Proc : proc'[q] = IF q = p THEN r ELSE proc[q]  BY DEF TypeOK
<1>2. \A q \in Proc : CfgOf(proc'[q])  BY <1>1 DEF CfgInv
<1>3. QED  BY <1>2 DEF CfgInv

LEMMA CfgNext == TypeOK /\ PlaceInv /\ CfgInv /\ [Next]_vars => CfgInv'
<1> SUFFICES ASSUME TypeOK, PlaceInv, CfgInv, [Next]_vars PROVE CfgInv'  OBVIOUS
<1>a. proc \in [Proc -> Process] /\ CfgInit = FromStore(store)  BY DEF TypeOK, CfgInit, FromStore
<1>1. ASSUME NEW p \in Proc, NEW k, NEW o, Launch(p, k, o)  PROVE CfgInv'
  <2> DEFINE r == [proc[p] EXCEPT !.at = "main", !.kind = k, !.opts = o]
  <2>1. proc' = [proc EXCEPT ![p] = r]  BY <1>1, <1>a DEF Launch, Process
  <2>2. CfgOf(r)  BY <1>a DEF CfgOf, Process
  <2>3. QED  BY <2>1, <2>2, CfgMoves
<1>2. ASSUME NEW p \in Proc, ReadConfig(p)  PROVE CfgInv'
  <2> DEFINE c == WithOptions(store, proc[p].opts)
             r == [proc[p] EXCEPT !.at = "log", !.read = store, !.cfg = c]
  <2>1. proc' = [proc EXCEPT ![p] = r]  BY <1>2, <1>a DEF ReadConfig, WithOptions, Process
  <2> HIDE DEF c
  <2>2. r.at = "log" /\ r.cfg = c /\ r.read = store /\ r.opts = proc[p].opts  BY <1>a DEF Process
  <2>3. CfgOf(r)  BY <2>2 DEF CfgOf, c
  <2>4. QED  BY <2>1, <2>3, CfgMoves
<1>3. ASSUME NEW p \in Proc, TtyOpen(p)  PROVE CfgInv'
  <2> DEFINE r == [proc[p] EXCEPT !.at = "tty", !.read = store, !.cfg = CfgInit]
  <2>1. proc' = [proc EXCEPT ![p] = r]  BY <1>3, <1>a DEF TtyOpen, Process
  <2>2. r.at = "tty" /\ r.cfg = CfgInit /\ r.read = store  BY <1>a DEF Process
  <2>3. CfgOf(r)  BY <2>2, <1>a DEF CfgOf
  <2>4. QED  BY <2>1, <2>3, CfgMoves
<1>4. ASSUME NEW p \in Proc, Gone(p)  PROVE CfgInv'
  <2>1. CfgOf(Off("gone"))  BY DEF CfgOf, Off
  <2>2. QED  BY <2>1, <1>4, CfgMoves DEF Gone
<1>5. ASSUME NEW p \in Proc, NEW place, Goto(p, place), CfgOf([proc[p] EXCEPT !.at = place])
      PROVE  CfgInv'
  <2>1. proc' = [proc EXCEPT ![p] = [proc[p] EXCEPT !.at = place]]  BY <1>5 DEF Goto
  <2>2. QED  BY <2>1, <1>5, CfgMoves
<1>6. ASSUME NEW p \in Proc, Daemonize(p) \/ MqttReady(p) \/ SockCreateServer(p) \/ Listen(p)
                             \/ SocketReady(p) \/ LoopEnds(p)
      PROVE  CfgInv'
  <2>1. CfgOf(proc[p]) /\ proc[p] \in Process  BY <1>a DEF CfgInv
  <2>2. ASSUME NEW place, CfgOf([at |-> place, kind |-> proc[p].kind, opts |-> proc[p].opts,
                                 cfg |-> proc[p].cfg, read |-> proc[p].read])
        PROVE  CfgOf([proc[p] EXCEPT !.at = place])
    BY <2>1, <2>2 DEF Process
  <2>3. ASSUME Daemonize(p)  PROVE CfgInv'
    <3>1. CfgOf([proc[p] EXCEPT !.at = "forked"])  BY <2>1, <2>2, <2>3 DEF Daemonize, CfgOf
    <3>2. QED  BY <3>1, <2>3, <1>5 DEF Daemonize
  <2>4. ASSUME MqttReady(p)  PROVE CfgInv'
    <3>1. CfgOf([proc[p] EXCEPT !.at = "serving"])  BY <2>1, <2>2, <2>4 DEF MqttReady, CfgOf
    <3>2. QED  BY <3>1, <2>4, <1>5 DEF MqttReady
  <2>5. ASSUME SockCreateServer(p) \/ Listen(p)  PROVE CfgInv'
    <3>1. PICK place \in {"bound", "ready"} : Goto(p, place)  BY <2>5 DEF SockCreateServer, Listen
    <3>2. CfgOf([proc[p] EXCEPT !.at = place])  BY <2>1, <2>2, <2>5 DEF SockCreateServer, Listen, CfgOf
    <3>3. QED  BY <3>1, <3>2, <1>5
  <2>6. ASSUME SocketReady(p)  PROVE CfgInv'
    <3>1. proc[p].at = "ready" /\ proc[p].kind = "socket"  BY <2>6 DEF SocketReady, PlaceInv
    <3>2. CfgOf([proc[p] EXCEPT !.at = "serving"])  BY <2>1, <2>2, <3>1 DEF CfgOf
    <3>3. QED  BY <3>2, <2>6, <1>5 DEF SocketReady
  <2>7. ASSUME LoopEnds(p)  PROVE CfgInv'
    <3>1. CfgOf([proc[p] EXCEPT !.at = "ending"])  BY <2>2 DEF CfgOf
    <3>2. QED  BY <3>1, <2>7, <1>5 DEF LoopEnds
  <2>8. QED  BY <1>6, <2>3, <2>4, <2>5, <2>6, <2>7, Zenon
<1>7. ASSUME NEW c \in Call, KillOne(c)  PROVE CfgInv'
  <2>1. proc' = proc \/ \E y \in Proc : Gone(y)  BY <1>7, KilledGone
  <2>2. QED  BY <2>1, <1>4 DEF CfgInv
<1>8. ASSUME proc' = proc  PROVE CfgInv'  BY <1>8 DEF CfgInv
<1>9. QED
  BY <1>1, <1>2, <1>3, <1>4, <1>6, <1>7, <1>8, Zenon
  DEF Next, ProcStep, CallStep, UserStarts, Start, StartFails, ConnInitFails, Dies, Ends,
      StartDone, StopDone, Stop, SetAttr, SetSocketConfig, vars

\* Whatever is stored when, a bridge runs with the numbers of the texts it read, up to the
\* fastest speed, and the MQTT bridge with its options in their place (cfg.c:19-36,
\* main.c:164-206).
THEOREM RunsAsConfigured == Spec => []ConfigRight
<1>1. Init => PlaceInv /\ CfgInv  BY DEF Init, PlaceInv, CfgInv, CfgOf, Off
<1>2. TypeOK /\ PlaceInv /\ CfgInv /\ [Next]_vars => PlaceInv' /\ CfgInv'  BY PlaceNext, CfgNext
<1>3. TypeOK /\ CfgInv => ConfigRight
  <2> SUFFICES ASSUME TypeOK, CfgInv, NEW p \in Proc, proc[p].at = "serving", Numeric(proc[p].read.speed),
                      proc[p].kind = "mqtt" \/ proc[p].opts = NoOptions
               PROVE  LET number == Decimal(proc[p].read.speed)
                          stored == IF number > MaxSpeed THEN MaxSpeed ELSE number
                      IN /\ proc[p].cfg.speed = Given(proc[p].opts.speed, stored)
                         /\ proc[p].cfg.port = Given(proc[p].opts.port, proc[p].read.port)
    BY DEF ConfigRight
  <2> DEFINE r == proc[p].read  o == proc[p].opts
             stored == IF Decimal(r.speed) > MaxSpeed THEN MaxSpeed ELSE Decimal(r.speed)
  <2>1. r.speed \in Text
    <3>1. r \in Stored  BY DEF TypeOK
    <3>2. r.speed \in Speeds  BY <3>1 DEF Stored
    <3>3. QED  BY <3>2, LifeAssumption DEF Text
  <2>2. SpeedOf(r.speed) = stored  BY <2>1, NumericRead DEF SpeedOf
  <2> HIDE DEF stored
  <2>3. FromStore(r).speed = stored /\ FromStore(r).port = r.port  BY <2>2 DEF FromStore
  <2>4. WithOptions(r, o).speed = Given(o.speed, stored) /\ WithOptions(r, o).port = Given(o.port, r.port)
    BY <2>2 DEF WithOptions, FromStore
  <2>5. proc[p].cfg = IF proc[p].kind = "mqtt" THEN WithOptions(r, o) ELSE FromStore(r)
    BY DEF CfgInv, CfgOf
  <2>6. proc[p].opts = NoOptions => Given(o.speed, stored) = stored /\ Given(o.port, r.port) = r.port
    BY DEF Given, NoOptions
  <2>7. QED  BY <2>3, <2>4, <2>5, <2>6 DEF stored
<1>4. QED  BY <1>1, <1>2, <1>3, TypeCorrect, PTL DEF Spec
=============================================================================
