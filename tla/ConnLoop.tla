------------------------------ MODULE ConnLoop ------------------------------
(***************************************************************************)
(* The connection loop of the bridge daemon (src/src/conn.c): select(),    *)
(* expiry of silent connections, accept, and one walk round the connection *)
(* queue in which a ready connection has its request sent to the tty and   *)
(* the answer sent back.  The daemon is one thread; clients act between    *)
(* any two of its steps.                                                   *)
(*                                                                         *)
(* A connection is a client's identity, payloads are lengths, time is      *)
(* counted in ticks of 1/TicksPerSec second.  Descriptors are small        *)
(* numbers handed out lowest first, as accept() does, so that a number     *)
(* closed by one owner is soon the number of another.                      *)
(***************************************************************************)
EXTENDS Integers, FiniteSets, QueueOps

CONSTANTS
  Conn,         \* the clients that may connect
  NoConn,       \* a conn_t pointer that points to no live element
  Listening,    \* TRUE: connmode "tcps"; FALSE: "tcpc" and "udp", one peer on server_sd
  MaxConn,      \* cfg.maxconn
  ConnTimeout,  \* cfg.conntimeout in seconds, 0: none
  TicksPerSec,  \* ticks in the second that "tout" is divided by
  MaxFd,        \* the process's highest descriptor number (RLIMIT_NOFILE - 1)
  FdSetSize,    \* FD_SETSIZE
  TtyStr,       \* cfg.ttytype is "str": requests are hex text
  AnswerLens,   \* the lengths of the answers the slave gives
  MaxUnread,    \* bound on the requests a socket holds unread
  ClientFaults  \* what clients do besides asking: "close", "reset", "stall" (stop reading),
                \* "long" (send so much text that one read takes 254 or 256 digits)

TtyFd == 0      \* tty.fd: opened first by conn_init()
ServerFd == 1   \* server_sd: opened second
Fd == 0..MaxFd

ASSUME ConnAssumption ==
  /\ NoConn \notin Conn
  /\ Conn \cap {"Free", "Tty", "Server"} = {}
  /\ Listening \in BOOLEAN /\ TtyStr \in BOOLEAN
  /\ ~Listening => \E c \in Conn : Conn = {c}
ASSUME LimitAssumption ==
  /\ MaxConn \in Nat \ {0} /\ ConnTimeout \in Nat /\ TicksPerSec \in Nat \ {0}
  /\ MaxFd \in Nat \ {0} /\ FdSetSize \in Nat /\ MaxUnread \in Nat \ {0}
  /\ ServerFd < FdSetSize
  /\ AnswerLens \subseteq Nat \ {0}
  /\ ClientFaults \subseteq {"close", "reset", "stall", "long"}

VARIABLES
  pc,           \* where conn_loop() is
  queue,        \* the connection queue
  sd, state, timeout, resp,  \* conn_t: descriptor, FSM state, seconds left, length of the text in buf
  rxlen,        \* tty.rxlen, one for all connections
  tout,         \* ticks not yet taken from the timeouts
  rd, wr,       \* sdsetrd, sdsetwr
  cur, left,    \* curconn and len of the walk
  fdtab,        \* who owns each descriptor number
  locked,       \* the daemon's open tty holds the flock
  oneTime,      \* one_time
  idle,         \* history: ticks measured since state_conn_set() last ran for the connection
  peer, backlog, unread, stalled  \* the sockets as the kernel and the clients have them

daemonVars == <<pc, queue, sd, state, timeout, resp, rxlen, tout, rd, wr,
                cur, left, fdtab, locked, oneTime, idle>>
envVars == <<peer, backlog, unread, stalled>>
vars == <<daemonVars, envVars>>

InQueue == Range(queue)
-----------------------------------------------------------------------------
(* The sockets.  peer[c]: "out" has no socket, "up" is connected, "fin"    *)
(* has closed, "rst" has reset (the error is pending), "gone" has reset    *)
(* after the error or the end of file was taken: a write to it raises      *)
(* SIGPIPE, which nothing in src/ handles.                                 *)

Readable(c) == unread[c] > 0 \/ peer[c] \in {"fin", "rst", "gone"}
Writable(c) == c \notin stalled \/ peer[c] \in {"rst", "gone"}
ServerReadable == IF Listening THEN backlog # {} ELSE \E c \in Conn : Readable(c)

\* A write may fill the send buffer of a client that does not read.
MayStall(c) == IF "stall" \in ClientFaults THEN {stalled, stalled \cup {c}} ELSE {stalled}

\* What the first write to a socket whose peer has closed leaves behind.
AfterWrite(p) == IF p \in {"fin", "rst"} THEN "gone" ELSE p

Init ==
  /\ pc = "select" /\ queue = <<>>
  /\ sd = [c \in Conn |-> ServerFd] /\ state = [c \in Conn |-> "HEADER"]
  /\ timeout = [c \in Conn |-> ConnTimeout] /\ resp = [c \in Conn |-> 0]
  /\ rxlen = 0 /\ tout = 0 /\ rd = {} /\ wr = {}
  /\ cur = NoConn /\ left = 0
  /\ fdtab = [f \in Fd |-> CASE f = TtyFd -> "Tty" [] f = ServerFd -> "Server" [] OTHER -> "Free"]
  /\ locked = FALSE /\ oneTime = TRUE /\ idle = [c \in Conn |-> 0]
  /\ peer = [c \in Conn |-> IF Listening THEN "out" ELSE "up"]
  /\ backlog = {} /\ unread = [c \in Conn |-> 0] /\ stalled = {}
-----------------------------------------------------------------------------
(* select(), conn.c:391-441 *)

\* The nearest timeout of all connections bounds the wait, cfg.conntimeout when there are none.
Timeouts == {ConnTimeout} \cup {timeout[c] : c \in InQueue}

\* Ticks a select() of t_out seconds takes, one more than asked for at most; with no
\* conntimeout nothing depends on them.
Waits(t_out, ready) ==
  IF ConnTimeout = 0 THEN {0}
  ELSE (IF ready = {} THEN t_out * TicksPerSec ELSE 0)..(t_out * TicksPerSec + 1)

Select ==
  /\ pc = "select" /\ fdtab[ServerFd] # "Free"
  /\ rd' = {sd[c] : c \in {d \in InQueue : state[d] = "HEADER" /\ Readable(d)}}
             \cup (IF ServerReadable THEN {ServerFd} ELSE {})
  /\ wr' = {sd[c] : c \in {d \in InQueue : state[d] = "RESP" /\ Writable(d)}}
  /\ \E t_out \in Timeouts :
       /\ \A t \in Timeouts : t_out <= t
       /\ \E tval \in Waits(t_out, rd' \cup wr') :
            /\ tout' = tout + tval
            /\ idle' = [c \in Conn |-> IF c \in InQueue THEN idle[c] + tval ELSE idle[c]]
  /\ pc' = "expire"
  /\ UNCHANGED <<queue, sd, state, timeout, resp, rxlen, cur, left, fdtab, locked, oneTime, envVars>>

\* Mutant: a failing select() is tried again.
MutSelectFails ==
  /\ pc = "select" /\ fdtab[ServerFd] = "Free"
  /\ pc' = "select"
  /\ UNCHANGED <<queue, sd, state, timeout, resp, rxlen, tout, rd, wr, cur, left,
                 fdtab, locked, oneTime, idle, envVars>>

\* server_sd was closed with the connection that used it: EBADF ends the loop.
SelectFails ==
  /\ pc = "select" /\ fdtab[ServerFd] = "Free"
  /\ pc' = "exit"
  /\ UNCHANGED <<queue, sd, state, timeout, resp, rxlen, tout, rd, wr, cur, left,
                 fdtab, locked, oneTime, idle, envVars>>
-----------------------------------------------------------------------------
(* state_conn_set() and conn_close() *)

ConnSet(c, s) ==
  /\ state' = [state EXCEPT ![c] = s]
  /\ timeout' = [timeout EXCEPT ![c] = ConnTimeout]
  /\ idle' = [idle EXCEPT ![c] = 0]

\* Mutant: close(conn->sd) is missing.
MutConnClose(c) ==
  /\ queue' = DeleteElem(queue, c)
  /\ sd' = [sd EXCEPT ![c] = ServerFd] /\ state' = [state EXCEPT ![c] = "HEADER"]
  /\ resp' = [resp EXCEPT ![c] = 0] /\ idle' = [idle EXCEPT ![c] = 0]
  /\ peer' = [peer EXCEPT ![c] = "out"]
  /\ unread' = [unread EXCEPT ![c] = 0]
  /\ stalled' = stalled \ {c}
  /\ UNCHANGED fdtab

\* The element leaves the queue and is freed, its descriptor and socket are closed.
ConnClose(c) ==
  /\ fdtab' = [fdtab EXCEPT ![sd[c]] = "Free"]
  /\ queue' = DeleteElem(queue, c)
  /\ sd' = [sd EXCEPT ![c] = ServerFd] /\ state' = [state EXCEPT ![c] = "HEADER"]
  /\ resp' = [resp EXCEPT ![c] = 0] /\ idle' = [idle EXCEPT ![c] = 0]
  /\ peer' = [peer EXCEPT ![c] = "out"]
  /\ unread' = [unread EXCEPT ![c] = 0]
  /\ stalled' = stalled \ {c}
-----------------------------------------------------------------------------
(* Expiry, conn.c:443-469 *)

ToutSec == tout \div TicksPerSec
\* Mutant: a connection with no time left is kept.
MutExpires(i) == ToutSec > 0 /\ timeout[queue[i]] - ToutSec < 0
Expires(i) == ToutSec > 0 /\ timeout[queue[i]] - ToutSec <= 0

\* Mutant: the ticks short of a second are forgotten.
MutKeepAll ==
  /\ pc = "expire"
  /\ \A i \in DOMAIN queue : ~Expires(i)
  /\ timeout' = [c \in Conn |-> IF c \in InQueue THEN timeout[c] - ToutSec ELSE timeout[c]]
  /\ tout' = 0
  /\ pc' = "accept"
  /\ UNCHANGED <<queue, sd, state, resp, rxlen, rd, wr, cur, left, fdtab, locked, oneTime, idle, envVars>>

KeepAll ==
  /\ pc = "expire"
  /\ \A i \in DOMAIN queue : ~Expires(i)
  /\ timeout' = [c \in Conn |-> IF c \in InQueue THEN timeout[c] - ToutSec ELSE timeout[c]]
  /\ tout' = tout % TicksPerSec
  /\ pc' = "accept"
  /\ UNCHANGED <<queue, sd, state, resp, rxlen, rd, wr, cur, left, fdtab, locked, oneTime, idle, envVars>>

\* The first connection found expired is closed and conn_loop() returns.
Purge ==
  /\ pc = "expire"
  /\ \E i \in DOMAIN queue :
       /\ Expires(i) /\ \A j \in 1..(i - 1) : ~Expires(j)
       /\ timeout' = [c \in Conn |-> IF \E j \in 1..i : queue[j] = c
                                       THEN timeout[c] - ToutSec ELSE timeout[c]]
       /\ ConnClose(queue[i])
  /\ pc' = "exit"
  /\ UNCHANGED <<rxlen, tout, rd, wr, cur, left, locked, oneTime, backlog>>
-----------------------------------------------------------------------------
(* conn_open(), conn.c:86-137, and the start of the walk, conn.c:470-480 *)

BeginWalk(q) ==
  IF rd \cup wr = {}
  THEN pc' = "select" /\ UNCHANGED <<cur, left>>
  ELSE /\ pc' = "walk"
       /\ left' = Len(q)
       /\ cur' = IF q = <<>> THEN NoConn ELSE Head(q)

FreeFds == {f \in Fd : fdtab[f] = "Free"}

\* Mutant: off by one against FD_SETSIZE.
MutRefused(f) == f > FdSetSize \/ Len(queue) = MaxConn
Refused(f) == f >= FdSetSize \/ Len(queue) = MaxConn

\* Mutant: the newest element becomes queue->beg.
MutEnqueue(c, f) ==
  /\ queue' = <<c>> \o queue
  /\ sd' = [sd EXCEPT ![c] = f]
  /\ ConnSet(c, "HEADER")
  /\ resp' = [resp EXCEPT ![c] = 0]

Enqueue(c, f) ==
  /\ queue' = NewElem(queue, c)
  /\ sd' = [sd EXCEPT ![c] = f]
  /\ ConnSet(c, "HEADER")
  /\ resp' = [resp EXCEPT ![c] = 0]

NothingToAccept ==
  /\ pc = "accept"
  /\ ServerFd \notin rd
  /\ BeginWalk(queue)
  /\ UNCHANGED <<queue, sd, state, timeout, resp, rxlen, tout, rd, wr, fdtab, locked, oneTime, idle, envVars>>

AcceptConn ==
  /\ pc = "accept" /\ ServerFd \in rd /\ Listening
  /\ \E c \in backlog : \E f \in FreeFds :
       /\ \A g \in FreeFds : f <= g
       /\ ~Refused(f)
       /\ Enqueue(c, f)
       /\ fdtab' = [fdtab EXCEPT ![f] = c]
       /\ backlog' = backlog \ {c}
  /\ BeginWalk(queue')
  /\ UNCHANGED <<rxlen, tout, rd, wr, locked, oneTime, peer, unread, stalled>>

\* The accepted socket is closed again at once.
DropConn ==
  /\ pc = "accept" /\ ServerFd \in rd /\ Listening
  /\ \E c \in backlog : \E f \in FreeFds :
       /\ \A g \in FreeFds : f <= g
       /\ Refused(f)
       /\ peer' = [peer EXCEPT ![c] = "out"]
       /\ unread' = [unread EXCEPT ![c] = 0]
       /\ stalled' = stalled \ {c}
       /\ backlog' = backlog \ {c}
  /\ BeginWalk(queue)
  /\ UNCHANGED <<queue, sd, state, timeout, resp, rxlen, tout, rd, wr, fdtab, locked, oneTime, idle>>

\* accept() finds no descriptor number (EMFILE): the client stays in the backlog.
AcceptFails ==
  /\ pc = "accept" /\ ServerFd \in rd /\ Listening
  /\ FreeFds = {}
  /\ BeginWalk(queue)
  /\ UNCHANGED <<queue, sd, state, timeout, resp, rxlen, tout, rd, wr, fdtab, locked, oneTime, idle, envVars>>

\* "tcpc", "udp": server_sd itself becomes the connection, once.
OpenServerConn ==
  /\ pc = "accept" /\ ServerFd \in rd /\ ~Listening
  /\ IF oneTime THEN \E c \in Conn : Enqueue(c, ServerFd)
                ELSE UNCHANGED <<queue, sd, state, timeout, idle, resp>>
  /\ oneTime' = FALSE
  /\ BeginWalk(queue')
  /\ UNCHANGED <<rxlen, tout, rd, wr, fdtab, locked, envVars>>
-----------------------------------------------------------------------------
(* The walk, conn.c:478-590: one visit per element, curconn moved on after *)
(* each.                                                                   *)

Visit(c, s) == pc = "walk" /\ left > 0 /\ cur = c /\ c \in Conn /\ state[c] = s

\* Mutant: queue_next_elem() is missing.
MutAdvance(c) ==
  /\ cur' = c
  /\ left' = left - 1 /\ pc' = "walk"

Advance(c) ==
  /\ cur' = NextElem(queue, c)
  /\ left' = left - 1 /\ pc' = "walk"

\* Mutants: after a close len is counted down twice, or not at all.
MutAdvanceTwice(c) ==
  /\ LET next == NextElem(queue, c) IN
       IF next = c THEN cur' \in Conn \cup {NoConn} ELSE cur' = NextElem(queue', next)
  /\ left' = left - 2 /\ pc' = "walk"

MutAdvanceUncounted(c) ==
  /\ LET next == NextElem(queue, c) IN
       IF next = c THEN cur' \in Conn \cup {NoConn} ELSE cur' = NextElem(queue', next)
  /\ left' = left /\ pc' = "walk"

\* conn_close() returned the element after c as it was before c left, and the
\* loop moves on from there.  When c was alone that element is c itself, freed:
\* its next pointer may be anything.
AdvanceClosed(c) ==
  /\ LET next == NextElem(queue, c) IN
       IF next = c THEN cur' \in Conn \cup {NoConn} ELSE cur' = NextElem(queue', next)
  /\ left' = left - 1 /\ pc' = "walk"

Skip ==
  /\ \E c \in Conn :
       /\ \/ Visit(c, "HEADER") /\ sd[c] \notin rd
          \/ Visit(c, "RESP") /\ sd[c] \notin wr
       /\ Advance(c)
  /\ UNCHANGED <<queue, sd, state, timeout, resp, rxlen, tout, rd, wr, fdtab, locked, oneTime, idle, envVars>>

\* Back to the top of the loop: the fd sets are zeroed, curconn and len set anew.
NextRound ==
  /\ pc' = "select"
  /\ rd' = {} /\ wr' = {}
  /\ cur' = NoConn /\ left' = 0

\* read() fails (a pending reset, or nothing left to read): "goto sele".
ReadFails ==
  /\ \E c \in Conn :
       /\ Visit(c, "HEADER") /\ sd[c] \in rd
       /\ unread[c] = 0 /\ peer[c] \in {"up", "rst"}
       /\ peer' = [peer EXCEPT ![c] = AfterWrite(@)]
  /\ NextRound
  /\ UNCHANGED <<queue, sd, state, timeout, resp, rxlen, tout, fdtab,
                 locked, oneTime, idle, backlog, unread, stalled>>

ReadEof ==
  /\ \E c \in Conn :
       /\ Visit(c, "HEADER") /\ sd[c] \in rd
       /\ unread[c] = 0 /\ peer[c] \in {"fin", "gone"}
       /\ ConnClose(c) /\ AdvanceClosed(c)
  /\ UNCHANGED <<timeout, rxlen, tout, rd, wr, locked, oneTime, backlog>>

\* One read() takes some or all of what the client has sent.
ReadRequest ==
  /\ \E c \in Conn :
       /\ Visit(c, "HEADER") /\ sd[c] \in rd
       /\ \E k \in 1..unread[c] : unread' = [unread EXCEPT ![c] = @ - k]
  /\ pc' = "tty"
  /\ UNCHANGED <<queue, sd, state, timeout, resp, rxlen, tout, rd, wr, cur, left, fdtab,
                 locked, oneTime, idle, peer, backlog, stalled>>

EndRound ==
  /\ pc = "walk" /\ left = 0
  /\ NextRound
  /\ UNCHANGED <<queue, sd, state, timeout, resp, rxlen, tout, fdtab, locked, oneTime, idle, envVars>>
-----------------------------------------------------------------------------
(* conn_write() of tty.rxlen bytes of the connection's buffer, conn.c:575-587 *)

Deliver(c) ==
  /\ peer[c] \in {"up", "fin"} /\ c \notin stalled
  /\ ConnSet(c, "HEADER")
  /\ peer' = [peer EXCEPT ![c] = AfterWrite(@)]
  /\ stalled' \in MayStall(c)
  /\ Advance(c)
  /\ UNCHANGED <<queue, sd, resp, fdtab, unread>>

\* The buffer of the socket is full, or the reset is reported: the connection is closed.
DeliverFails(c) ==
  /\ peer[c] = "rst" \/ (peer[c] \in {"up", "fin"} /\ c \in stalled)
  /\ ConnClose(c) /\ AdvanceClosed(c)
  /\ UNCHANGED timeout

\* SIGPIPE ends the process.
Killed(c) ==
  /\ peer[c] = "gone"
  /\ pc' = "exit"
  /\ UNCHANGED <<queue, sd, state, timeout, resp, idle, fdtab, peer, unread, stalled, cur, left>>

SocketSend(c) == Deliver(c) \/ DeliverFails(c) \/ Killed(c)

SendResponse ==
  /\ \E c \in Conn : Visit(c, "RESP") /\ sd[c] \in wr /\ SocketSend(c)
  /\ UNCHANGED <<rxlen, tout, rd, wr, locked, oneTime, backlog>>
-----------------------------------------------------------------------------
(* The exchange on the tty, conn.c:501-571, for the connection cur *)

\* Mutant: tty.rxlen is not set for the new text.
MutAnswer(c, len) ==
  /\ resp' = [resp EXCEPT ![c] = len]
  /\ UNCHANGED rxlen
  /\ ConnSet(c, "RESP")

Answer(c, len) ==
  /\ resp' = [resp EXCEPT ![c] = len]
  /\ rxlen' = len
  /\ ConnSet(c, "RESP")

\* "goto socketsend": the visit goes on in case CONN_RESP, the socket taken as writable.
SendAtOnce(c) ==
  /\ wr' = wr \cup {TtyFd, sd[c]}
  /\ pc' = "walk" /\ UNCHANGED <<cur, left>>

\* Hex text of odd length: "data format error", without going to the tty.
FormatError ==
  /\ pc = "tty" /\ TtyStr
  /\ Answer(cur, 17)
  /\ SendAtOnce(cur)
  /\ UNCHANGED <<queue, sd, tout, rd, fdtab, locked, oneTime, envVars>>

\* Hex text of 254 or 256 digits: the 8 bit counter of gl_str2acsll() never gets past
\* it (modbus_api.c:226-241), and the loop takes no step from "decode".
DecodeForever ==
  /\ pc = "tty" /\ TtyStr /\ "long" \in ClientFaults
  /\ pc' = "decode"
  /\ UNCHANGED <<queue, sd, state, timeout, resp, rxlen, tout, rd, wr, cur, left, fdtab,
                 locked, oneTime, idle, envVars>>

\* "tty write error": tty.fd is closed, or the flock was not had in 30 tries and
\* tty_write() itself closes the tty.  tty.fd keeps its number.
TtyWriteError ==
  /\ pc = "tty"
  /\ fdtab[TtyFd] = "Free" \/ (fdtab[TtyFd] = "Tty" /\ ~locked)
  /\ fdtab' = [fdtab EXCEPT ![TtyFd] = "Free"]
  /\ Answer(cur, 15)
  /\ SendAtOnce(cur)
  /\ UNCHANGED <<queue, sd, tout, rd, locked, oneTime, envVars>>

\* The request is written and the answer read; a silent slave gives "no data".
\* The flock, once had, is kept.
TtyExchange ==
  /\ pc = "tty" /\ fdtab[TtyFd] = "Tty"
  /\ locked' = TRUE
  /\ \E n \in AnswerLens : Answer(cur, IF TtyStr THEN 2 * n ELSE n)
     \/ Answer(cur, 7)
  /\ rd' = rd \cup {TtyFd} /\ wr' = wr \cup {TtyFd}
  /\ Advance(cur)
  /\ UNCHANGED <<queue, sd, tout, fdtab, oneTime, envVars>>

\* The number tty.fd holds is a client's socket by now: the request goes to that
\* client, and reading terminal attributes from it fails, which counts as "no data".
Misdirect ==
  /\ pc = "tty" /\ fdtab[TtyFd] \in Conn
  /\ LET d == fdtab[TtyFd] IN
       IF peer[d] = "gone"
       THEN /\ pc' = "exit"
            /\ UNCHANGED <<state, timeout, resp, rxlen, rd, wr, cur, left, idle, peer, stalled>>
       ELSE /\ peer' = [peer EXCEPT ![d] = AfterWrite(@)]
            /\ stalled' \in MayStall(d)
            /\ Answer(cur, 7)
            /\ rd' = rd \cup {TtyFd} /\ wr' = wr \cup {TtyFd}
            /\ Advance(cur)
  /\ UNCHANGED <<queue, sd, tout, fdtab, locked, oneTime, backlog, unread>>
-----------------------------------------------------------------------------
(* The clients *)

Connect(c) ==
  /\ peer[c] = "out" /\ Listening
  /\ peer' = [peer EXCEPT ![c] = "up"] /\ backlog' = backlog \cup {c}
  /\ UNCHANGED <<unread, stalled>>

SendData(c) ==
  /\ peer[c] = "up" /\ unread[c] < MaxUnread
  /\ unread' = [unread EXCEPT ![c] = @ + 1]
  /\ UNCHANGED <<peer, backlog, stalled>>

PeerClose(c) ==
  /\ peer[c] = "up" /\ "close" \in ClientFaults
  /\ peer' = [peer EXCEPT ![c] = "fin"]
  /\ UNCHANGED <<backlog, unread, stalled>>

PeerReset(c) ==
  /\ peer[c] = "up" /\ "reset" \in ClientFaults
  /\ peer' = [peer EXCEPT ![c] = "rst"]
  /\ stalled' = stalled \ {c}
  /\ UNCHANGED <<backlog, unread>>

\* The client reads its socket again.
Drain(c) ==
  /\ c \in stalled
  /\ stalled' = stalled \ {c}
  /\ UNCHANGED <<peer, backlog, unread>>

ClientStep ==
  /\ pc # "exit"
  /\ \E c \in Conn : Connect(c) \/ SendData(c) \/ PeerClose(c) \/ PeerReset(c) \/ Drain(c)
  /\ UNCHANGED daemonVars
-----------------------------------------------------------------------------
DaemonStep ==
  \/ Select \/ SelectFails \/ KeepAll \/ Purge
  \/ NothingToAccept \/ AcceptConn \/ DropConn \/ AcceptFails \/ OpenServerConn
  \/ Skip \/ ReadFails \/ ReadEof \/ ReadRequest \/ SendResponse \/ EndRound
  \/ FormatError \/ DecodeForever \/ TtyWriteError \/ TtyExchange \/ Misdirect

Next == DaemonStep \/ ClientStep

Spec == Init /\ [][Next]_vars

\* The daemon's thread is always scheduled; nothing is assumed of the clients.
FairSpec == Spec /\ WF_vars(DaemonStep)
-----------------------------------------------------------------------------
(* The type invariant. *)
TypeOK ==
  /\ pc \in {"select", "expire", "accept", "walk", "tty", "decode", "exit"}
  /\ queue \in Seq(Conn)
  /\ sd \in [Conn -> Fd] /\ state \in [Conn -> {"HEADER", "RESP"}]
  /\ timeout \in [Conn -> Int] /\ resp \in [Conn -> Nat]
  /\ rxlen \in Nat /\ tout \in Nat
  /\ rd \subseteq Fd /\ wr \subseteq Fd
  /\ cur \in Conn \cup {NoConn} /\ left \in Nat
  /\ fdtab \in [Fd -> Conn \cup {"Free", "Tty", "Server"}]
  /\ locked \in BOOLEAN /\ oneTime \in BOOLEAN /\ idle \in [Conn -> Nat]
  /\ peer \in [Conn -> {"out", "up", "fin", "rst", "gone"}]
  /\ backlog \subseteq Conn /\ unread \in [Conn -> 0..MaxUnread] /\ stalled \subseteq Conn

\* The walk dereferences live elements only: as long as a visit is left, curconn is in
\* the queue, although conn_close() of the only element returns the element it has
\* freed and the loop reads its next pointer (conn.c:144-156, 498, 582, 589).
WalkSafe ==
  pc \in {"walk", "tty"} =>
    /\ left <= Len(queue)
    /\ (left > 0 \/ pc = "tty") => cur \in InQueue

\* The descriptor of a queued connection is open and its own, and an open client
\* descriptor belongs to exactly that queued connection: none leaks, none is shared,
\* whichever of close, drop, purge and accept ran in between (conn.c:94-136, 149).
DescriptorsConserved ==
  /\ \A c \in InQueue : fdtab[sd[c]] = IF Listening THEN c ELSE "Server"
  /\ \A f \in Fd : fdtab[f] \in Conn => fdtab[f] \in InQueue /\ sd[fdtab[f]] = f

\* Every descriptor that goes into an fd_set is below FD_SETSIZE, and the queue
\* holds at most maxconn connections (conn.c:118-130, 394-410).
SelectSafe == Len(queue) <= MaxConn /\ \A c \in InQueue : sd[c] < FdSetSize

\* The seconds taken from a connection's timeout and the ticks still in tout account
\* for the measured time since its last state change, off by less than the second
\* that tout may already have held then (conn.c:440-467, state.c:6-11).
TimeoutAccounting ==
  pc # "exit" /\ ConnTimeout > 0 =>
    \A c \in InQueue :
      (ConnTimeout - timeout[c]) * TicksPerSec + tout - idle[c] \in 0..(TicksPerSec - 1)

\* A connection silent for conntimeout measured seconds does not outlive the
\* expiry check (conn.c:443-468).
NoStaleConn ==
  pc \in {"accept", "walk", "tty"} /\ ConnTimeout > 0 =>
    \A c \in InQueue : idle[c] < ConnTimeout * TicksPerSec

\* A queued connection with data to read is read or closed, no other connection, closed
\* in mid walk or failing to be read, starves it; or the daemon ends, or the text of
\* another one catches it in the decoder (conn.c:478-591).
WaitingServed ==
  \A c \in Conn :
    (c \in InQueue /\ state[c] = "HEADER" /\ unread[c] > 0)
      ~> ((pc = "tty" /\ cur = c) \/ c \notin InQueue \/ pc \in {"exit", "decode"})

\* "tcpc", "udp": when the only connection is closed the daemon ends, it does not
\* idle with a dead server_sd (conn.c:104-111, 149, 428-436).
LostServerEnds == fdtab[ServerFd] = "Free" ~> pc = "exit"

\* What a connection is sent is as long as the answer in its buffer (conn.c:578).
AnswersOwnLength ==
  [][\A c \in Conn :
       (pc = "walk" /\ cur = c /\ state[c] = "RESP" /\ state'[c] = "HEADER") => rxlen = resp[c]]_vars

\* The queue is used as ConnSeq and ConnQueue take it to be used: a connection is appended
\* between walks only, and only one that is not in the queue yet; only an element that is
\* in the queue is removed, the walk's own one or the one found expired, and then the
\* loop ends (conn.c:105, 133, 144-156, 462).
QueueUse ==
  [][\/ queue' = queue
     \/ pc = "accept" /\ \E c \in Conn \ InQueue : queue' = NewElem(queue, c)
     \/ pc = "walk" /\ cur \in InQueue /\ queue' = DeleteElem(queue, cur)
     \/ pc = "expire" /\ pc' = "exit" /\ \E c \in InQueue : queue' = DeleteElem(queue, c)]_vars

\* Only the silent connection is disconnected: the others go on being served (conn.c:460).
PurgeKeepsServing == [][pc = "expire" => pc' # "exit"]_vars
=============================================================================
