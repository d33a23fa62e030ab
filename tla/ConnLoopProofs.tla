--------------------------- MODULE ConnLoopProofs ---------------------------
(***************************************************************************)
(* Proofs about the connection loop, for every set of clients and every    *)
(* value of the limits.  WalkInv says that the queue holds no connection   *)
(* twice and that the visits left in a walk fit the queue; it is what      *)
(* keeps the dangling pointer of conn_close() from being followed.         *)
(***************************************************************************)
EXTENDS ConnLoop, DataLemmas

\* The strengthening of WalkSafe: a walk has at most one visit per element left, and
\* an exchange on the tty belongs to a visit.
WalkInv ==
  /\ IsInjective(queue)
  /\ pc \in {"walk", "tty"} => left <= Len(queue) /\ (left > 0 => cur \in InQueue)
  /\ pc = "tty" => left > 0

\* A client is in the backlog or in the queue, not in both, and has a socket in either
\* case.  Without listening there is no backlog, and one_time tells whether the only
\* peer is still to be queued.
BacklogInv ==
  /\ InQueue \cap backlog = {}
  /\ \A c \in backlog : peer[c] # "out"
  /\ \A c \in InQueue : peer[c] # "out"
  /\ ~Listening => backlog = {}
  /\ ~Listening /\ oneTime => queue = <<>> /\ \A c \in Conn : peer[c] # "out"

\* TimeoutAccounting, with what carries it over a step: less than a second is left in
\* tout outside the expiry check, and a connection that survived it has time left.
TimeInv ==
  /\ pc \notin {"expire", "exit"} => tout < TicksPerSec
  /\ pc # "exit" /\ ConnTimeout > 0 =>
       \A c \in InQueue :
         /\ timeout[c] > 0
         /\ (ConnTimeout - timeout[c]) * TicksPerSec + tout - idle[c] \in 0..(TicksPerSec - 1)

IndInv == TypeOK /\ WalkInv /\ BacklogInv /\ TimeInv
-----------------------------------------------------------------------------
\* What div and mod leave of a number.
LEMMA DivMod ==
  ASSUME NEW a \in Nat, NEW b \in Nat \ {0}
  PROVE  /\ a \div b \in Nat /\ a % b \in 0..(b - 1)
         /\ a = (a \div b) * b + (a % b)
         /\ a < b => a \div b = 0
  OBVIOUS

\* Taking s seconds from a timeout adds s seconds' ticks to what has been counted.
LEMMA TakeSeconds ==
  ASSUME NEW t \in Int, NEW s \in Int, NEW n \in Int, NEW b \in Int
  PROVE  (n - (t - s)) * b = (n - t) * b + s * b
  OBVIOUS

\* Seconds to ticks: the least wait is not negative.
LEMMA WaitNat ==
  ASSUME NEW t \in Nat, NEW ready, NEW tval \in Waits(t, ready)
  PROVE  tval \in Nat
<1>1. t * TicksPerSec \in Nat  BY LimitAssumption
<1>2. QED  BY <1>1 DEF Waits

\* The queue as the lemmas of DataLemmas take it.
LEMMA QueueIsQueue ==
  ASSUME TypeOK, WalkInv
  PROVE  queue \in Queues(Conn) /\ InQueue \subseteq Conn /\ Len(queue) \in Nat
<1>1. queue \in Queues(Conn)  BY DEF TypeOK, WalkInv, Queues
<1>2. QED  BY <1>1, HeadQueue DEF Queues, InQueue

\* What a new connection does to the queue.
LEMMA EnqueueQueue ==
  ASSUME TypeOK, WalkInv, NEW c \in Conn, c \notin InQueue, NEW f, Enqueue(c, f)
  PROVE  /\ queue' \in Queues(Conn)
         /\ Len(queue') = Len(queue) + 1
         /\ InQueue' = InQueue \cup {c}
<1>1. queue' = NewElem(queue, c)  BY DEF Enqueue
<1>2. queue \in Queues(Conn)  BY QueueIsQueue
<1>3. c \notin Range(queue)  BY DEF InQueue
<1>4. /\ NewElem(queue, c) \in Queues(Conn)
      /\ Len(NewElem(queue, c)) = Len(queue) + 1
      /\ Range(NewElem(queue, c)) = Range(queue) \cup {c}
  <2> DEFINE q == queue
  <2>1. q \in Queues(Conn) /\ c \notin Range(q)  BY <1>2, <1>3
  <2> HIDE DEF q
  <2>2. /\ NewElem(q, c) \in Queues(Conn)
        /\ Len(NewElem(q, c)) = Len(q) + 1
        /\ Range(NewElem(q, c)) = Range(q) \cup {c}
    BY <2>1, NewElemQueue
  <2>3. QED  BY <2>2 DEF q
<1>5. QED  BY <1>1, <1>4 DEF InQueue

\* What closing a connection does to the queue.
LEMMA CloseQueue ==
  ASSUME TypeOK, WalkInv, NEW c \in InQueue, ConnClose(c)
  PROVE  /\ queue' \in Seq(Conn) /\ IsInjective(queue')
         /\ Len(queue') = Len(queue) - 1
         /\ InQueue' = InQueue \ {c}
<1>1. queue' = DeleteElem(queue, c)  BY DEF ConnClose
<1>2. queue \in Queues(Conn)  BY QueueIsQueue
<1>3. QED  BY <1>1, <1>2, DeleteElemQueue DEF Queues, InQueue

\* Moving on from a connection that was closed: if visits are left, curconn is live.
LEMMA CloseWalk ==
  ASSUME TypeOK, WalkInv, NEW c \in InQueue, left > 0, pc = "walk",
         ConnClose(c), AdvanceClosed(c)
  PROVE  WalkInv' /\ cur' \in Conn \cup {NoConn} /\ left' \in Nat
<1>1. /\ queue' \in Queues(Conn) /\ Len(queue') = Len(queue) - 1
      /\ InQueue' = InQueue \ {c} /\ IsInjective(queue')
  BY CloseQueue DEF Queues
<1>2. queue \in Queues(Conn) /\ Len(queue) \in Nat /\ InQueue \subseteq Conn  BY QueueIsQueue
<1>3. left' = left - 1 /\ pc' = "walk" /\ left \in Nat /\ left <= Len(queue)
  BY DEF AdvanceClosed, TypeOK, WalkInv
<1> DEFINE next == NextElem(queue, c)
<1>4. next \in InQueue /\ (next = c => Len(queue) = 1)  BY <1>2, NextElemQueue DEF InQueue
<1> HIDE DEF next
<1>5. CASE next = c
  <2>0. Len(queue) = 1  BY <1>4, <1>5
  <2>1. left' = 0
    <3>1. left \in Nat /\ left > 0 /\ left <= 1  BY <1>3, <2>0
    <3>2. QED  BY <3>1, <1>3
  <2>2. cur' \in Conn \cup {NoConn}  BY <1>5 DEF AdvanceClosed, next
  <2>3. QED  BY <2>1, <2>2, <1>1, <1>2, <1>3 DEF WalkInv
<1>6. CASE next # c
  <2>1. cur' = NextElem(queue', next)  BY <1>6 DEF AdvanceClosed, next
  <2>2. next \in Range(queue')  BY <1>1, <1>4, <1>6 DEF InQueue
  <2>3. cur' \in InQueue'  BY <2>1, <2>2, <1>1, NextElemQueue DEF InQueue
  <2>4. QED  BY <2>3, <1>1, <1>2, <1>3 DEF WalkInv
<1>7. QED  BY <1>5, <1>6

\* Moving on from a connection that stays.
LEMMA AdvanceWalk ==
  ASSUME TypeOK, WalkInv, NEW c \in InQueue, left > 0, pc \in {"walk", "tty"},
         Advance(c), UNCHANGED queue
  PROVE  WalkInv' /\ cur' \in Conn \cup {NoConn} /\ left' \in Nat
<1>1. queue \in Queues(Conn) /\ Len(queue) \in Nat /\ InQueue \subseteq Conn  BY QueueIsQueue
<1>2. cur' \in InQueue  BY <1>1, NextElemQueue DEF Advance, InQueue
<1>3. QED  BY <1>1, <1>2 DEF Advance, WalkInv, TypeOK, InQueue

\* The walk starts at a live element.
LEMMA BeginWalkInv ==
  ASSUME TypeOK, pc = "accept", NEW q \in Queues(Conn), queue' = q, BeginWalk(q)
  PROVE  WalkInv' /\ pc' \in {"select", "walk"} /\ cur' \in Conn \cup {NoConn} /\ left' \in Nat
<1>1. Range(q) \subseteq Conn /\ (q # <<>> => Len(q) > 0 /\ Head(q) \in Range(q))  BY HeadQueue
<1>2. Len(q) \in Nat /\ (q = <<>> => Len(q) = 0)  BY DEF Queues
<1>3. QED  BY <1>1, <1>2 DEF BeginWalk, WalkInv, TypeOK, InQueue, Queues
-----------------------------------------------------------------------------
\* Initially.
LEMMA InitInd == Init => IndInv
<1> SUFFICES ASSUME Init PROVE IndInv  OBVIOUS
<1>1. Len(queue) = 0 /\ InQueue = {} /\ queue \in Seq(Conn) /\ IsInjective(queue)
  BY DEF Init, InQueue, Range, IsInjective
<1>2. TypeOK
  <2>1. fdtab \in [Fd -> Conn \cup {"Free", "Tty", "Server"}]  BY LimitAssumption DEF Init, TtyFd, ServerFd, Fd
  <2>2. ServerFd \in Fd /\ tout \in Nat /\ timeout \in [Conn -> Int]
    BY LimitAssumption DEF Init, ServerFd, Fd
  <2>3. sd \in [Conn -> Fd] /\ unread \in [Conn -> 0..MaxUnread]
    BY <2>2, LimitAssumption DEF Init
  <2>4. state \in [Conn -> {"HEADER", "RESP"}] /\ peer \in [Conn -> {"out", "up", "fin", "rst", "gone"}]
    BY DEF Init
  <2>5. QED  BY <1>1, <2>1, <2>2, <2>3, <2>4 DEF Init, TypeOK
<1>3. WalkInv /\ BacklogInv  BY <1>1 DEF Init, WalkInv, BacklogInv
<1>4. TimeInv  BY <1>1, LimitAssumption DEF Init, TimeInv
<1>5. QED  BY <1>2, <1>3, <1>4 DEF IndInv
-----------------------------------------------------------------------------
(* TimeInv over the steps outside the expiry check: none counts time, so   *)
(* only connections entering, leaving or being reset matter.               *)

LEMMA KeepTime ==
  ASSUME TypeOK, TimeInv, pc \notin {"expire", "exit"}, UNCHANGED <<queue, timeout, tout, idle>>
  PROVE  TimeInv'
BY DEF TimeInv, InQueue

\* A state change of c starts its count at what tout holds.
LEMMA ResetTime ==
  ASSUME TypeOK, TimeInv, pc \notin {"expire", "exit"}, tout' = tout,
         NEW c \in Conn, NEW s, ConnSet(c, s), InQueue' \subseteq InQueue \cup {c}, InQueue \subseteq Conn
  PROVE  TimeInv'
<1>1. /\ timeout' = [timeout EXCEPT ![c] = ConnTimeout] /\ idle' = [idle EXCEPT ![c] = 0]
      /\ timeout \in [Conn -> Int] /\ idle \in [Conn -> Nat] /\ tout \in Nat
      /\ tout < TicksPerSec /\ ConnTimeout \in Nat /\ TicksPerSec \in Nat
  BY LimitAssumption DEF ConnSet, TypeOK, TimeInv
<1>2. ASSUME ConnTimeout > 0, NEW d \in InQueue'
      PROVE  /\ timeout'[d] > 0
             /\ (ConnTimeout - timeout'[d]) * TicksPerSec + tout - idle'[d] \in 0..(TicksPerSec - 1)
  <2>1. CASE d = c
    <3>1. timeout'[d] = ConnTimeout /\ idle'[d] = 0  BY <1>1, <2>1
    <3>2. (ConnTimeout - timeout'[d]) * TicksPerSec = 0  BY <3>1, <1>1
    <3>3. QED  BY <3>1, <3>2, <1>1, <1>2
  <2>2. CASE d # c
    <3>1. d \in InQueue /\ timeout'[d] = timeout[d] /\ idle'[d] = idle[d]  BY <1>1, <2>2
    <3>2. QED  BY <3>1, <1>2 DEF TimeInv
  <2>3. QED  BY <2>1, <2>2
<1>3. QED  BY <1>1, <1>2 DEF TimeInv

\* A connection that leaves takes its count with it.
LEMMA CloseTime ==
  ASSUME TypeOK, WalkInv, TimeInv, pc \notin {"expire", "exit"}, NEW c \in InQueue,
         ConnClose(c), UNCHANGED <<timeout, tout>>
  PROVE  TimeInv'
<1>1. InQueue' = InQueue \ {c}  BY CloseQueue
<1>2. InQueue \subseteq Conn /\ idle \in [Conn -> Nat]  BY QueueIsQueue DEF TypeOK
<1>3. \A d \in InQueue' : idle'[d] = idle[d] /\ d \in InQueue  BY <1>1, <1>2 DEF ConnClose
<1>4. QED  BY <1>3 DEF TimeInv

\* Closing a connection keeps the types of what it changes, and BacklogInv.
LEMMA CloseTypes ==
  ASSUME TypeOK, WalkInv, NEW c \in InQueue, ConnClose(c)
  PROVE  /\ queue' \in Seq(Conn) /\ sd' \in [Conn -> Fd] /\ state' \in [Conn -> {"HEADER", "RESP"}]
         /\ resp' \in [Conn -> Nat] /\ idle' \in [Conn -> Nat]
         /\ fdtab' \in [Fd -> Conn \cup {"Free", "Tty", "Server"}]
         /\ peer' \in [Conn -> {"out", "up", "fin", "rst", "gone"}]
         /\ unread' \in [Conn -> 0..MaxUnread] /\ stalled' \subseteq Conn
<1>1. queue' \in Seq(Conn)  BY CloseQueue
<1>2. ServerFd \in Fd /\ 0 \in 0..MaxUnread  BY LimitAssumption DEF ServerFd, Fd
<1>3. QED  BY <1>1, <1>2 DEF ConnClose, TypeOK

LEMMA CloseBacklog ==
  ASSUME TypeOK, WalkInv, BacklogInv, NEW c \in InQueue, ConnClose(c), UNCHANGED <<backlog, oneTime>>
  PROVE  BacklogInv'
<1>1. InQueue' = InQueue \ {c} /\ Len(queue') = Len(queue) - 1 /\ queue' \in Seq(Conn)  BY CloseQueue
<1>2. InQueue \subseteq Conn /\ backlog \subseteq Conn /\ c \in Conn  BY QueueIsQueue DEF TypeOK
<1>3. \A d \in Conn \ {c} : peer'[d] = peer[d]  BY DEF ConnClose, TypeOK
<1>4. c \notin backlog  BY DEF BacklogInv
<1>5. ~Listening => backlog' = {} /\ ~oneTime'
  <2>1. queue # <<>>  BY DEF InQueue, Range
  <2>2. QED  BY <2>1 DEF BacklogInv
<1>6. QED  BY <1>1, <1>2, <1>3, <1>4, <1>5 DEF BacklogInv
-----------------------------------------------------------------------------
(* One lemma per action, in the order of the loop. *)

LEMMA SelectStep == IndInv /\ Select => IndInv'
<1> SUFFICES ASSUME IndInv, Select PROVE IndInv'  OBVIOUS
<1> USE DEF IndInv
<1>1. InQueue' = InQueue /\ InQueue \subseteq Conn  BY QueueIsQueue DEF Select, InQueue
<1>2. rd' \subseteq Fd /\ wr' \subseteq Fd
  BY <1>1, LimitAssumption DEF Select, TypeOK, ServerFd, Fd
<1>3. PICK t_out \in Timeouts : \E tval \in Waits(t_out, rd' \cup wr') :
        /\ tout' = tout + tval
        /\ idle' = [c \in Conn |-> IF c \in InQueue THEN idle[c] + tval ELSE idle[c]]
  BY DEF Select
<1>4. PICK tval \in Waits(t_out, rd' \cup wr') :
        /\ tout' = tout + tval
        /\ idle' = [c \in Conn |-> IF c \in InQueue THEN idle[c] + tval ELSE idle[c]]
  BY <1>3
<1>5. tval \in Nat
  <2>1. CASE ConnTimeout = 0  BY <2>1, <1>4 DEF Waits
  <2>2. CASE ConnTimeout > 0
    <3>1. t_out \in Nat
      BY <1>1, <2>2, LimitAssumption DEF Timeouts, TimeInv, TypeOK, Select
    <3>2. QED  BY <3>1, WaitNat
  <2>3. QED  BY <2>1, <2>2, LimitAssumption
<1>6. tout' \in Nat /\ idle' \in [Conn -> Nat]  BY <1>4, <1>5 DEF TypeOK
<1>7. TypeOK'  BY <1>2, <1>6 DEF TypeOK, Select, envVars
<1>8. WalkInv' /\ BacklogInv'  BY <1>1 DEF Select, WalkInv, BacklogInv, InQueue, envVars
<1>9. TimeInv'
  <2>1. pc' = "expire" /\ timeout' = timeout  BY DEF Select
  <2>2. ASSUME ConnTimeout > 0, NEW c \in InQueue
        PROVE  /\ timeout'[c] > 0
               /\ (ConnTimeout - timeout'[c]) * TicksPerSec + tout' - idle'[c] \in 0..(TicksPerSec - 1)
    <3> DEFINE m == (ConnTimeout - timeout[c]) * TicksPerSec
    <3>1. m \in Int /\ idle[c] \in Nat /\ tout \in Nat
      BY <1>1, LimitAssumption DEF TypeOK
    <3>2. timeout[c] > 0 /\ m + tout - idle[c] \in 0..(TicksPerSec - 1)  BY <2>2 DEF TimeInv, Select
    <3>3. tout' = tout + tval /\ idle'[c] = idle[c] + tval  BY <1>1, <1>4
    <3> HIDE DEF m
    <3>4. m + tout' - idle'[c] = m + tout - idle[c]  BY <3>1, <3>3, <1>5
    <3>5. QED  BY <2>1, <3>2, <3>4 DEF m
  <2>3. QED  BY <2>1, <2>2, <1>1 DEF TimeInv
<1>10. QED  BY <1>7, <1>8, <1>9

LEMMA SelectFailsStep == IndInv /\ SelectFails => IndInv'
<1> SUFFICES ASSUME IndInv, SelectFails PROVE IndInv'  OBVIOUS
<1> USE DEF IndInv, SelectFails
<1>1. TypeOK'  BY DEF TypeOK, envVars
<1>2. WalkInv' /\ BacklogInv' /\ TimeInv'  BY DEF WalkInv, BacklogInv, TimeInv, InQueue, envVars
<1>3. QED  BY <1>1, <1>2

LEMMA KeepAllStep == IndInv /\ KeepAll => IndInv'
<1> SUFFICES ASSUME IndInv, KeepAll PROVE IndInv'  OBVIOUS
<1> USE DEF IndInv
<1>1. InQueue' = InQueue /\ InQueue \subseteq Conn  BY QueueIsQueue DEF KeepAll, InQueue
<1>2. /\ tout \in Nat /\ TicksPerSec \in Nat \ {0} /\ ConnTimeout \in Nat
      /\ timeout \in [Conn -> Int] /\ idle \in [Conn -> Nat]
  BY LimitAssumption DEF TypeOK
<1>3. /\ ToutSec \in Nat /\ tout % TicksPerSec \in 0..(TicksPerSec - 1)
      /\ tout = ToutSec * TicksPerSec + (tout % TicksPerSec)
  BY <1>2, DivMod DEF ToutSec
<1>4. /\ tout' = tout % TicksPerSec /\ pc' = "accept" /\ pc = "expire" /\ idle' = idle
      /\ timeout' = [c \in Conn |-> IF c \in InQueue THEN timeout[c] - ToutSec ELSE timeout[c]]
  BY DEF KeepAll
<1>5. TypeOK'
  <2>1. timeout' \in [Conn -> Int] /\ tout' \in Nat  BY <1>2, <1>3, <1>4
  <2>2. QED  BY <2>1 DEF TypeOK, KeepAll, envVars
<1>6. WalkInv' /\ BacklogInv'  BY <1>1 DEF KeepAll, WalkInv, BacklogInv, InQueue, envVars
<1>7. TimeInv'
  <2>1. ASSUME ConnTimeout > 0, NEW c \in InQueue
        PROVE  /\ timeout'[c] > 0
               /\ (ConnTimeout - timeout'[c]) * TicksPerSec + tout' - idle'[c] \in 0..(TicksPerSec - 1)
    <3>1. /\ timeout[c] > 0 /\ timeout[c] \in Int /\ idle[c] \in Nat
          /\ (ConnTimeout - timeout[c]) * TicksPerSec + tout - idle[c] \in 0..(TicksPerSec - 1)
      BY <2>1, <1>1, <1>2, <1>4 DEF TimeInv
    <3>2. timeout'[c] = timeout[c] - ToutSec  BY <1>1, <1>4
    <3>3. timeout'[c] > 0
      <4>1. PICK i \in DOMAIN queue : queue[i] = c  BY DEF InQueue, Range
      <4>2. ~(ToutSec > 0 /\ timeout[c] - ToutSec <= 0)  BY <4>1 DEF KeepAll, Expires
      <4>3. QED  BY <4>2, <3>1, <3>2, <1>3
    <3>4. (ConnTimeout - timeout'[c]) * TicksPerSec
            = (ConnTimeout - timeout[c]) * TicksPerSec + ToutSec * TicksPerSec
      BY <3>1, <3>2, <1>2, <1>3, TakeSeconds
    <3> DEFINE m == (ConnTimeout - timeout[c]) * TicksPerSec
               s == ToutSec * TicksPerSec
    <3>5. m \in Int /\ s \in Int  BY <1>2, <1>3, <3>1
    <3> HIDE DEF m, s
    <3>6. m + s + (tout % TicksPerSec) - idle[c] = m + tout - idle[c]  BY <3>1, <3>5, <1>2, <1>3 DEF s
    <3>7. QED  BY <3>1, <3>3, <3>4, <3>6, <1>4 DEF m, s
  <2>2. tout' < TicksPerSec  BY <1>2, <1>3, <1>4
  <2>3. QED  BY <2>1, <2>2, <1>1 DEF TimeInv
<1>8. QED  BY <1>5, <1>6, <1>7

LEMMA PurgeStep == IndInv /\ Purge => IndInv'
<1> SUFFICES ASSUME IndInv, Purge PROVE IndInv'  OBVIOUS
<1> USE DEF IndInv
<1>1. PICK i \in DOMAIN queue :
        /\ timeout' = [c \in Conn |-> IF \E j \in 1..i : queue[j] = c
                                        THEN timeout[c] - ToutSec ELSE timeout[c]]
        /\ ConnClose(queue[i])
  BY DEF Purge
<1>2. queue[i] \in InQueue  BY DEF InQueue, Range
<1>3. /\ pc' = "exit"
      /\ UNCHANGED <<rxlen, tout, rd, wr, cur, left, locked, oneTime, backlog>>
  BY DEF Purge
<1>4. timeout' \in [Conn -> Int]
  <2>1. ToutSec \in Int  BY LimitAssumption DEF ToutSec, TypeOK
  <2>2. timeout \in [Conn -> Int]  BY DEF TypeOK
  <2>3. \A c \in Conn : timeout[c] - ToutSec \in Int /\ timeout[c] \in Int  BY <2>1, <2>2
  <2>4. QED  BY <1>1, <2>3
<1>5. TypeOK'  BY <1>1, <1>2, <1>3, <1>4, CloseTypes DEF TypeOK
<1>6. BacklogInv'  BY <1>1, <1>2, <1>3, CloseBacklog
<1>7. WalkInv' /\ TimeInv'  BY <1>1, <1>2, <1>3, CloseQueue DEF WalkInv, TimeInv
<1>8. QED  BY <1>5, <1>6, <1>7

\* The accept actions that leave the queue alone.
LEMMA KeepQueueWalk ==
  ASSUME TypeOK, WalkInv, pc = "accept", UNCHANGED queue, BeginWalk(queue)
  PROVE  WalkInv' /\ pc' \in {"select", "walk"} /\ cur' \in Conn \cup {NoConn} /\ left' \in Nat
<1>1. queue \in Queues(Conn)  BY QueueIsQueue
<1>2. QED  BY <1>1, BeginWalkInv

LEMMA NothingToAcceptStep == IndInv /\ NothingToAccept => IndInv'
<1> SUFFICES ASSUME IndInv, NothingToAccept PROVE IndInv'  OBVIOUS
<1> USE DEF IndInv, NothingToAccept
<1>1. WalkInv' /\ pc' \in {"select", "walk"} /\ cur' \in Conn \cup {NoConn} /\ left' \in Nat
  BY KeepQueueWalk
<1>2. TypeOK'  BY <1>1 DEF TypeOK, envVars
<1>3. BacklogInv' /\ TimeInv'  BY KeepTime DEF BacklogInv, InQueue, envVars
<1>4. QED  BY <1>1, <1>2, <1>3

LEMMA AcceptFailsStep == IndInv /\ AcceptFails => IndInv'
<1> SUFFICES ASSUME IndInv, AcceptFails PROVE IndInv'  OBVIOUS
<1> USE DEF IndInv, AcceptFails
<1>1. WalkInv' /\ pc' \in {"select", "walk"} /\ cur' \in Conn \cup {NoConn} /\ left' \in Nat
  BY KeepQueueWalk
<1>2. TypeOK'  BY <1>1 DEF TypeOK, envVars
<1>3. BacklogInv' /\ TimeInv'  BY KeepTime DEF BacklogInv, InQueue, envVars
<1>4. QED  BY <1>1, <1>2, <1>3

LEMMA DropConnStep == IndInv /\ DropConn => IndInv'
<1> SUFFICES ASSUME IndInv, DropConn PROVE IndInv'  OBVIOUS
<1> USE DEF IndInv
<1>1. PICK c \in backlog :
        /\ peer' = [peer EXCEPT ![c] = "out"] /\ unread' = [unread EXCEPT ![c] = 0]
        /\ stalled' = stalled \ {c} /\ backlog' = backlog \ {c}
  BY DEF DropConn
<1>2. /\ pc = "accept" /\ BeginWalk(queue)
      /\ UNCHANGED <<queue, sd, state, timeout, resp, rxlen, tout, rd, wr, fdtab, locked, oneTime, idle>>
  BY DEF DropConn
<1>3. WalkInv' /\ pc' \in {"select", "walk"} /\ cur' \in Conn \cup {NoConn} /\ left' \in Nat
  BY <1>2, KeepQueueWalk
<1>4. TypeOK'
  <2>1. peer' \in [Conn -> {"out", "up", "fin", "rst", "gone"}] /\ unread' \in [Conn -> 0..MaxUnread]
    BY <1>1, LimitAssumption DEF TypeOK
  <2>2. stalled' \subseteq Conn /\ backlog' \subseteq Conn  BY <1>1 DEF TypeOK
  <2>3. QED  BY <2>1, <2>2, <1>2, <1>3 DEF TypeOK
<1>5. BacklogInv'
  <2>1. c \in Conn /\ InQueue' = InQueue /\ InQueue \subseteq Conn /\ backlog \subseteq Conn
    BY <1>2, QueueIsQueue DEF TypeOK, InQueue
  <2>2. \A d \in Conn \ {c} : peer'[d] = peer[d]  BY <1>1 DEF TypeOK
  <2>3. QED  BY <2>1, <2>2, <1>1, <1>2 DEF BacklogInv
<1>6. TimeInv'  BY <1>2, KeepTime
<1>7. QED  BY <1>3, <1>4, <1>5, <1>6

\* A connection enters the queue: the parts common to both ways of accepting.
LEMMA EnqueueStep ==
  ASSUME IndInv, pc = "accept", NEW c \in Conn, c \notin InQueue, NEW f \in Fd,
         Enqueue(c, f), BeginWalk(queue'), UNCHANGED tout
  PROVE  /\ WalkInv' /\ TimeInv'
         /\ pc' \in {"select", "walk"} /\ cur' \in Conn \cup {NoConn} /\ left' \in Nat
         /\ queue' \in Seq(Conn) /\ InQueue' = InQueue \cup {c}
         /\ sd' \in [Conn -> Fd] /\ state' \in [Conn -> {"HEADER", "RESP"}]
         /\ timeout' \in [Conn -> Int] /\ idle' \in [Conn -> Nat] /\ resp' \in [Conn -> Nat]
<1> USE DEF IndInv
<1>1. queue \in Queues(Conn) /\ InQueue \subseteq Conn  BY QueueIsQueue
<1>3. queue' \in Queues(Conn) /\ InQueue' = InQueue \cup {c}  BY EnqueueQueue
<1>4. ConnSet(c, "HEADER") /\ sd' = [sd EXCEPT ![c] = f] /\ resp' = [resp EXCEPT ![c] = 0]
  BY DEF Enqueue
<1>5. /\ sd' \in [Conn -> Fd] /\ state' \in [Conn -> {"HEADER", "RESP"}] /\ resp' \in [Conn -> Nat]
      /\ timeout' \in [Conn -> Int] /\ idle' \in [Conn -> Nat]
  BY <1>4, LimitAssumption DEF ConnSet, TypeOK
<1>6. TimeInv'  BY <1>1, <1>3, <1>4, ResetTime
<1>7. WalkInv' /\ pc' \in {"select", "walk"} /\ cur' \in Conn \cup {NoConn} /\ left' \in Nat
  BY <1>3, BeginWalkInv
<1>8. QED  BY <1>3, <1>5, <1>6, <1>7 DEF Queues

LEMMA AcceptConnStep == IndInv /\ AcceptConn => IndInv'
<1> SUFFICES ASSUME IndInv, AcceptConn PROVE IndInv'  OBVIOUS
<1> USE DEF IndInv
<1>1. PICK c \in backlog, f \in FreeFds :
        /\ Enqueue(c, f) /\ fdtab' = [fdtab EXCEPT ![f] = c] /\ backlog' = backlog \ {c}
  BY DEF AcceptConn
<1>2. /\ pc = "accept" /\ BeginWalk(queue') /\ Listening
      /\ UNCHANGED <<rxlen, tout, rd, wr, locked, oneTime, peer, unread, stalled>>
  BY DEF AcceptConn
<1>3. c \in Conn /\ c \notin InQueue /\ f \in Fd /\ backlog \subseteq Conn /\ InQueue \subseteq Conn
  BY QueueIsQueue DEF TypeOK, BacklogInv, FreeFds
<1>4. /\ WalkInv' /\ TimeInv'
      /\ pc' \in {"select", "walk"} /\ cur' \in Conn \cup {NoConn} /\ left' \in Nat
      /\ queue' \in Seq(Conn) /\ InQueue' = InQueue \cup {c}
      /\ sd' \in [Conn -> Fd] /\ state' \in [Conn -> {"HEADER", "RESP"}]
      /\ timeout' \in [Conn -> Int] /\ idle' \in [Conn -> Nat] /\ resp' \in [Conn -> Nat]
  BY <1>1, <1>2, <1>3, EnqueueStep
<1>5. fdtab' \in [Fd -> Conn \cup {"Free", "Tty", "Server"}]  BY <1>1, <1>3 DEF TypeOK
<1>6. TypeOK'  BY <1>1, <1>2, <1>3, <1>4, <1>5 DEF TypeOK
<1>7. BacklogInv'  BY <1>1, <1>2, <1>3, <1>4 DEF BacklogInv
<1>8. QED  BY <1>4, <1>6, <1>7

LEMMA OpenServerConnStep == IndInv /\ OpenServerConn => IndInv'
<1> SUFFICES ASSUME IndInv, OpenServerConn PROVE IndInv'  OBVIOUS
<1> USE DEF IndInv
<1>1. /\ pc = "accept" /\ BeginWalk(queue') /\ ~Listening /\ oneTime' = FALSE
      /\ UNCHANGED <<rxlen, tout, rd, wr, fdtab, locked, peer, backlog, unread, stalled>>
  BY DEF OpenServerConn, envVars
<1>2. CASE oneTime
  <2>1. PICK c \in Conn : Enqueue(c, ServerFd)  BY <1>2 DEF OpenServerConn
  <2>2. InQueue = {} /\ ServerFd \in Fd
    BY <1>1, <1>2, LimitAssumption DEF BacklogInv, InQueue, Range, ServerFd, Fd
  <2>3. /\ WalkInv' /\ TimeInv'
        /\ pc' \in {"select", "walk"} /\ cur' \in Conn \cup {NoConn} /\ left' \in Nat
        /\ queue' \in Seq(Conn) /\ InQueue' = InQueue \cup {c}
        /\ sd' \in [Conn -> Fd] /\ state' \in [Conn -> {"HEADER", "RESP"}]
        /\ timeout' \in [Conn -> Int] /\ idle' \in [Conn -> Nat] /\ resp' \in [Conn -> Nat]
    BY <1>1, <2>1, <2>2, EnqueueStep
  <2>4. TypeOK'  BY <1>1, <2>3 DEF TypeOK
  <2>5. BacklogInv'  BY <1>1, <1>2, <2>2, <2>3 DEF BacklogInv
  <2>6. QED  BY <2>3, <2>4, <2>5
<1>3. CASE ~oneTime
  <2>1. UNCHANGED <<queue, sd, state, timeout, idle, resp>>  BY <1>3 DEF OpenServerConn
  <2>2. WalkInv' /\ pc' \in {"select", "walk"} /\ cur' \in Conn \cup {NoConn} /\ left' \in Nat
    BY <1>1, <2>1, KeepQueueWalk
  <2>3. TypeOK'  BY <1>1, <2>1, <2>2 DEF TypeOK
  <2>4. BacklogInv'  BY <1>1, <1>3, <2>1 DEF BacklogInv, InQueue
  <2>5. TimeInv'  BY <1>1, <2>1, KeepTime
  <2>6. QED  BY <2>2, <2>3, <2>4, <2>5
<1>4. QED  BY <1>2, <1>3

\* A visit is to a live element.
LEMMA VisitLive ==
  ASSUME IndInv, NEW c, NEW s, Visit(c, s)
  PROVE  c \in InQueue /\ c \in Conn /\ pc = "walk" /\ left > 0 /\ cur = c
BY DEF Visit, IndInv, WalkInv

LEMMA SkipStep == IndInv /\ Skip => IndInv'
<1> SUFFICES ASSUME IndInv, Skip PROVE IndInv'  OBVIOUS
<1> USE DEF IndInv
<1>1. PICK c \in Conn : (Visit(c, "HEADER") \/ Visit(c, "RESP")) /\ Advance(c)  BY DEF Skip
<1>2. UNCHANGED <<queue, sd, state, timeout, resp, rxlen, tout, rd, wr, fdtab, locked, oneTime, idle, envVars>>
  BY DEF Skip
<1>3. c \in InQueue /\ pc = "walk" /\ left > 0  BY <1>1, VisitLive
<1>4. WalkInv' /\ cur' \in Conn \cup {NoConn} /\ left' \in Nat  BY <1>1, <1>2, <1>3, AdvanceWalk
<1>5. TypeOK'  BY <1>1, <1>2, <1>4 DEF TypeOK, envVars, Advance
<1>6. BacklogInv' /\ TimeInv'  BY <1>2, <1>3, KeepTime DEF BacklogInv, InQueue, envVars
<1>7. QED  BY <1>4, <1>5, <1>6

LEMMA ReadFailsStep == IndInv /\ ReadFails => IndInv'
<1> SUFFICES ASSUME IndInv, ReadFails PROVE IndInv'  OBVIOUS
<1> USE DEF IndInv
<1>1. PICK c \in Conn : Visit(c, "HEADER") /\ peer[c] \in {"up", "rst"}
                        /\ peer' = [peer EXCEPT ![c] = AfterWrite(@)]
  BY DEF ReadFails
<1>2. /\ pc' = "select" /\ rd' = {} /\ wr' = {} /\ cur' = NoConn /\ left' = 0
      /\ UNCHANGED <<queue, sd, state, timeout, resp, rxlen, tout, fdtab,
                     locked, oneTime, idle, backlog, unread, stalled>>
  BY DEF ReadFails, NextRound
<1>3. pc = "walk"  BY <1>1, VisitLive
<1>4. /\ peer' \in [Conn -> {"out", "up", "fin", "rst", "gone"}]
      /\ \A d \in Conn : peer[d] # "out" => peer'[d] # "out"
  BY <1>1 DEF TypeOK, AfterWrite
<1>5. TypeOK'  BY <1>2, <1>4 DEF TypeOK
<1>6. WalkInv'  BY <1>2 DEF WalkInv
<1>7. BacklogInv'
  <2>1. InQueue' = InQueue /\ InQueue \subseteq Conn /\ backlog \subseteq Conn
    BY <1>2, QueueIsQueue DEF InQueue, TypeOK
  <2>2. QED  BY <2>1, <1>2, <1>4 DEF BacklogInv
<1>8. TimeInv'  BY <1>2, <1>3, KeepTime
<1>9. QED  BY <1>5, <1>6, <1>7, <1>8

\* Closing the visited connection: both ways of it, the end of file and the failed write.
LEMMA CloseVisit ==
  ASSUME IndInv, NEW c \in InQueue, pc = "walk", left > 0, ConnClose(c), AdvanceClosed(c),
         UNCHANGED <<timeout, rxlen, tout, rd, wr, locked, oneTime, backlog>>
  PROVE  IndInv'
<1> USE DEF IndInv
<1>1. WalkInv' /\ cur' \in Conn \cup {NoConn} /\ left' \in Nat  BY CloseWalk
<1>2. TypeOK'
  <2>1. pc' = "walk"  BY DEF AdvanceClosed
  <2>2. QED  BY <1>1, <2>1, CloseTypes DEF TypeOK
<1>3. BacklogInv' /\ TimeInv'  BY CloseBacklog, CloseTime
<1>4. QED  BY <1>1, <1>2, <1>3

LEMMA ReadEofStep == IndInv /\ ReadEof => IndInv'
<1> SUFFICES ASSUME IndInv, ReadEof PROVE IndInv'  OBVIOUS
<1>1. PICK c \in Conn : Visit(c, "HEADER") /\ ConnClose(c) /\ AdvanceClosed(c)  BY DEF ReadEof
<1>2. UNCHANGED <<timeout, rxlen, tout, rd, wr, locked, oneTime, backlog>>  BY DEF ReadEof
<1>3. QED  BY <1>1, <1>2, VisitLive, CloseVisit

LEMMA ReadRequestStep == IndInv /\ ReadRequest => IndInv'
<1> SUFFICES ASSUME IndInv, ReadRequest PROVE IndInv'  OBVIOUS
<1> USE DEF IndInv
<1>1. PICK c \in Conn : /\ Visit(c, "HEADER")
                        /\ \E k \in 1..unread[c] : unread' = [unread EXCEPT ![c] = @ - k]
  BY DEF ReadRequest
<1>2. /\ pc' = "tty"
      /\ UNCHANGED <<queue, sd, state, timeout, resp, rxlen, tout, rd, wr, cur, left, fdtab,
                     locked, oneTime, idle, peer, backlog, stalled>>
  BY DEF ReadRequest
<1>3. pc = "walk" /\ left > 0  BY <1>1, VisitLive
<1>4. unread' \in [Conn -> 0..MaxUnread]  BY <1>1, LimitAssumption DEF TypeOK
<1>5. TypeOK'  BY <1>2, <1>4 DEF TypeOK
<1>6. WalkInv' /\ BacklogInv'  BY <1>2, <1>3 DEF WalkInv, BacklogInv, InQueue
<1>7. TimeInv'  BY <1>2, <1>3, KeepTime
<1>8. QED  BY <1>5, <1>6, <1>7

LEMMA EndRoundStep == IndInv /\ EndRound => IndInv'
<1> SUFFICES ASSUME IndInv, EndRound PROVE IndInv'  OBVIOUS
<1> USE DEF IndInv, EndRound, NextRound
<1>1. TypeOK'  BY DEF TypeOK, envVars
<1>2. WalkInv' /\ BacklogInv'  BY DEF WalkInv, BacklogInv, InQueue, envVars
<1>3. TimeInv'  BY KeepTime
<1>4. QED  BY <1>1, <1>2, <1>3

LEMMA SendResponseStep == IndInv /\ SendResponse => IndInv'
<1> SUFFICES ASSUME IndInv, SendResponse PROVE IndInv'  OBVIOUS
<1> USE DEF IndInv
<1>1. PICK c \in Conn : Visit(c, "RESP") /\ SocketSend(c)  BY DEF SendResponse
<1>2. UNCHANGED <<rxlen, tout, rd, wr, locked, oneTime, backlog>>  BY DEF SendResponse
<1>3. c \in InQueue /\ pc = "walk" /\ left > 0  BY <1>1, VisitLive
<1>4. CASE Deliver(c)
  <2>1. /\ ConnSet(c, "HEADER") /\ Advance(c) /\ stalled' \in MayStall(c)
        /\ peer[c] \in {"up", "fin"} /\ peer' = [peer EXCEPT ![c] = AfterWrite(@)]
        /\ UNCHANGED <<queue, sd, resp, fdtab, unread>>
    BY <1>4 DEF Deliver
  <2>2. WalkInv' /\ cur' \in Conn \cup {NoConn} /\ left' \in Nat  BY <2>1, <1>3, AdvanceWalk
  <2>3. /\ peer' \in [Conn -> {"out", "up", "fin", "rst", "gone"}] /\ stalled' \subseteq Conn
        /\ \A d \in Conn : peer[d] # "out" => peer'[d] # "out"
    BY <2>1 DEF TypeOK, AfterWrite, MayStall
  <2>4. /\ state' \in [Conn -> {"HEADER", "RESP"}]
        /\ timeout' \in [Conn -> Int] /\ idle' \in [Conn -> Nat]
    BY <2>1, LimitAssumption DEF ConnSet, TypeOK
  <2>5. TypeOK'  BY <2>1, <2>2, <2>3, <2>4, <1>2 DEF TypeOK, Advance
  <2>6. InQueue' = InQueue /\ InQueue \subseteq Conn /\ backlog \subseteq Conn
    BY <2>1, QueueIsQueue DEF InQueue, TypeOK
  <2>7. BacklogInv'  BY <2>1, <2>3, <2>6, <1>2 DEF BacklogInv
  <2>8. TimeInv'  BY <2>1, <2>6, <1>2, <1>3, ResetTime
  <2>9. QED  BY <2>2, <2>5, <2>7, <2>8
<1>5. CASE DeliverFails(c)
  <2>1. ConnClose(c) /\ AdvanceClosed(c) /\ UNCHANGED timeout  BY <1>5 DEF DeliverFails
  <2>2. QED  BY <2>1, <1>2, <1>3, CloseVisit
<1>6. CASE Killed(c)
  <2>1. pc' = "exit" /\ UNCHANGED <<queue, sd, state, timeout, resp, idle, fdtab, peer, unread, stalled, cur, left>>
    BY <1>6 DEF Killed
  <2>2. TypeOK'  BY <2>1, <1>2 DEF TypeOK
  <2>3. WalkInv' /\ BacklogInv' /\ TimeInv'  BY <2>1, <1>2 DEF WalkInv, BacklogInv, TimeInv, InQueue
  <2>4. QED  BY <2>2, <2>3
<1>7. QED  BY <1>1, <1>4, <1>5, <1>6 DEF SocketSend

\* The part common to every exchange: cur's answer is stored and it waits to be sent.
LEMMA AnswerTypes ==
  ASSUME IndInv, pc = "tty", NEW n \in Nat, Answer(cur, n), UNCHANGED <<queue, tout>>
  PROVE  /\ cur \in InQueue /\ cur \in Conn /\ left > 0
         /\ state' \in [Conn -> {"HEADER", "RESP"}] /\ timeout' \in [Conn -> Int]
         /\ idle' \in [Conn -> Nat] /\ resp' \in [Conn -> Nat] /\ rxlen' \in Nat
         /\ TimeInv'
<1> USE DEF IndInv
<1>1. InQueue \subseteq Conn /\ InQueue' = InQueue  BY QueueIsQueue DEF InQueue
<1>2. cur \in InQueue /\ cur \in Conn /\ left > 0  BY <1>1 DEF WalkInv
<1>3. ConnSet(cur, "RESP") /\ resp' = [resp EXCEPT ![cur] = n] /\ rxlen' = n  BY DEF Answer
<1>4. /\ state' \in [Conn -> {"HEADER", "RESP"}] /\ timeout' \in [Conn -> Int]
      /\ idle' \in [Conn -> Nat] /\ resp' \in [Conn -> Nat]
  BY <1>2, <1>3, LimitAssumption DEF ConnSet, TypeOK
<1>5. TimeInv'  BY <1>1, <1>2, <1>3, ResetTime
<1>6. QED  BY <1>2, <1>3, <1>4, <1>5

\* An error text is sent in the same visit.
LEMMA ErrorAnswer ==
  ASSUME IndInv, pc = "tty", NEW n \in Nat, Answer(cur, n), SendAtOnce(cur),
         UNCHANGED <<queue, sd, tout, rd, locked, oneTime, envVars>>,
         fdtab' \in [Fd -> Conn \cup {"Free", "Tty", "Server"}]
  PROVE  IndInv'
<1> USE DEF IndInv
<1>1. /\ cur \in InQueue /\ cur \in Conn /\ left > 0
      /\ state' \in [Conn -> {"HEADER", "RESP"}] /\ timeout' \in [Conn -> Int]
      /\ idle' \in [Conn -> Nat] /\ resp' \in [Conn -> Nat] /\ rxlen' \in Nat
      /\ TimeInv'
  BY AnswerTypes
<1>2. pc' = "walk" /\ UNCHANGED <<cur, left>> /\ wr' = wr \cup {TtyFd, sd[cur]}  BY DEF SendAtOnce
<1>3. TtyFd \in Fd  BY LimitAssumption DEF TtyFd, Fd
<1>4. TypeOK'  BY <1>1, <1>2, <1>3 DEF TypeOK, envVars
<1>5. WalkInv' /\ BacklogInv'  BY <1>2 DEF WalkInv, BacklogInv, InQueue, envVars
<1>6. QED  BY <1>1, <1>4, <1>5

LEMMA FormatErrorStep == IndInv /\ FormatError => IndInv'
<1> SUFFICES ASSUME IndInv, FormatError PROVE IndInv'  OBVIOUS
<1>1. fdtab' \in [Fd -> Conn \cup {"Free", "Tty", "Server"}]  BY DEF FormatError, IndInv, TypeOK
<1>2. QED  BY <1>1, ErrorAnswer DEF FormatError

LEMMA TtyWriteErrorStep == IndInv /\ TtyWriteError => IndInv'
<1> SUFFICES ASSUME IndInv, TtyWriteError PROVE IndInv'  OBVIOUS
<1>1. fdtab' \in [Fd -> Conn \cup {"Free", "Tty", "Server"}]  BY DEF TtyWriteError, IndInv, TypeOK
<1>2. QED  BY <1>1, ErrorAnswer DEF TtyWriteError

\* An answer that is stored and left for the next round.
LEMMA StoredAnswer ==
  ASSUME IndInv, pc = "tty", NEW n \in Nat, Answer(cur, n), Advance(cur),
         rd' = rd \cup {TtyFd}, wr' = wr \cup {TtyFd},
         UNCHANGED <<queue, sd, tout, fdtab, oneTime, backlog, unread>>, locked' \in BOOLEAN,
         peer' \in [Conn -> {"out", "up", "fin", "rst", "gone"}], stalled' \subseteq Conn,
         \A d \in Conn : peer[d] # "out" => peer'[d] # "out"
  PROVE  IndInv'
<1> USE DEF IndInv
<1>1. /\ cur \in InQueue /\ cur \in Conn /\ left > 0
      /\ state' \in [Conn -> {"HEADER", "RESP"}] /\ timeout' \in [Conn -> Int]
      /\ idle' \in [Conn -> Nat] /\ resp' \in [Conn -> Nat] /\ rxlen' \in Nat
      /\ TimeInv'
  BY AnswerTypes
<1>2. WalkInv' /\ cur' \in Conn \cup {NoConn} /\ left' \in Nat  BY <1>1, AdvanceWalk
<1>3. TtyFd \in Fd /\ pc' = "walk"  BY LimitAssumption DEF TtyFd, Fd, Advance
<1>4. TypeOK'  BY <1>1, <1>2, <1>3 DEF TypeOK
<1>5. InQueue' = InQueue /\ InQueue \subseteq Conn /\ backlog \subseteq Conn
  BY QueueIsQueue DEF InQueue, TypeOK
<1>6. BacklogInv'  BY <1>5 DEF BacklogInv
<1>7. QED  BY <1>1, <1>2, <1>4, <1>6

LEMMA TtyExchangeStep == IndInv /\ TtyExchange => IndInv'
<1> SUFFICES ASSUME IndInv, TtyExchange PROVE IndInv'  OBVIOUS
<1>1. PICK n \in Nat : Answer(cur, n)
  <2>1. CASE Answer(cur, 7)  BY <2>1
  <2>2. CASE \E n \in AnswerLens : Answer(cur, IF TtyStr THEN 2 * n ELSE n)
    <3>1. PICK n \in AnswerLens : Answer(cur, IF TtyStr THEN 2 * n ELSE n)  BY <2>2
    <3>2. (IF TtyStr THEN 2 * n ELSE n) \in Nat  BY LimitAssumption
    <3>3. QED  BY <3>1, <3>2
  <2>3. QED  BY <2>1, <2>2 DEF TtyExchange
<1>2. /\ pc = "tty" /\ Advance(cur) /\ rd' = rd \cup {TtyFd} /\ wr' = wr \cup {TtyFd} /\ locked' = TRUE
      /\ UNCHANGED <<queue, sd, tout, fdtab, oneTime, envVars>>
  BY DEF TtyExchange
<1>3. /\ peer' \in [Conn -> {"out", "up", "fin", "rst", "gone"}] /\ stalled' \subseteq Conn
      /\ peer' = peer /\ UNCHANGED <<backlog, unread>>
  BY <1>2 DEF IndInv, TypeOK, envVars
<1>4. QED  BY <1>1, <1>2, <1>3, StoredAnswer

LEMMA MisdirectStep == IndInv /\ Misdirect => IndInv'
<1> SUFFICES ASSUME IndInv, Misdirect PROVE IndInv'  OBVIOUS
<1> DEFINE d == fdtab[TtyFd]
<1>1. /\ pc = "tty" /\ d \in Conn
      /\ UNCHANGED <<queue, sd, tout, fdtab, locked, oneTime, backlog, unread>>
  BY DEF Misdirect
<1>2. CASE peer[d] = "gone"
  <2>1. /\ pc' = "exit"
        /\ UNCHANGED <<state, timeout, resp, rxlen, rd, wr, cur, left, idle, peer, stalled>>
    BY <1>2 DEF Misdirect
  <2>2. TypeOK'  BY <1>1, <2>1 DEF IndInv, TypeOK
  <2>3. WalkInv' /\ BacklogInv' /\ TimeInv'
    BY <1>1, <2>1 DEF IndInv, WalkInv, BacklogInv, TimeInv, InQueue
  <2>4. QED  BY <2>2, <2>3 DEF IndInv
<1>3. CASE peer[d] # "gone"
  <2>1. /\ peer' = [peer EXCEPT ![d] = AfterWrite(@)] /\ stalled' \in MayStall(d)
        /\ Answer(cur, 7) /\ rd' = rd \cup {TtyFd} /\ wr' = wr \cup {TtyFd} /\ Advance(cur)
    BY <1>3 DEF Misdirect
  <2>2. /\ peer' \in [Conn -> {"out", "up", "fin", "rst", "gone"}] /\ stalled' \subseteq Conn
        /\ \A e \in Conn : peer[e] # "out" => peer'[e] # "out"
        /\ locked' \in BOOLEAN
    BY <1>1, <2>1 DEF IndInv, TypeOK, AfterWrite, MayStall
  <2>3. QED  BY <1>1, <2>1, <2>2, StoredAnswer
<1>4. QED  BY <1>2, <1>3

\* A client acts: nothing of the daemon changes.
LEMMA ClientStepStep == IndInv /\ ClientStep => IndInv'
<1> SUFFICES ASSUME IndInv, ClientStep PROVE IndInv'  OBVIOUS
<1> USE DEF IndInv
<1>1. UNCHANGED daemonVars  BY DEF ClientStep
<1>2. WalkInv' /\ TimeInv'  BY <1>1 DEF daemonVars, WalkInv, TimeInv, InQueue
<1>3. PICK c \in Conn : Connect(c) \/ SendData(c) \/ PeerClose(c) \/ PeerReset(c) \/ Drain(c)
  BY DEF ClientStep
<1>4. /\ peer' \in [Conn -> {"out", "up", "fin", "rst", "gone"}]
      /\ backlog' \subseteq Conn /\ stalled' \subseteq Conn
  BY <1>3 DEF TypeOK, Connect, SendData, PeerClose, PeerReset, Drain
<1>5. unread' \in [Conn -> 0..MaxUnread]
  <2>1. CASE SendData(c)
    <3>1. unread[c] + 1 \in 0..MaxUnread  BY <2>1, LimitAssumption DEF TypeOK, SendData
    <3>2. QED  BY <2>1, <3>1 DEF TypeOK, SendData
  <2>2. CASE ~SendData(c)  BY <1>3, <2>2 DEF TypeOK, Connect, PeerClose, PeerReset, Drain
  <2>3. QED  BY <2>1, <2>2
<1>6. TypeOK'  BY <1>1, <1>4, <1>5 DEF TypeOK, daemonVars
<1>7. InQueue' = InQueue /\ InQueue \subseteq Conn /\ backlog \subseteq Conn
  BY <1>1, QueueIsQueue DEF InQueue, TypeOK, daemonVars
<1>8. \A d \in Conn : peer[d] # "out" => peer'[d] # "out"
  BY <1>3 DEF TypeOK, Connect, SendData, PeerClose, PeerReset, Drain
<1>9. BacklogInv'
  <2>1. CASE Connect(c)
    <3>1. /\ Listening /\ c \notin InQueue /\ backlog' = backlog \cup {c}
          /\ peer' = [peer EXCEPT ![c] = "up"]
      BY <2>1 DEF Connect, BacklogInv
    <3>2. peer'[c] # "out"  BY <3>1 DEF TypeOK
    <3>3. QED  BY <3>1, <3>2, <1>7, <1>8 DEF BacklogInv
  <2>2. CASE ~Connect(c)
    <3>1. backlog' = backlog  BY <1>3, <2>2 DEF SendData, PeerClose, PeerReset, Drain
    <3>2. oneTime' = oneTime /\ queue' = queue  BY <1>1 DEF daemonVars
    <3>3. QED  BY <3>1, <3>2, <1>7, <1>8 DEF BacklogInv
  <2>3. QED  BY <2>1, <2>2
<1>10. QED  BY <1>2, <1>6, <1>9
LEMMA DecodeForeverStep == IndInv /\ DecodeForever => IndInv'
<1> SUFFICES ASSUME IndInv, DecodeForever PROVE IndInv'  OBVIOUS
<1> USE DEF IndInv, DecodeForever
<1>1. TypeOK'  BY DEF TypeOK, envVars
<1>2. WalkInv' /\ BacklogInv'  BY DEF WalkInv, BacklogInv, InQueue, envVars
<1>3. TimeInv'  BY KeepTime
<1>4. QED  BY <1>1, <1>2, <1>3
-----------------------------------------------------------------------------
\* IndInv is an invariant of the loop.
LEMMA NextInd == IndInv /\ [Next]_vars => IndInv'
<1> SUFFICES ASSUME IndInv, [Next]_vars PROVE IndInv'  OBVIOUS
<1>1. CASE DaemonStep
  BY <1>1, SelectStep, SelectFailsStep, KeepAllStep, PurgeStep, NothingToAcceptStep, AcceptConnStep,
     DropConnStep, AcceptFailsStep, OpenServerConnStep, SkipStep, ReadFailsStep, ReadEofStep,
     ReadRequestStep, SendResponseStep, EndRoundStep, FormatErrorStep, TtyWriteErrorStep,
     TtyExchangeStep, MisdirectStep, DecodeForeverStep
  DEF DaemonStep
<1>2. CASE ClientStep  BY <1>2, ClientStepStep
<1>3. CASE UNCHANGED vars
  <2>1. TypeOK'  BY <1>3 DEF IndInv, TypeOK, vars, daemonVars, envVars
  <2>2. WalkInv' /\ BacklogInv' /\ TimeInv'
    BY <1>3 DEF IndInv, WalkInv, BacklogInv, TimeInv, InQueue, vars, daemonVars, envVars
  <2>3. QED  BY <2>1, <2>2 DEF IndInv
<1>4. QED  BY <1>1, <1>2, <1>3 DEF Next

LEMMA IndInvariant == Spec => []IndInv
BY InitInd, NextInd, PTL DEF Spec

(* Every variable of the connection loop keeps its type, the numbers of    *)
(* conn.c included: tout and the lengths never go below zero.              *)
THEOREM TypeCorrect == Spec => []TypeOK
<1>1. IndInv => TypeOK  BY DEF IndInv
<1>2. QED  BY <1>1, IndInvariant, PTL

(* The walk of conn.c:478-590 never visits a freed element, whatever is    *)
(* closed on the way, although conn_close() may return one.                *)
THEOREM WalkIsSafe == Spec => []WalkSafe
<1>1. IndInv => WalkSafe  BY DEF IndInv, WalkInv, WalkSafe
<1>2. QED  BY <1>1, IndInvariant, PTL

(* The time taken from the timeouts (conn.c:440-467) is the measured time  *)
(* since the connection's last state change, up to the part of a second    *)
(* that tout held then.                                                    *)
THEOREM TimeoutsAccounted == Spec => []TimeoutAccounting
<1>1. IndInv => TimeoutAccounting  BY Zenon DEF IndInv, TimeInv, TimeoutAccounting
<1>2. QED  BY <1>1, IndInvariant, PTL

(* No connection that has been silent for conntimeout seconds by the       *)
(* loop's own clock survives the expiry check.                             *)
THEOREM NoStaleConnLeft == Spec => []NoStaleConn
<1>1. IndInv => NoStaleConn
  <2>1. SUFFICES ASSUME IndInv, pc \in {"accept", "walk", "tty"}, ConnTimeout > 0, NEW c \in InQueue
                 PROVE  idle[c] < ConnTimeout * TicksPerSec
    BY DEF NoStaleConn
  <2>2. c \in Conn  BY <2>1, QueueIsQueue DEF IndInv
  <2>3. /\ timeout[c] \in Int /\ idle[c] \in Nat /\ tout \in Nat
        /\ ConnTimeout \in Nat /\ TicksPerSec \in Nat \ {0}
    BY <2>1, <2>2, LimitAssumption DEF IndInv, TypeOK
  <2>4. /\ tout < TicksPerSec /\ timeout[c] > 0
        /\ (ConnTimeout - timeout[c]) * TicksPerSec + tout - idle[c] >= 0
    BY <2>1 DEF IndInv, TimeInv
  <2>5. (ConnTimeout - timeout[c]) * TicksPerSec = ConnTimeout * TicksPerSec - timeout[c] * TicksPerSec
    BY <2>3
  <2>6. timeout[c] * TicksPerSec >= TicksPerSec  BY <2>3, <2>4
  <2> DEFINE a == ConnTimeout * TicksPerSec
             b == timeout[c] * TicksPerSec
  <2>7. a \in Int /\ b \in Int  BY <2>3
  <2> HIDE DEF a, b
  <2>8. a - b + tout - idle[c] >= 0 /\ b >= TicksPerSec  BY <2>4, <2>5, <2>6 DEF a, b
  <2>9. idle[c] < a  BY <2>3, <2>4, <2>7, <2>8
  <2>10. QED  BY <2>9 DEF a
<1>2. QED  BY <1>1, IndInvariant, PTL
-----------------------------------------------------------------------------
(* Descriptors.  DescInv adds to the two properties what they need without *)
(* a listening socket: the only connection lives on server_sd.             *)

DescInv ==
  /\ DescriptorsConserved /\ SelectSafe
  /\ ~Listening => (oneTime => fdtab[ServerFd] = "Server") /\ \A f \in Fd : fdtab[f] \notin Conn

LEMMA DescInit == Init => DescInv
<1> SUFFICES ASSUME Init PROVE DescInv  OBVIOUS
<1>1. InQueue = {} /\ Len(queue) = 0 /\ ServerFd \in Fd /\ TtyFd \in Fd /\ ServerFd # TtyFd
  BY LimitAssumption DEF Init, InQueue, Range, ServerFd, TtyFd, Fd
<1>2. \A f \in Fd : fdtab[f] \in {"Free", "Tty", "Server"}  BY DEF Init
<1>3. fdtab[ServerFd] = "Server"  BY <1>1 DEF Init
<1>4. QED  BY <1>1, <1>2, <1>3, ConnAssumption, LimitAssumption
           DEF DescInv, DescriptorsConserved, SelectSafe

\* Two queued connections have two descriptors.
LEMMA OwnDescriptor ==
  ASSUME IndInv, DescInv, NEW c \in InQueue, NEW d \in InQueue, sd[c] = sd[d]
  PROVE  c = d
<1>1. InQueue \subseteq Conn  BY QueueIsQueue DEF IndInv
<1>2. CASE Listening  BY <1>2 DEF DescInv, DescriptorsConserved
<1>3. CASE ~Listening  BY <1>1, <1>3, ConnAssumption
<1>4. QED  BY <1>2, <1>3

LEMMA DescClose ==
  ASSUME IndInv, DescInv, NEW c \in InQueue, ConnClose(c), UNCHANGED oneTime
  PROVE  DescInv'
<1>1. /\ InQueue' = InQueue \ {c} /\ Len(queue') = Len(queue) - 1 /\ Len(queue) \in Nat
      /\ InQueue \subseteq Conn
  BY CloseQueue, QueueIsQueue DEF IndInv
<1>2. /\ fdtab' = [fdtab EXCEPT ![sd[c]] = "Free"] /\ sd' = [sd EXCEPT ![c] = ServerFd]
      /\ fdtab \in [Fd -> Conn \cup {"Free", "Tty", "Server"}] /\ sd \in [Conn -> Fd]
  BY DEF ConnClose, IndInv, TypeOK
<1>3. ASSUME NEW d \in InQueue'
      PROVE  /\ fdtab'[sd'[d]] = IF Listening THEN d ELSE "Server"
             /\ sd'[d] < FdSetSize
  <2>1. d \in InQueue /\ d # c /\ d \in Conn /\ sd'[d] = sd[d]  BY <1>1, <1>2
  <2>2. sd[d] # sd[c]  BY <2>1, OwnDescriptor
  <2>3. fdtab'[sd[d]] = fdtab[sd[d]]  BY <1>2, <2>1, <2>2
  <2>4. QED  BY <2>1, <2>3 DEF DescInv, DescriptorsConserved, SelectSafe
<1>4. ASSUME NEW f \in Fd, fdtab'[f] \in Conn
      PROVE  fdtab'[f] \in InQueue' /\ sd'[fdtab'[f]] = f
  <2>1. f # sd[c] /\ fdtab'[f] = fdtab[f]
    <3>1. f # sd[c]  BY <1>1, <1>2, <1>4, ConnAssumption
    <3>2. QED  BY <3>1, <1>2
  <2>2. fdtab[f] \in InQueue /\ sd[fdtab[f]] = f  BY <2>1, <1>4 DEF DescInv, DescriptorsConserved
  <2>3. fdtab[f] # c  BY <2>1, <2>2
  <2>4. QED  BY <2>1, <2>2, <2>3, <1>1, <1>2, <1>4
<1>5. ~Listening => (oneTime' => fdtab'[ServerFd] = "Server") /\ \A f \in Fd : fdtab'[f] \notin Conn
  <2>1. ~Listening => ~oneTime
    <3>1. queue # <<>>  BY DEF InQueue, Range
    <3>2. QED  BY <3>1 DEF IndInv, BacklogInv
  <2>2. ~Listening => \A f \in Fd : fdtab'[f] \notin Conn
    BY <1>2, ConnAssumption DEF DescInv
  <2>3. QED  BY <2>1, <2>2
<1>6. Len(queue') <= MaxConn  BY <1>1, LimitAssumption DEF DescInv, SelectSafe
<1>7. QED  BY <1>3, <1>4, <1>5, <1>6 DEF DescInv, DescriptorsConserved, SelectSafe

LEMMA DescAccept ==
  ASSUME IndInv, DescInv, AcceptConn
  PROVE  DescInv'
<1>1. PICK c \in backlog, f \in FreeFds :
        /\ ~Refused(f) /\ Enqueue(c, f) /\ fdtab' = [fdtab EXCEPT ![f] = c]
  BY DEF AcceptConn
<1>2. Listening /\ BeginWalk(queue') /\ pc = "accept" /\ tout' = tout  BY DEF AcceptConn
<1>3. c \in Conn /\ c \notin InQueue /\ f \in Fd /\ fdtab[f] = "Free" /\ InQueue \subseteq Conn
      /\ queue \in Queues(Conn) /\ Len(queue) \in Nat
  BY QueueIsQueue DEF IndInv, TypeOK, BacklogInv, FreeFds
<1>4. /\ InQueue' = InQueue \cup {c} /\ Len(queue') = Len(queue) + 1
      /\ sd' = [sd EXCEPT ![c] = f]
  BY <1>1, <1>3, EnqueueQueue DEF Enqueue, IndInv
<1>5. /\ fdtab \in [Fd -> Conn \cup {"Free", "Tty", "Server"}] /\ sd \in [Conn -> Fd]
      /\ sd' = [sd EXCEPT ![c] = f] /\ fdtab' = [fdtab EXCEPT ![f] = c]
  BY <1>1, <1>4 DEF IndInv, TypeOK
<1>6. f < FdSetSize /\ Len(queue) # MaxConn
  BY <1>1, <1>3, LimitAssumption DEF Refused, Fd
<1>7. ASSUME NEW d \in InQueue'
      PROVE  fdtab'[sd'[d]] = d /\ sd'[d] < FdSetSize
  <2>1. CASE d = c  BY <2>1, <1>3, <1>5, <1>6
  <2>2. CASE d # c
    <3>1. d \in InQueue /\ d \in Conn /\ sd'[d] = sd[d] /\ sd[d] \in Fd  BY <2>2, <1>3, <1>4, <1>5
    <3>2. fdtab[sd[d]] = d /\ sd[d] < FdSetSize
      BY <3>1, <1>2 DEF DescInv, DescriptorsConserved, SelectSafe
    <3>3. sd[d] # f  BY <3>1, <3>2, <1>3, ConnAssumption
    <3>4. QED  BY <3>1, <3>2, <3>3, <1>5
  <2>3. QED  BY <2>1, <2>2
<1>8. ASSUME NEW g \in Fd, fdtab'[g] \in Conn
      PROVE  fdtab'[g] \in InQueue' /\ sd'[fdtab'[g]] = g
  <2>1. CASE g = f  BY <2>1, <1>3, <1>4, <1>5
  <2>2. CASE g # f
    <3>1. fdtab'[g] = fdtab[g]  BY <2>2, <1>5
    <3>2. fdtab[g] \in InQueue /\ sd[fdtab[g]] = g  BY <3>1, <1>8 DEF DescInv, DescriptorsConserved
    <3>3. QED  BY <3>1, <3>2, <1>3, <1>4, <1>5
  <2>3. QED  BY <2>1, <2>2
<1>9. Len(queue') <= MaxConn  BY <1>3, <1>4, <1>6, LimitAssumption DEF DescInv, SelectSafe
<1>10. QED  BY <1>2, <1>7, <1>8, <1>9 DEF DescInv, DescriptorsConserved, SelectSafe

LEMMA DescOpen ==
  ASSUME IndInv, DescInv, OpenServerConn
  PROVE  DescInv'
<1>1. fdtab' = fdtab /\ ~Listening /\ oneTime' = FALSE  BY DEF OpenServerConn
<1>2. CASE oneTime
  <2>1. PICK c \in Conn : Enqueue(c, ServerFd)  BY <1>2 DEF OpenServerConn
  <2>2. queue = <<>> /\ Len(queue) = 0 /\ c \notin InQueue /\ queue \in Queues(Conn)
    BY <1>1, <1>2, QueueIsQueue DEF IndInv, BacklogInv, InQueue, Range
  <2>3. InQueue' = {c} /\ Len(queue') = 1 /\ sd' = [sd EXCEPT ![c] = ServerFd]
    <3>1. InQueue' = InQueue \cup {c} /\ Len(queue') = Len(queue) + 1
      BY <2>1, <2>2, EnqueueQueue DEF IndInv
    <3>2. InQueue = {}  BY <2>2 DEF InQueue, Range
    <3>3. QED  BY <3>1, <3>2, <2>1, <2>2 DEF Enqueue
  <2>4. sd'[c] = ServerFd  BY <2>3 DEF IndInv, TypeOK
  <2>5. QED  BY <1>1, <1>2, <2>3, <2>4, LimitAssumption DEF DescInv, DescriptorsConserved, SelectSafe
<1>3. CASE ~oneTime
  <2>1. queue' = queue /\ sd' = sd  BY <1>3 DEF OpenServerConn
  <2>2. QED  BY <1>1, <2>1 DEF DescInv, DescriptorsConserved, SelectSafe, InQueue
<1>4. QED  BY <1>2, <1>3

\* tty_write() closes the tty, which is no connection's descriptor.
LEMMA DescTtyClosed ==
  ASSUME IndInv, DescInv, TtyWriteError
  PROVE  DescInv'
<1>1. /\ fdtab' = [fdtab EXCEPT ![TtyFd] = "Free"] /\ fdtab[TtyFd] \in {"Free", "Tty"}
      /\ UNCHANGED <<queue, sd, oneTime>> /\ InQueue' = InQueue
      /\ fdtab \in [Fd -> Conn \cup {"Free", "Tty", "Server"}] /\ sd \in [Conn -> Fd]
      /\ InQueue \subseteq Conn
  BY QueueIsQueue DEF TtyWriteError, IndInv, TypeOK, InQueue
<1>2. ASSUME NEW c \in InQueue  PROVE fdtab'[sd[c]] = fdtab[sd[c]]
  <2>1. sd[c] # TtyFd  BY <1>1, ConnAssumption DEF DescInv, DescriptorsConserved
  <2>2. QED  BY <1>1, <2>1
<1>3. \A f \in Fd : fdtab'[f] \in Conn => fdtab'[f] = fdtab[f]  BY <1>1, ConnAssumption
<1>4. ServerFd # TtyFd /\ ServerFd \in Fd  BY LimitAssumption DEF ServerFd, TtyFd, Fd
<1>5. fdtab'[ServerFd] = fdtab[ServerFd]  BY <1>1, <1>4
<1>6. DescriptorsConserved'  BY <1>1, <1>2, <1>3 DEF DescInv, DescriptorsConserved
<1>7. SelectSafe'  BY <1>1 DEF DescInv, SelectSafe
<1>8. QED  BY <1>1, <1>3, <1>5, <1>6, <1>7 DEF DescInv

\* Every other step leaves queue and descriptors alone.
LEMMA DescKeep ==
  ASSUME DescInv, UNCHANGED <<queue, sd, fdtab, oneTime>>
  PROVE  DescInv'
BY DEF DescInv, DescriptorsConserved, SelectSafe, InQueue

LEMMA DescNext == IndInv /\ DescInv /\ [Next]_vars => DescInv'
<1> SUFFICES ASSUME IndInv, DescInv, [Next]_vars PROVE DescInv'  OBVIOUS
<1>1. CASE Purge
  <2>1. PICK i \in DOMAIN queue : ConnClose(queue[i])  BY <1>1 DEF Purge
  <2>2. queue[i] \in InQueue /\ UNCHANGED oneTime  BY <1>1 DEF InQueue, Range, Purge
  <2>3. QED  BY <2>1, <2>2, DescClose
<1>2. CASE ReadEof
  <2>1. PICK c \in Conn : Visit(c, "HEADER") /\ ConnClose(c)  BY <1>2 DEF ReadEof
  <2>2. UNCHANGED oneTime  BY <1>2 DEF ReadEof
  <2>3. QED  BY <2>1, <2>2, VisitLive, DescClose
<1>3. CASE SendResponse
  <2>1. PICK c \in Conn : Visit(c, "RESP") /\ SocketSend(c)  BY <1>3 DEF SendResponse
  <2>2. UNCHANGED oneTime  BY <1>3 DEF SendResponse
  <2>3. CASE DeliverFails(c)  BY <2>1, <2>2, <2>3, VisitLive, DescClose DEF DeliverFails
  <2>4. CASE Deliver(c) \/ Killed(c)
    <3>1. UNCHANGED <<queue, sd, fdtab>>  BY <2>4 DEF Deliver, Killed
    <3>2. QED  BY <3>1, <2>2, DescKeep
  <2>5. QED  BY <2>1, <2>3, <2>4 DEF SocketSend
<1>4. CASE AcceptConn  BY <1>4, DescAccept
<1>5. CASE OpenServerConn  BY <1>5, DescOpen
<1>6. CASE TtyWriteError  BY <1>6, DescTtyClosed
<1>7. CASE \/ Select \/ SelectFails \/ KeepAll \/ NothingToAccept \/ DropConn \/ AcceptFails
  <2>1. UNCHANGED <<queue, sd, fdtab, oneTime>>
    BY <1>7 DEF Select, SelectFails, KeepAll, NothingToAccept, DropConn, AcceptFails
  <2>2. QED  BY <2>1, DescKeep
<1>8. CASE \/ Skip \/ ReadFails \/ ReadRequest \/ EndRound \/ FormatError \/ DecodeForever
           \/ TtyExchange \/ Misdirect
  <2>1. UNCHANGED <<queue, sd, fdtab, oneTime>>
    BY <1>8 DEF Skip, ReadFails, ReadRequest, EndRound, FormatError, DecodeForever, TtyExchange, Misdirect
  <2>2. QED  BY <2>1, DescKeep
<1>9. CASE ClientStep \/ UNCHANGED vars
  <2>1. UNCHANGED <<queue, sd, fdtab, oneTime>>  BY <1>9 DEF ClientStep, vars, daemonVars
  <2>2. QED  BY <2>1, DescKeep
<1>10. QED  BY <1>1, <1>2, <1>3, <1>4, <1>5, <1>6, <1>7, <1>8, <1>9 DEF Next, DaemonStep

LEMMA DescInvariant == Spec => []DescInv
BY IndInvariant, DescInit, DescNext, PTL DEF Spec

(* Client descriptors neither leak nor are shared: each belongs to exactly *)
(* the queued connection that has it, through accept, drop, close, purge   *)
(* and the loss of the tty's descriptor (conn.c:94-136, 149, 214-218).     *)
THEOREM DescriptorsAreConserved == Spec => []DescriptorsConserved
<1>1. DescInv => DescriptorsConserved  BY DEF DescInv
<1>2. QED  BY <1>1, DescInvariant, PTL

(* No descriptor that reaches select() is FD_SETSIZE or more, and never    *)
(* more than maxconn connections are queued (conn.c:118-130).              *)
THEOREM SelectIsSafe == Spec => []SelectSafe
<1>1. DescInv => SelectSafe  BY DEF DescInv
<1>2. QED  BY <1>1, DescInvariant, PTL
-----------------------------------------------------------------------------
(* One connection at a time.  RespInv says that an answer waiting to be    *)
(* sent has the length tty.rxlen holds; it is inductive when no second     *)
(* connection can have its exchange in between.                            *)

OneAtATime == MaxConn = 1 \/ ~Listening

RespInv == \A c \in Conn : state[c] = "RESP" => c \in InQueue /\ resp[c] = rxlen

\* With one connection at a time every queued connection is the same one.
LEMMA OnlyOne ==
  ASSUME IndInv, DescInv, OneAtATime, NEW c \in InQueue, NEW d \in InQueue
  PROVE  c = d
<1>1. InQueue \subseteq Conn /\ queue \in Queues(Conn) /\ Len(queue) \in Nat
  BY QueueIsQueue DEF IndInv
<1>2. CASE ~Listening  BY <1>1, <1>2, ConnAssumption
<1>3. CASE MaxConn = 1
  <2>1. Len(queue) <= 1  BY <1>3 DEF DescInv, SelectSafe
  <2>2. PICK i \in DOMAIN queue : c = queue[i]  BY DEF InQueue, Range
  <2>3. PICK j \in DOMAIN queue : d = queue[j]  BY DEF InQueue, Range
  <2>4. DOMAIN queue = 1..Len(queue)  BY <1>1 DEF Queues
  <2>5. i = 1 /\ j = 1  BY <1>1, <2>1, <2>2, <2>3, <2>4
  <2>6. QED  BY <2>2, <2>3, <2>5
<1>4. QED  BY <1>2, <1>3 DEF OneAtATime

LEMMA RespKeep ==
  ASSUME RespInv, UNCHANGED <<queue, state, resp, rxlen>>
  PROVE  RespInv'
BY DEF RespInv, InQueue

LEMMA RespClose ==
  ASSUME IndInv, RespInv, NEW c \in InQueue, ConnClose(c), UNCHANGED rxlen
  PROVE  RespInv'
<1>1. InQueue' = InQueue \ {c}  BY CloseQueue DEF IndInv
<1>2. /\ state' = [state EXCEPT ![c] = "HEADER"] /\ resp' = [resp EXCEPT ![c] = 0]
      /\ state \in [Conn -> {"HEADER", "RESP"}] /\ resp \in [Conn -> Nat]
  BY DEF ConnClose, IndInv, TypeOK
<1>3. QED  BY <1>1, <1>2 DEF RespInv

LEMMA RespEnqueue ==
  ASSUME IndInv, RespInv, NEW c \in Conn, c \notin InQueue, NEW f, Enqueue(c, f), UNCHANGED rxlen
  PROVE  RespInv'
<1>2. InQueue' = InQueue \cup {c}  BY EnqueueQueue DEF IndInv
<1>3. /\ state' = [state EXCEPT ![c] = "HEADER"] /\ resp' = [resp EXCEPT ![c] = 0]
      /\ state \in [Conn -> {"HEADER", "RESP"}] /\ resp \in [Conn -> Nat]
  BY DEF Enqueue, ConnSet, IndInv, TypeOK
<1>4. QED  BY <1>2, <1>3 DEF RespInv

\* The only place where tty.rxlen changes: nobody else's answer is waiting.
LEMMA RespAnswer ==
  ASSUME IndInv, DescInv, RespInv, OneAtATime, pc = "tty",
         NEW n, Answer(cur, n), UNCHANGED queue
  PROVE  RespInv'
<1>1. cur \in InQueue /\ InQueue' = InQueue /\ InQueue \subseteq Conn
  BY QueueIsQueue DEF IndInv, WalkInv, InQueue
<1>2. /\ state' = [state EXCEPT ![cur] = "RESP"] /\ resp' = [resp EXCEPT ![cur] = n] /\ rxlen' = n
      /\ state \in [Conn -> {"HEADER", "RESP"}] /\ resp \in [Conn -> Nat]
  BY DEF Answer, ConnSet, IndInv, TypeOK
<1>3. ASSUME NEW d \in Conn, state'[d] = "RESP"  PROVE d = cur
  <2>1. CASE d # cur
    <3>1. d \in InQueue  BY <2>1, <1>2, <1>3 DEF RespInv
    <3>2. QED  BY <3>1, <1>1, OnlyOne
  <2>2. QED  BY <2>1
<1>4. QED  BY <1>1, <1>2, <1>3 DEF RespInv

LEMMA RespDeliver ==
  ASSUME IndInv, RespInv, NEW c \in Conn, Deliver(c), UNCHANGED rxlen
  PROVE  RespInv'
<1>1. /\ state' = [state EXCEPT ![c] = "HEADER"] /\ UNCHANGED <<queue, resp>>
      /\ state \in [Conn -> {"HEADER", "RESP"}]
  BY DEF Deliver, ConnSet, IndInv, TypeOK
<1>2. QED  BY <1>1 DEF RespInv, InQueue

LEMMA RespNext == OneAtATime /\ IndInv /\ DescInv /\ RespInv /\ [Next]_vars => RespInv'
<1> SUFFICES ASSUME OneAtATime, IndInv, DescInv, RespInv, [Next]_vars PROVE RespInv'  OBVIOUS
<1>1. CASE Purge
  <2>1. PICK i \in DOMAIN queue : ConnClose(queue[i])  BY <1>1 DEF Purge
  <2>2. queue[i] \in InQueue /\ UNCHANGED rxlen  BY <1>1 DEF InQueue, Range, Purge
  <2>3. QED  BY <2>1, <2>2, RespClose
<1>2. CASE ReadEof
  <2>1. PICK c \in Conn : Visit(c, "HEADER") /\ ConnClose(c)  BY <1>2 DEF ReadEof
  <2>2. UNCHANGED rxlen  BY <1>2 DEF ReadEof
  <2>3. QED  BY <2>1, <2>2, VisitLive, RespClose
<1>3. CASE SendResponse
  <2>1. PICK c \in Conn : Visit(c, "RESP") /\ SocketSend(c)  BY <1>3 DEF SendResponse
  <2>2. UNCHANGED rxlen  BY <1>3 DEF SendResponse
  <2>3. CASE DeliverFails(c)  BY <2>1, <2>2, <2>3, VisitLive, RespClose DEF DeliverFails
  <2>4. CASE Deliver(c)  BY <2>2, <2>4, RespDeliver
  <2>5. CASE Killed(c)
    <3>1. UNCHANGED <<queue, state, resp>>  BY <2>5 DEF Killed
    <3>2. QED  BY <3>1, <2>2, RespKeep
  <2>6. QED  BY <2>1, <2>3, <2>4, <2>5 DEF SocketSend
<1>4. CASE AcceptConn
  <2>1. PICK c \in backlog, f \in FreeFds : Enqueue(c, f)  BY <1>4 DEF AcceptConn
  <2>2. c \in Conn /\ c \notin InQueue /\ UNCHANGED rxlen
    BY <1>4 DEF IndInv, TypeOK, BacklogInv, AcceptConn
  <2>3. QED  BY <2>1, <2>2, RespEnqueue
<1>5. CASE OpenServerConn
  <2>1. UNCHANGED rxlen /\ ~Listening  BY <1>5 DEF OpenServerConn
  <2>2. CASE oneTime
    <3>1. PICK c \in Conn : Enqueue(c, ServerFd)  BY <1>5, <2>2 DEF OpenServerConn
    <3>2. c \notin InQueue  BY <2>1, <2>2 DEF IndInv, BacklogInv, InQueue, Range
    <3>3. QED  BY <2>1, <3>1, <3>2, RespEnqueue
  <2>3. CASE ~oneTime
    <3>1. UNCHANGED <<queue, state, resp>>  BY <1>5, <2>3 DEF OpenServerConn
    <3>2. QED  BY <3>1, <2>1, RespKeep
  <2>4. QED  BY <2>2, <2>3
<1>6. CASE FormatError \/ TtyWriteError
  <2>1. PICK n \in {15, 17} : Answer(cur, n)  BY <1>6 DEF FormatError, TtyWriteError
  <2>2. pc = "tty" /\ UNCHANGED queue  BY <1>6 DEF FormatError, TtyWriteError
  <2>3. QED  BY <2>1, <2>2, RespAnswer
<1>7. CASE TtyExchange
  <2>1. pc = "tty" /\ UNCHANGED queue  BY <1>7 DEF TtyExchange
  <2>2. CASE Answer(cur, 7)  BY <2>1, <2>2, RespAnswer
  <2>3. CASE \E n \in AnswerLens : Answer(cur, IF TtyStr THEN 2 * n ELSE n)
    <3>1. PICK n \in AnswerLens : Answer(cur, IF TtyStr THEN 2 * n ELSE n)  BY <2>3
    <3>2. QED  BY <2>1, <3>1, RespAnswer
  <2>4. QED  BY <1>7, <2>2, <2>3 DEF TtyExchange
<1>8. CASE Misdirect
  <2>1. pc = "tty" /\ UNCHANGED queue  BY <1>8 DEF Misdirect
  <2>2. Answer(cur, 7) \/ UNCHANGED <<state, resp, rxlen>>  BY <1>8 DEF Misdirect
  <2>3. QED  BY <2>1, <2>2, RespAnswer, RespKeep
<1>9. CASE \/ Select \/ SelectFails \/ KeepAll \/ NothingToAccept \/ DropConn \/ AcceptFails
           \/ Skip \/ ReadFails \/ ReadRequest \/ EndRound \/ DecodeForever
  <2>1. UNCHANGED <<queue, state, resp, rxlen>>
    BY <1>9 DEF Select, SelectFails, KeepAll, NothingToAccept, DropConn, AcceptFails,
                Skip, ReadFails, ReadRequest, EndRound, DecodeForever
  <2>2. QED  BY <2>1, RespKeep
<1>10. CASE ClientStep \/ UNCHANGED vars
  <2>1. UNCHANGED <<queue, state, resp, rxlen>>  BY <1>10 DEF ClientStep, vars, daemonVars
  <2>2. QED  BY <2>1, RespKeep
<1>11. QED  BY <1>1, <1>2, <1>3, <1>4, <1>5, <1>6, <1>7, <1>8, <1>9, <1>10 DEF Next, DaemonStep

(* When only one connection can be queued, by maxconn 1 or without a       *)
(* listening socket, every answer goes out with the length it was read     *)
(* with, although tty.rxlen is one for all connections (conn.c:517-578).   *)
THEOREM OneConnOwnLength == OneAtATime /\ Spec => AnswersOwnLength
<1>1. Init => RespInv  BY DEF Init, RespInv
<1>2. RespInv => (\A c \in Conn :
        (pc = "walk" /\ cur = c /\ state[c] = "RESP" /\ state'[c] = "HEADER") => rxlen = resp[c])
  BY DEF RespInv
<1>3. CASE OneAtATime
  <2>1. IndInv /\ DescInv /\ RespInv /\ [Next]_vars => RespInv'  BY <1>3, RespNext
  <2>2. Spec => AnswersOwnLength
    BY <1>1, <1>2, <2>1, IndInvariant, DescInvariant, PTL DEF Spec, AnswersOwnLength
  <2>3. QED  BY <2>2
<1>4. QED  BY <1>3
-----------------------------------------------------------------------------
(* The queue is only used the way ConnSeq allows, which ConnQueue          *)
(* implements: nothing is appended twice or in mid walk, and nothing is    *)
(* removed that is not there (conn.c:105, 133, 144-156, 462).              *)
THEOREM QueueUsedRight == Spec => QueueUse
<1> DEFINE Use == \/ queue' = queue
                  \/ pc = "accept" /\ \E c \in Conn \ InQueue : queue' = NewElem(queue, c)
                  \/ pc = "walk" /\ cur \in InQueue /\ queue' = DeleteElem(queue, cur)
                  \/ pc = "expire" /\ pc' = "exit" /\ \E c \in InQueue : queue' = DeleteElem(queue, c)
<1>1. IndInv /\ Next => Use
  <2> SUFFICES ASSUME IndInv, Next PROVE Use  OBVIOUS
  <2>1. CASE Purge
    <3>1. PICK i \in DOMAIN queue : ConnClose(queue[i])  BY <2>1 DEF Purge
    <3>2. queue[i] \in InQueue /\ queue' = DeleteElem(queue, queue[i])
      BY <3>1 DEF ConnClose, InQueue, Range
    <3>3. QED  BY <2>1, <3>2 DEF Purge
  <2>2. CASE ReadEof
    <3>1. PICK c \in Conn : Visit(c, "HEADER") /\ ConnClose(c)  BY <2>2 DEF ReadEof
    <3>2. QED  BY <3>1, VisitLive DEF ConnClose, Visit
  <2>3. CASE SendResponse
    <3>1. PICK c \in Conn : Visit(c, "RESP") /\ SocketSend(c)  BY <2>3 DEF SendResponse
    <3>2. CASE DeliverFails(c)  BY <3>1, <3>2, VisitLive DEF DeliverFails, ConnClose, Visit
    <3>3. CASE Deliver(c) \/ Killed(c)  BY <3>3 DEF Deliver, Killed
    <3>4. QED  BY <3>1, <3>2, <3>3 DEF SocketSend
  <2>4. CASE AcceptConn
    <3>1. PICK c \in backlog, f \in FreeFds : Enqueue(c, f)  BY <2>4 DEF AcceptConn
    <3>2. c \in Conn \ InQueue  BY DEF IndInv, TypeOK, BacklogInv
    <3>3. QED  BY <2>4, <3>1, <3>2 DEF Enqueue, AcceptConn
  <2>5. CASE OpenServerConn
    <3>1. CASE oneTime
      <4>1. PICK c \in Conn : Enqueue(c, ServerFd)  BY <2>5, <3>1 DEF OpenServerConn
      <4>2. c \notin InQueue  BY <2>5, <3>1 DEF OpenServerConn, IndInv, BacklogInv, InQueue, Range
      <4>3. QED  BY <2>5, <4>1, <4>2 DEF Enqueue, OpenServerConn
    <3>2. CASE ~oneTime  BY <2>5, <3>2 DEF OpenServerConn
    <3>3. QED  BY <3>1, <3>2
  <2>6. CASE FormatError \/ DecodeForever \/ TtyWriteError \/ TtyExchange \/ Misdirect
    BY <2>6 DEF FormatError, DecodeForever, TtyWriteError, TtyExchange, Misdirect
  <2>7. CASE \/ Select \/ SelectFails \/ KeepAll \/ NothingToAccept \/ DropConn \/ AcceptFails
             \/ Skip \/ ReadFails \/ ReadRequest \/ EndRound \/ ClientStep
    BY <2>7 DEF Select, SelectFails, KeepAll, NothingToAccept, DropConn, AcceptFails,
                Skip, ReadFails, ReadRequest, EndRound, ClientStep, daemonVars
  <2>8. QED  BY <2>1, <2>2, <2>3, <2>4, <2>5, <2>6, <2>7 DEF Next, DaemonStep
<1>2. QED  BY <1>1, IndInvariant, PTL DEF Spec, QueueUse
-----------------------------------------------------------------------------
(* A round of the loop.                                                    *)

\* Select comes first and has the others left; then the expiry check, accepting, the walk.
PhasesLeft ==
  CASE pc = "expire" -> 3 [] pc = "accept" -> 2 [] pc \in {"walk", "tty"} -> 1 [] OTHER -> 0

\* The steps left in the walk: a visit can lead to the tty and from there to sending an
\* error text in the same visit.
VisitsLeft ==
  CASE pc = "tty" -> 3 * left - 1
    [] pc = "walk" /\ left > 0 /\ state[cur] = "RESP" -> 3 * left - 2
    [] pc = "walk" /\ ~(left > 0 /\ state[cur] = "RESP") -> 3 * left
    [] OTHER -> 0

Fewer == PhasesLeft' < PhasesLeft \/ (PhasesLeft' = PhasesLeft /\ VisitsLeft' < VisitsLeft)

\* Why the daemon comes back to select(): every step of a round leaves it fewer, whatever
\* is closed or accepted on the way and whatever the clients do meanwhile.  The exception
\* is a hexadecimal text too long for the decoder's counter, which it never leaves.
RoundAdvances ==
  /\ [][pc # "select" =>
          \/ ClientStep
          \/ pc' # "decode" /\ Fewer
          \/ pc = "tty" /\ DecodeForever]_vars
  /\ [][pc = "decode" => ClientStep]_vars

VisitsBounded == VisitsLeft \in 0..(3 * MaxConn)

\* The walk has come as far in the queue as it has visited elements.
InStep == pc \in {"walk", "tty"} /\ left > 0 => cur = queue[Len(queue) - left + 1]

\* A walk starts in step and stays so as long as nothing is closed in it: it visits every
\* connection once, in the order in which they came.
WalkInOrder == [][InStep /\ (pc \in {"walk", "tty"} => queue' = queue) => InStep']_vars

\* What the types and WalkInv say of the walk.
LEMMA WalkNumbers ==
  ASSUME IndInv
  PROVE  /\ left \in Nat /\ (pc = "tty" => left > 0)
         /\ pc \in {"walk", "tty"} => left <= Len(queue)
         /\ pc \in {"select", "expire", "accept", "walk", "tty", "decode", "exit"}
         /\ state \in [Conn -> {"HEADER", "RESP"}]
BY DEF IndInv, TypeOK, WalkInv

LEMMA VisitsNat == ASSUME IndInv PROVE VisitsLeft \in Nat /\ PhasesLeft \in Nat
<1>1. VisitsLeft \in Nat  BY WalkNumbers DEF VisitsLeft
<1>2. PhasesLeft \in Nat  BY DEF PhasesLeft
<1>3. QED  BY <1>1, <1>2

\* A visit is over.
LEMMA VisitOver ==
  ASSUME IndInv, pc \in {"walk", "tty"}, left > 0, left' = left - 1, pc' = "walk"
  PROVE  PhasesLeft' = PhasesLeft /\ VisitsLeft' < VisitsLeft /\ pc' # "decode"
<1>1. PhasesLeft' = PhasesLeft  BY DEF PhasesLeft
<1>2. VisitsLeft >= 3 * left - 2 /\ left \in Nat  BY WalkNumbers DEF VisitsLeft
<1>3. VisitsLeft' <= 3 * left - 3  BY <1>2 DEF VisitsLeft
<1>4. VisitsLeft \in Nat /\ VisitsLeft' \in Int  BY <1>2, VisitsNat DEF VisitsLeft
<1>5. QED  BY <1>1, <1>2, <1>3, <1>4

\* The steps of the walk that stay in it.
LEMMA WalkAdvances ==
  ASSUME IndInv, Skip \/ ReadEof \/ ReadRequest \/ SendResponse
  PROVE  Fewer /\ pc' # "decode"
<1> USE DEF Fewer
<1>1. CASE Skip
  <2>1. PICK c \in Conn : (Visit(c, "HEADER") \/ Visit(c, "RESP")) /\ Advance(c)  BY <1>1 DEF Skip
  <2>2. QED  BY <2>1, VisitOver DEF Visit, Advance
<1>2. CASE ReadEof
  <2>1. PICK c \in Conn : Visit(c, "HEADER") /\ AdvanceClosed(c)  BY <1>2 DEF ReadEof
  <2>2. QED  BY <2>1, VisitOver DEF Visit, AdvanceClosed
<1>3. CASE ReadRequest
  <2>1. PICK c \in Conn : Visit(c, "HEADER")  BY <1>3 DEF ReadRequest
  <2>2. pc = "walk" /\ left > 0 /\ state[cur] = "HEADER" /\ left \in Nat  BY <2>1, WalkNumbers DEF Visit
  <2>3. pc' = "tty" /\ left' = left  BY <1>3 DEF ReadRequest
  <2>4. PhasesLeft' = PhasesLeft  BY <2>2, <2>3 DEF PhasesLeft
  <2>5. VisitsLeft = 3 * left /\ VisitsLeft' = 3 * left - 1  BY <2>2, <2>3 DEF VisitsLeft
  <2>6. QED  BY <2>2, <2>3, <2>4, <2>5
<1>4. CASE SendResponse
  <2>1. PICK c \in Conn : Visit(c, "RESP") /\ SocketSend(c)  BY <1>4 DEF SendResponse
  <2>2. CASE Deliver(c)  BY <2>1, <2>2, VisitOver DEF Visit, Deliver, Advance
  <2>3. CASE DeliverFails(c)  BY <2>1, <2>3, VisitOver DEF Visit, DeliverFails, AdvanceClosed
  <2>4. CASE Killed(c)
    <3>1. pc = "walk" /\ pc' = "exit"  BY <2>1, <2>4 DEF Visit, Killed
    <3>2. QED  BY <3>1 DEF PhasesLeft
  <2>5. QED  BY <2>1, <2>2, <2>3, <2>4 DEF SocketSend
<1>5. QED  BY <1>1, <1>2, <1>3, <1>4

\* The steps on the tty.
LEMMA TtyAdvances ==
  ASSUME IndInv, FormatError \/ TtyWriteError \/ TtyExchange \/ Misdirect
  PROVE  Fewer /\ pc' # "decode"
<1> USE DEF Fewer
<1>0. pc = "tty" /\ left > 0 /\ left \in Nat /\ cur \in Conn
  <2>1. pc = "tty"  BY DEF FormatError, TtyWriteError, TtyExchange, Misdirect
  <2>2. left > 0 /\ left \in Nat  BY <2>1, WalkNumbers
  <2>3. cur \in InQueue /\ InQueue \subseteq Conn  BY <2>1, <2>2, QueueIsQueue DEF IndInv, WalkInv
  <2>4. QED  BY <2>1, <2>2, <2>3
<1>1. CASE FormatError \/ TtyWriteError
  <2>1. (\E n : Answer(cur, n)) /\ SendAtOnce(cur)  BY <1>1 DEF FormatError, TtyWriteError
  <2>2. pc' = "walk" /\ left' = left /\ cur' = cur /\ state' = [state EXCEPT ![cur] = "RESP"]
    BY <2>1 DEF Answer, SendAtOnce, ConnSet
  <2>3. state'[cur'] = "RESP"  BY <1>0, <2>2, WalkNumbers
  <2>4. VisitsLeft = 3 * left - 1 /\ VisitsLeft' = 3 * left - 2
    BY <1>0, <2>2, <2>3 DEF VisitsLeft
  <2>5. PhasesLeft' = PhasesLeft  BY <1>0, <2>2 DEF PhasesLeft
  <2>6. QED  BY <1>0, <2>2, <2>4, <2>5
<1>2. CASE TtyExchange  BY <1>0, <1>2, VisitOver DEF TtyExchange, Advance
<1>3. CASE Misdirect
  <2>1. CASE pc' = "exit"  BY <1>0, <2>1 DEF PhasesLeft
  <2>2. CASE Advance(cur)  BY <1>0, <2>2, VisitOver DEF Advance
  <2>3. QED  BY <1>3, <2>1, <2>2 DEF Misdirect
<1>4. QED  BY <1>1, <1>2, <1>3

(* A round of conn_loop() (conn.c:390-592) ends: from select() it takes at *)
(* most 3 * maxconn + 4 steps back to select(), or the daemon ends, or it  *)
(* is in the decoder for good, where only hexadecimal text of 254 or 256   *)
(* digits gets it (conn.c:528).                                            *)
THEOREM RoundsEnd == Spec => []VisitsBounded /\ RoundAdvances
<1>1. ASSUME IndInv, DescInv PROVE VisitsBounded
  <2>1. Len(queue) <= MaxConn /\ Len(queue) \in Nat /\ MaxConn \in Nat
    BY <1>1, QueueIsQueue, LimitAssumption DEF DescInv, SelectSafe, IndInv
  <2>2. QED  BY <1>1, <2>1, WalkNumbers DEF VisitsLeft, VisitsBounded
<1>2. ASSUME IndInv, Next, pc # "select", ~ClientStep, ~DecodeForever
      PROVE  pc' # "decode" /\ Fewer
  <2>1. CASE KeepAll \/ Purge
    <3>1. pc = "expire" /\ pc' \in {"accept", "exit"}  BY <2>1 DEF KeepAll, Purge
    <3>2. QED  BY <3>1 DEF PhasesLeft, Fewer
  <2>2. CASE NothingToAccept \/ AcceptConn \/ DropConn \/ AcceptFails \/ OpenServerConn
    <3>1. pc = "accept" /\ \E q : BeginWalk(q)
      BY <2>2, Zenon DEF NothingToAccept, AcceptConn, DropConn, AcceptFails, OpenServerConn
    <3>2. pc' \in {"select", "walk"}  BY <3>1 DEF BeginWalk
    <3>3. QED  BY <3>1, <3>2 DEF PhasesLeft, Fewer
  <2>3. CASE ReadFails \/ EndRound
    <3>1. pc = "walk" /\ pc' = "select"  BY <2>3 DEF ReadFails, EndRound, NextRound, Visit
    <3>2. QED  BY <3>1 DEF PhasesLeft, Fewer
  <2>4. ~Select /\ ~SelectFails  BY <1>2, Zenon DEF Select, SelectFails
  <2>5. QED
    BY <1>2, <2>1, <2>2, <2>3, <2>4, WalkAdvances, TtyAdvances DEF Next, DaemonStep
<1>3. IndInv /\ [Next]_vars =>
        [pc # "select" =>
           \/ ClientStep
           \/ pc' # "decode" /\ Fewer
           \/ pc = "tty" /\ DecodeForever]_vars
  BY <1>2 DEF DecodeForever
<1>4. [Next]_vars => [pc = "decode" => ClientStep]_vars
  <2>1. ASSUME pc = "decode", DaemonStep PROVE FALSE
    BY <2>1 DEF DaemonStep, Select, SelectFails, KeepAll, Purge, NothingToAccept, AcceptConn, DropConn,
      AcceptFails, OpenServerConn, Skip, ReadFails, ReadEof, ReadRequest, SendResponse, EndRound, Visit,
      FormatError, DecodeForever, TtyWriteError, TtyExchange, Misdirect
  <2>2. QED  BY <2>1 DEF Next
<1>5. QED  BY <1>1, <1>3, <1>4, IndInvariant, DescInvariant, PTL DEF Spec, RoundAdvances
-----------------------------------------------------------------------------
(* The order of the visits.                                                *)

LEMMA AdvanceInStep ==
  ASSUME IndInv, InStep, pc \in {"walk", "tty"}, left > 0, Advance(cur), queue' = queue
  PROVE  InStep'
<1> SUFFICES ASSUME left' > 0 PROVE cur' = queue[Len(queue) - left' + 1]  BY DEF InStep
<1> DEFINE i == Len(queue) - left + 1
<1>1. queue \in Queues(Conn) /\ Len(queue) \in Nat  BY QueueIsQueue DEF IndInv
<1>2. left' = left - 1 /\ left \in Nat /\ left <= Len(queue) /\ cur = queue[i]
  BY WalkNumbers DEF Advance, InStep
<1>3. i \in 1..(Len(queue) - 1) /\ Len(queue) - left' + 1 = i + 1  BY <1>1, <1>2
<1>4. cur' = NextElem(queue, cur)  BY DEF Advance
<1> HIDE DEF i
<1>5. NextElem(queue, queue[i]) = queue[i + 1]  BY <1>1, <1>3, NextElemAt
<1>6. QED  BY <1>2, <1>3, <1>4, <1>5

\* Closing takes an element from the queue.
LEMMA CloseChanges ==
  ASSUME IndInv, NEW c \in InQueue, ConnClose(c)
  PROVE  queue' # queue
<1>1. Len(queue') = Len(queue) - 1 /\ Len(queue) \in Nat  BY CloseQueue, QueueIsQueue DEF IndInv
<1>2. QED  BY <1>1

(* The walk of conn.c:478-590 visits the connections in the order in which *)
(* they came and passes none over, unless one is closed on the way: the    *)
(* walk then goes on behind the next one.                                  *)
THEOREM WalksInOrder == Spec => WalkInOrder
<1>1. ASSUME IndInv, Next, InStep, pc \in {"walk", "tty"} => queue' = queue, pc' \in {"walk", "tty"}
      PROVE  InStep'
  <2>1. CASE NothingToAccept \/ AcceptConn \/ DropConn \/ AcceptFails \/ OpenServerConn
    <3>1. BeginWalk(queue')
      BY <2>1, Zenon DEF NothingToAccept, AcceptConn, DropConn, AcceptFails, OpenServerConn
    <3>2. left' = Len(queue') /\ cur' = (IF queue' = <<>> THEN NoConn ELSE Head(queue'))
      BY <1>1, <3>1 DEF BeginWalk
    <3>3. queue' \in Seq(Conn)  BY <1>1, NextInd DEF IndInv, TypeOK
    <3>4. ASSUME left' > 0 PROVE cur' = queue'[1] /\ Len(queue') - left' + 1 = 1
      BY <3>2, <3>3, <3>4
    <3>5. QED  BY <3>4 DEF InStep
  <2>2. CASE Skip
    <3>1. PICK c \in Conn : (Visit(c, "HEADER") \/ Visit(c, "RESP")) /\ Advance(c)  BY <2>2 DEF Skip
    <3>2. pc = "walk" /\ left > 0 /\ Advance(cur)  BY <3>1 DEF Visit
    <3>3. QED  BY <1>1, <3>2, AdvanceInStep
  <2>3. CASE ReadEof
    <3>1. PICK c \in Conn : Visit(c, "HEADER") /\ ConnClose(c)  BY <2>3 DEF ReadEof
    <3>2. QED  BY <1>1, <3>1, VisitLive, CloseChanges
  <2>4. CASE SendResponse
    <3>1. PICK c \in Conn : Visit(c, "RESP") /\ SocketSend(c)  BY <2>4 DEF SendResponse
    <3>2. pc = "walk" /\ left > 0 /\ cur = c /\ c \in InQueue  BY <1>1, <3>1, VisitLive
    <3>3. CASE Deliver(c)  BY <1>1, <3>2, <3>3, AdvanceInStep DEF Deliver
    <3>4. CASE DeliverFails(c)  BY <1>1, <3>2, <3>4, CloseChanges DEF DeliverFails
    <3>5. CASE Killed(c)  BY <1>1, <3>5 DEF Killed
    <3>6. QED  BY <3>1, <3>3, <3>4, <3>5 DEF SocketSend
  <2>5. CASE TtyExchange \/ Misdirect
    <3>1. pc = "tty" /\ Advance(cur)  BY <1>1, <2>5 DEF TtyExchange, Misdirect
    <3>2. left > 0  BY <1>1, <3>1, WalkNumbers
    <3>3. QED  BY <1>1, <3>1, <3>2, AdvanceInStep
  <2>6. CASE ReadRequest \/ FormatError \/ TtyWriteError \/ ClientStep
    <3>1. UNCHANGED <<queue, cur, left>> /\ pc \in {"walk", "tty"}
      BY <1>1, <2>6 DEF ReadRequest, Visit, FormatError, TtyWriteError, SendAtOnce, ClientStep, daemonVars
    <3>2. QED  BY <1>1, <3>1 DEF InStep
  <2>7. CASE Select \/ SelectFails \/ KeepAll \/ Purge \/ ReadFails \/ EndRound \/ DecodeForever
    BY <1>1, <2>7 DEF DecodeForever, Select, SelectFails, KeepAll, Purge, ReadFails, EndRound, NextRound
  <2>8. QED
    BY <1>1, <2>1, <2>2, <2>3, <2>4, <2>5, <2>6, <2>7, Zenon DEF Next, DaemonStep
<1>2. ASSUME pc' \notin {"walk", "tty"} PROVE InStep'  BY <1>2 DEF InStep
<1>3. IndInv /\ [Next]_vars =>
        [InStep /\ (pc \in {"walk", "tty"} => queue' = queue) => InStep']_vars
  BY <1>1, <1>2
<1>4. QED  BY <1>3, IndInvariant, PTL DEF Spec, WalkInOrder
-----------------------------------------------------------------------------
(* The loss of server_sd.                                                  *)

\* With "tcpc" and "udp", once server_sd is closed with the only connection, it stays so,
\* and the daemon has two steps left: the end of the walk and the failing select().
LossIsEnd ==
  [][fdtab[ServerFd] = "Free" =>
       /\ fdtab'[ServerFd] = "Free"
       /\ ClientStep \/ <<pc, pc'>> \in {<<"walk", "select">>, <<"select", "exit">>}]_vars

\* server_sd is in one place, stays open while it listens, and takes the queue with it.
ServerInv ==
  /\ \A f \in Fd : fdtab[f] = "Server" => f = ServerFd
  /\ Listening => fdtab[ServerFd] = "Server"
  /\ fdtab[ServerFd] = "Free" => queue = <<>> /\ pc \in {"walk", "select", "exit"}

LEMMA ServerInit == Init => ServerInv
<1>1. ServerFd \in Fd /\ TtyFd # ServerFd  BY LimitAssumption DEF ServerFd, TtyFd, Fd
<1>2. QED  BY <1>1 DEF Init, ServerInv

\* A step that leaves the descriptors alone.
LEMMA ServerKeep ==
  ASSUME ServerInv, fdtab' = fdtab, fdtab[ServerFd] # "Free"
  PROVE  ServerInv'
BY DEF ServerInv

\* Closing a connection: when server_sd goes, so does the only element.
LEMMA ServerClose ==
  ASSUME IndInv, DescInv, ServerInv, NEW c \in InQueue, ConnClose(c), pc' \in {"walk", "exit"}
  PROVE  ServerInv'
<1>1. /\ fdtab' = [fdtab EXCEPT ![sd[c]] = "Free"] /\ c \in Conn /\ sd[c] \in Fd
      /\ fdtab \in [Fd -> Conn \cup {"Free", "Tty", "Server"}]
      /\ fdtab[sd[c]] = IF Listening THEN c ELSE "Server"
  BY QueueIsQueue DEF ConnClose, IndInv, TypeOK, DescInv, DescriptorsConserved
<1>2. \A f \in Fd : fdtab'[f] = "Server" => f = ServerFd  BY <1>1 DEF ServerInv
<1>3. CASE Listening
  <2>1. sd[c] # ServerFd  BY <1>1, <1>3, ConnAssumption DEF ServerInv
  <2>2. fdtab'[ServerFd] = "Server"
    BY <1>1, <1>3, <2>1, LimitAssumption DEF ServerInv, ServerFd, Fd
  <2>3. QED  BY <1>2, <2>2 DEF ServerInv
<1>4. CASE ~Listening
  <2>1. /\ queue \in Queues(Conn) /\ Len(queue) \in Nat /\ InQueue \subseteq Conn
        /\ queue' \in Seq(Conn) /\ InQueue' = InQueue \ {c}
    BY QueueIsQueue, CloseQueue DEF IndInv
  <2>2. InQueue' = {}  BY <1>1, <1>4, <2>1, ConnAssumption
  <2>3. queue' = <<>>
    <3>1. queue' \in Queues(Conn)  BY <2>1, CloseQueue DEF IndInv, Queues
    <3>2. queue' # <<>> => Head(queue') \in Range(queue')  BY <3>1, HeadQueue
    <3>3. Range(queue') = {}  BY <2>2 DEF InQueue
    <3>4. QED  BY <3>2, <3>3
  <2>4. QED  BY <1>2, <1>4, <2>3 DEF ServerInv
<1>5. QED  BY <1>3, <1>4

\* Once server_sd is lost only the client acts, or the walk ends, or select() fails.
LEMMA LostSteps ==
  ASSUME IndInv, ServerInv, DaemonStep, fdtab[ServerFd] = "Free"
  PROVE  (EndRound /\ pc = "walk") \/ (SelectFails /\ pc = "select")
<1>1. queue = <<>> /\ pc \in {"walk", "select", "exit"}  BY DEF ServerInv
<1>2. pc = "walk" => left = 0
  <2>1. Len(queue) = 0  BY <1>1
  <2>2. QED  BY <2>1, WalkNumbers
<1>3. \A c, t : ~Visit(c, t)  BY <1>2 DEF Visit
<1>4. ~Skip /\ ~ReadFails /\ ~ReadEof /\ ~ReadRequest /\ ~SendResponse
  BY <1>3 DEF Skip, ReadFails, ReadEof, ReadRequest, SendResponse
<1>5. ~KeepAll /\ ~Purge  BY <1>1 DEF KeepAll, Purge
<1>6. ~NothingToAccept /\ ~AcceptConn /\ ~DropConn /\ ~AcceptFails /\ ~OpenServerConn
  BY <1>1 DEF NothingToAccept, AcceptConn, DropConn, AcceptFails, OpenServerConn
<1>7. ~FormatError /\ ~DecodeForever /\ ~TtyWriteError /\ ~TtyExchange /\ ~Misdirect
  BY <1>1 DEF FormatError, DecodeForever, TtyWriteError, TtyExchange, Misdirect
<1>8. ~Select  BY DEF Select
<1>9. EndRound => pc = "walk"  BY DEF EndRound
<1>10. SelectFails => pc = "select"  BY DEF SelectFails
<1>11. QED
  BY Zenon, <1>4, <1>5, <1>6, <1>7, <1>8, <1>9, <1>10 DEF DaemonStep

LEMMA ServerNext == IndInv /\ DescInv /\ ServerInv /\ [Next]_vars => ServerInv'
<1> SUFFICES ASSUME IndInv, DescInv, ServerInv, [Next]_vars PROVE ServerInv'  OBVIOUS
<1>1. CASE ClientStep \/ UNCHANGED vars
  <2>1. UNCHANGED <<fdtab, queue, pc>>  BY <1>1 DEF ClientStep, vars, daemonVars
  <2>2. QED  BY <2>1 DEF ServerInv
<1>2. CASE DaemonStep /\ fdtab[ServerFd] = "Free"
  <2>1. EndRound \/ SelectFails  BY <1>2, LostSteps
  <2>2. UNCHANGED <<fdtab, queue>> /\ pc' \in {"select", "exit"}
    BY <2>1 DEF EndRound, SelectFails, NextRound
  <2>3. QED  BY <2>2 DEF ServerInv
<1>3. CASE DaemonStep /\ fdtab[ServerFd] # "Free"
  <2>1. CASE Purge
    <3>1. PICK i \in DOMAIN queue : ConnClose(queue[i])  BY <2>1 DEF Purge
    <3>2. queue[i] \in InQueue /\ pc' = "exit"  BY <2>1 DEF InQueue, Range, Purge
    <3>3. QED  BY <3>1, <3>2, ServerClose
  <2>2. CASE ReadEof
    <3>1. PICK c \in Conn : Visit(c, "HEADER") /\ ConnClose(c) /\ pc' = "walk"
      BY <2>2 DEF ReadEof, AdvanceClosed
    <3>2. QED  BY <3>1, VisitLive, ServerClose
  <2>3. CASE SendResponse
    <3>1. PICK c \in Conn : Visit(c, "RESP") /\ SocketSend(c)  BY <2>3 DEF SendResponse
    <3>2. CASE DeliverFails(c)
      BY <3>1, <3>2, VisitLive, ServerClose DEF DeliverFails, AdvanceClosed
    <3>3. CASE Deliver(c) \/ Killed(c)
      <4>1. fdtab' = fdtab  BY <3>3 DEF Deliver, Killed
      <4>2. QED  BY <4>1, <1>3, ServerKeep
    <3>4. QED  BY <3>1, <3>2, <3>3 DEF SocketSend
  <2>4. CASE AcceptConn
    <3>1. PICK c \in backlog, f \in FreeFds : fdtab' = [fdtab EXCEPT ![f] = c]
      BY <2>4 DEF AcceptConn
    <3>2. /\ c \in Conn /\ f \in Fd /\ fdtab[f] = "Free" /\ f # ServerFd /\ c # "Server"
          /\ fdtab \in [Fd -> Conn \cup {"Free", "Tty", "Server"}]
      BY <1>3, ConnAssumption DEF FreeFds, IndInv, TypeOK
    <3>3. ServerFd \in Fd  BY LimitAssumption DEF ServerFd, Fd
    <3>4. fdtab'[ServerFd] = fdtab[ServerFd] /\ \A g \in Fd : fdtab'[g] = "Server" => fdtab[g] = "Server"
      BY <3>1, <3>2, <3>3
    <3>5. QED  BY <3>4, <1>3 DEF ServerInv
  <2>5. CASE TtyWriteError
    <3>1. /\ fdtab' = [fdtab EXCEPT ![TtyFd] = "Free"]
          /\ fdtab \in [Fd -> Conn \cup {"Free", "Tty", "Server"}]
      BY <2>5 DEF TtyWriteError, IndInv, TypeOK
    <3>2. ServerFd \in Fd /\ TtyFd # ServerFd  BY LimitAssumption DEF ServerFd, TtyFd, Fd
    <3>3. fdtab'[ServerFd] = fdtab[ServerFd] /\ \A g \in Fd : fdtab'[g] = "Server" => fdtab[g] = "Server"
      BY <3>1, <3>2
    <3>4. QED  BY <3>3, <1>3 DEF ServerInv
  <2>6. CASE \/ Select \/ SelectFails \/ KeepAll \/ NothingToAccept \/ DropConn \/ AcceptFails
             \/ OpenServerConn \/ Skip \/ ReadFails \/ ReadRequest \/ EndRound
             \/ FormatError \/ DecodeForever \/ TtyExchange \/ Misdirect
    <3>1. fdtab' = fdtab
      BY <2>6, Zenon DEF Select, SelectFails, KeepAll, NothingToAccept, DropConn, AcceptFails,
        OpenServerConn, Skip, ReadFails, ReadRequest, EndRound, FormatError, DecodeForever, TtyExchange, Misdirect
    <3>2. QED  BY <3>1, <1>3, ServerKeep
  <2>7. QED  BY Zenon, <1>3, <2>1, <2>2, <2>3, <2>4, <2>5, <2>6 DEF DaemonStep
<1>4. QED  BY <1>1, <1>2, <1>3, Zenon DEF Next

(* A daemon that lost server_sd with its only connection does not idle     *)
(* with the dead descriptor, nor does anything take its number: two steps  *)
(* later it ends.  It is the part of LostServerEnds that does not depend   *)
(* on fairness (conn.c:104-111, 149, 428-436).                             *)
THEOREM LostServerLeaves == Spec => LossIsEnd
<1>1. ASSUME IndInv, ServerInv, Next, fdtab[ServerFd] = "Free"
      PROVE  /\ fdtab'[ServerFd] = "Free"
             /\ ClientStep \/ <<pc, pc'>> \in {<<"walk", "select">>, <<"select", "exit">>}
  <2>1. CASE ClientStep
    <3>1. fdtab' = fdtab  BY <2>1 DEF ClientStep, daemonVars
    <3>2. QED  BY <1>1, <2>1, <3>1
  <2>2. CASE DaemonStep
    <3>1. CASE EndRound /\ pc = "walk"
      <4>1. fdtab' = fdtab /\ pc' = "select"  BY <3>1 DEF EndRound, NextRound
      <4>2. QED  BY <1>1, <3>1, <4>1
    <3>2. CASE SelectFails /\ pc = "select"
      <4>1. fdtab' = fdtab /\ pc' = "exit"  BY <3>2 DEF SelectFails
      <4>2. QED  BY <1>1, <3>2, <4>1
    <3>3. QED  BY <1>1, <2>2, <3>1, <3>2, LostSteps
  <2>3. QED  BY <1>1, <2>1, <2>2 DEF Next
<1>2. IndInv /\ ServerInv /\ [Next]_vars =>
        [fdtab[ServerFd] = "Free" =>
           /\ fdtab'[ServerFd] = "Free"
           /\ ClientStep \/ <<pc, pc'>> \in {<<"walk", "select">>, <<"select", "exit">>}]_vars
  BY <1>1
<1>3. QED  BY <1>2, ServerInit, ServerNext, IndInvariant, DescInvariant, PTL DEF Spec, LossIsEnd
=============================================================================
