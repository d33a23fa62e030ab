-------------------------- MODULE MqttBridgeProofs --------------------------
(***************************************************************************)
(* Proofs about mqtt_loop(), for every set of requests and every bound:    *)
(* what the loop promises of its answers, its attempts to reconnect and    *)
(* the lock, and that it implements Gateway.                               *)
(***************************************************************************)
EXTENDS MqttBridge, TLAPS

Handling == {"decode", "write", "read", "publish"}

\* The request in hand, and what pubmsg holds for it.
HandInv ==
  /\ (cur = NoRequest) = (pc \notin Handling)
  /\ pc \in {"write", "read"} => cur \notin TooLong /\ ~Odd(cur) /\ ~Endless(cur)
  /\ pc = "decode" => Endless(cur)
  /\ pc = "publish" => payload \in Fitting(cur)

\* What was read was asked for, under the lock.
LineInv ==
  /\ pc = "read" /\ fd \in open => cur \in reached
  /\ pc = "publish" /\ payload = "data" => cur \in reached
  /\ DataReached

\* The counter never lags behind the attempts that failed.
CountInv ==
  /\ connected => tries = 0
  /\ pc = "connect" => ~connected /\ tries <= autoconntime
  /\ pc = "connect" /\ autoconntime # 0 => tries < autoconntime
  /\ pc \in {"open", "receive"} \cup Handling => tries <= autoconntime
  /\ pc \notin {"close", "ended"} => autoconntime <= MaxTime
  /\ TriesBounded

IndInv == TypeOK /\ HandInv /\ LineInv /\ CountInv

-----------------------------------------------------------------------------
LEMMA TypeInit == Init => TypeOK
<1> SUFFICES ASSUME Init PROVE TypeOK  OBVIOUS
<1>1. FlagsOK  BY Zenon DEF Init, FlagsOK
<1>2. <<>> \in Seq(Request) /\ <<>> \in Seq([request : Request, reply : Reply])  OBVIOUS
<1>3. QED  BY <1>1, <1>2, RequestAssumption DEF Init, TypeOK

\* The flags of the connection, apart from the rest of TypeOK.
LEMMA FlagsNext == FlagsOK /\ [Next]_vars => FlagsOK'
<1> SUFFICES ASSUME FlagsOK, [Next]_vars PROVE FlagsOK'  OBVIOUS
<1>1. CASE Connect  BY <1>1, Zenon DEF FlagsOK, Connect, outside
<1>2. CASE SubscribeOpen \/ Publish
  <2>1. connected' \in BOOLEAN
    BY <1>2, Zenon DEF FlagsOK, SubscribeOpen, Publish, MayNotice
  <2>2. subscribed' \in BOOLEAN /\ link' = link /\ broker' = broker
    BY <1>2, Zenon DEF FlagsOK, SubscribeOpen, Publish, outside
  <2>3. QED  BY <2>1, <2>2, Zenon DEF FlagsOK
<1>3. CASE ReceiveMessage  BY <1>3, Zenon DEF FlagsOK, ReceiveMessage, outside
<1>4. CASE ReceiveError  BY <1>4, Zenon DEF FlagsOK, ReceiveError, outside
<1>5. CASE Disconnected  BY <1>5, Zenon DEF FlagsOK, Disconnected, outside
<1>6. CASE Send  BY <1>6, Zenon DEF FlagsOK, Send
<1>7. CASE Break  BY <1>7, Zenon DEF FlagsOK, Break
<1>8. CASE BrokerBack  BY <1>8, Zenon DEF FlagsOK, BrokerBack, session
<1>9. CASE ConnectFails \/ ReceiveNothing \/ TtyWrite \/ TtyRead \/ Close \/ OtherLocks \/ UNCHANGED vars
  <2>1. UNCHANGED <<link, connected, subscribed, broker>>
    BY <1>9, Zenon DEF ConnectFails, ReceiveNothing, TtyWrite, TtyRead, Close, OtherLocks, vars,
      session, outside
  <2>2. QED  BY <2>1, Zenon DEF FlagsOK
<1>10. QED
  BY <1>1, <1>2, <1>3, <1>4, <1>5, <1>6, <1>7, <1>8, <1>9, Zenon DEF Next, Bridge, World

LEMMA TypeNext == IndInv /\ [Next]_vars => TypeOK'
<1> SUFFICES ASSUME TypeOK, HandInv, CountInv, [Next]_vars PROVE TypeOK'  BY DEF IndInv
<1> USE RequestAssumption
<1>0. FlagsOK'  BY FlagsNext DEF TypeOK
<1>1. CASE Connect  BY <1>0, <1>1 DEF TypeOK, Connect, tty, outside
<1>2. CASE ConnectFails  BY <1>0, <1>2 DEF TypeOK, ConnectFails, tty, session, outside
<1>3. CASE SubscribeOpen
  <2>0. /\ open \subseteq Fd /\ lock \in open \cup {Unlocked, Other} /\ lock' = lock
        /\ \/ fd' \in Fd \ open /\ open' = open \cup {fd'}
           \/ fd' = NoFd /\ open' = open
    BY <1>3 DEF TypeOK, SubscribeOpen
  <2>1. fd' \in Fd \cup {NoFd} /\ open' \subseteq Fd /\ lock' \in open' \cup {Unlocked, Other}
    BY <2>0, Zenon
  <2>3. QED  BY <1>0, <1>3, <2>1 DEF TypeOK, SubscribeOpen, client, outside
<1>4. CASE ReceiveMessage
  <2>0. inbox \in Seq(Request) /\ inbox # <<>> /\ cur' = Head(inbox) /\ inbox' = Tail(inbox)
    BY <1>4 DEF TypeOK, ReceiveMessage
  <2>1. cur' \in Request /\ inbox' \in Seq(Request)  BY <2>0
  <2>2. payload' \in Reply \cup {"none"} /\ pc' \in {"publish", "write", "decode"}
    BY <1>4 DEF TypeOK, ReceiveMessage, Reply
  <2>3. UNCHANGED <<tty, outside, answers, tries>> /\ autoconntime' = 0
    BY <1>4 DEF ReceiveMessage
  <2>4. QED  BY <1>0, <2>1, <2>2, <2>3 DEF TypeOK, tty, outside
<1>5. CASE ReceiveNothing  BY <1>0, <1>5 DEF TypeOK, ReceiveNothing, tty, session, outside
<1>6. CASE ReceiveError  BY <1>0, <1>6 DEF TypeOK, ReceiveError, tty, outside
<1>7. CASE Disconnected
  <2>0. autoconntime \in 0..MaxTime
    BY <1>7 DEF TypeOK, CountInv, Disconnected
  <2>1. autoconntime' \in 0..(MaxTime + 1) /\ pc' \in {"close", "connect"}
    BY <2>0, <1>7 DEF Disconnected
  <2>2. QED  BY <1>0, <1>7, <2>1 DEF TypeOK, Disconnected, tty, outside
<1>8. CASE TtyWrite
  <2>1. lock' \in open' \cup {Unlocked, Other} /\ open' \subseteq Fd
    <3>0. open \subseteq Fd /\ lock \in open \cup {Unlocked, Other}  BY DEF TypeOK
    <3>1. CASE CanLock
      <4>1. fd \in open /\ lock' = fd /\ open' = open  BY <1>8, <3>1 DEF TtyWrite, CanLock
      <4>2. QED  BY <4>1, <3>0
    <3>2. CASE ~CanLock
      <4>1. open' = open \ {fd} /\ lock' = lock  BY <1>8, <3>2 DEF TtyWrite
      <4>2. fd \in open => lock # fd  BY <3>2 DEF CanLock
      <4>3. QED  BY <4>1, <4>2, <3>0
    <3>3. QED  BY <3>1, <3>2
  <2>2. reached' \subseteq Request
    <3>1. cur \in Request /\ reached \subseteq Request  BY <1>8 DEF TypeOK, HandInv, Handling, TtyWrite
    <3>2. QED  BY <1>0, <1>8, <3>1 DEF TtyWrite
  <2>3. QED  BY <1>0, <1>8, <2>1, <2>2 DEF TypeOK, TtyWrite, client, session, outside
<1>9. CASE TtyRead  BY <1>0, <1>9 DEF TypeOK, TtyRead, Reply, client, tty, session, outside
<1>10. CASE Publish
  <2>0. /\ cur \in Request /\ payload \in Reply
        /\ answers \in Seq([request : Request, reply : Reply])
    BY <1>10 DEF TypeOK, HandInv, Handling, Publish, Fitting, Reply
  <2>1. answers' = answers \/ answers' = Append(answers, [request |-> cur, reply |-> payload])
    BY <1>10, Zenon DEF Publish
  <2>2. answers' \in Seq([request : Request, reply : Reply])
    <3> DEFINE A == [request : Request, reply : Reply]
    <3>1. [request |-> cur, reply |-> payload] \in A  BY <2>0
    <3>2. answers \in Seq(A)  BY <2>0
    <3> HIDE DEF A
    <3>3. answers' \in Seq(A)  BY <2>1, <3>1, <3>2
    <3>4. QED  BY <3>3 DEF A
  <2>3. QED  BY <1>0, <1>10, <2>2 DEF TypeOK, Publish, client, tty, outside
<1>11. CASE Close  BY <1>0, <1>11 DEF TypeOK, Close, client, session, outside
<1>12. CASE Send
  <2>1. inbox' \in Seq(Request) /\ sent' \subseteq Request  BY <1>12 DEF TypeOK, Send
  <2>2. QED  BY <1>0, <1>12, <2>1 DEF TypeOK, Send, client, tty
<1>13. CASE Break  BY <1>0, <1>13 DEF TypeOK, Break, client, tty
<1>14. CASE BrokerBack  BY <1>0, <1>14 DEF TypeOK, BrokerBack, client, tty, session
<1>15. CASE OtherLocks  BY <1>0, <1>15 DEF TypeOK, OtherLocks, client, session, outside
<1>16. CASE UNCHANGED vars  BY <1>0, <1>16 DEF TypeOK, vars, client, tty, session, outside
<1>17. QED
  BY <1>1, <1>2, <1>3, <1>4, <1>5, <1>6, <1>7, <1>8, <1>9, <1>10, <1>11, <1>12, <1>13, <1>14,
     <1>15, <1>16 DEF Next, Bridge, World

-----------------------------------------------------------------------------
\* The replies that fit, case by case.
LEMMA FittingIs ==
  ASSUME NEW r
  PROVE  /\ r \in TooLong => Fitting(r) = {"out len"}
         /\ r \notin TooLong /\ Odd(r) => Fitting(r) = {"data format error"}
         /\ r \notin TooLong /\ ~Odd(r) /\ ~Endless(r) => Fitting(r) = {"data", "no data"}
<1>1. Endless(r) => r \notin TooLong /\ ~Odd(r)  BY RequestAssumption DEF Endless, Odd
<1>2. QED  BY <1>1, Zenon DEF Fitting

LEMMA HandNext == IndInv /\ [Next]_vars => HandInv'
<1> SUFFICES ASSUME TypeOK, HandInv, [Next]_vars PROVE HandInv'  BY DEF IndInv
<1> USE RequestAssumption DEF Handling
<1>1. CASE ReceiveMessage
  <2>1. cur' \in Request /\ cur' # NoRequest
    <3>1. inbox \in Seq(Request) /\ inbox # <<>> /\ cur' = Head(inbox)
      BY <1>1 DEF TypeOK, ReceiveMessage
    <3>2. QED  BY <3>1
  <2> DEFINE r == cur'
  <2>2. CASE r \in TooLong
    <3>1. payload' = "out len" /\ pc' = "publish"  BY <1>1, <2>2 DEF ReceiveMessage, Endless
    <3>2. payload' \in Fitting(r)  BY <2>2, <3>1, FittingIs
    <3>3. QED  BY <2>1, <3>1, <3>2 DEF HandInv, Fitting, Odd, Endless
  <2>3. CASE r \notin TooLong /\ Odd(r)
    <3>1. payload' = "data format error" /\ pc' = "publish"
      BY <1>1, <2>3 DEF ReceiveMessage, Odd, Endless
    <3>2. payload' \in Fitting(r)  BY <2>3, <3>1, FittingIs
    <3>3. QED  BY <2>1, <3>1, <3>2 DEF HandInv, Fitting, Odd, Endless
  <2>4. CASE Endless(r)
    <3>0. r \notin TooLong /\ ~Odd(r)  BY <2>4 DEF Odd, Endless
    <3>1. pc' = "decode"  BY <1>1, <2>4, <3>0 DEF ReceiveMessage
    <3>2. QED  BY <2>1, <2>4, <3>1 DEF HandInv, Endless
  <2>5. CASE r \notin TooLong /\ ~Odd(r) /\ ~Endless(r)
    <3>1. pc' = "write"  BY <1>1, <2>5 DEF ReceiveMessage
    <3>2. QED  BY <2>1, <2>5, <3>1 DEF HandInv, Odd, Endless
  <2>6. QED  BY <2>2, <2>3, <2>4, <2>5
<1>2. CASE TtyWrite  BY <1>2 DEF HandInv, TtyWrite, Odd, Endless
<1>3. CASE TtyRead
  <2>1. pc = "read" /\ pc' = "publish" /\ cur' = cur /\ payload' \in {"data", "no data"}
    BY <1>3 DEF TtyRead
  <2>2. cur \notin TooLong /\ ~Odd(cur) /\ ~Endless(cur) /\ cur # NoRequest  BY <2>1 DEF HandInv
  <2>3. payload' \in Fitting(cur)  BY <2>1, <2>2, FittingIs
  <2>4. QED  BY <2>1, <2>2, <2>3 DEF HandInv, Fitting, Odd, Endless
<1>4. CASE Publish  BY <1>4 DEF HandInv, Publish
<1>5. CASE \/ Connect \/ ConnectFails \/ SubscribeOpen \/ ReceiveNothing \/ ReceiveError
           \/ Disconnected \/ Close
  <2>1. cur' = cur /\ pc \notin Handling /\ pc' \notin Handling
    BY <1>5 DEF Connect, ConnectFails, SubscribeOpen, ReceiveNothing, ReceiveError, Disconnected, Close
  <2>2. QED  BY <2>1 DEF HandInv
<1>6. CASE World \/ UNCHANGED vars
  <2>1. UNCHANGED <<pc, cur, payload>>  BY <1>6 DEF World, Send, Break, BrokerBack, OtherLocks, vars
  <2>2. QED  BY <2>1 DEF HandInv, Fitting, Odd, Endless
<1>7. QED  BY <1>1, <1>2, <1>3, <1>4, <1>5, <1>6 DEF Next, Bridge

LEMMA LineNext == IndInv /\ [Next]_vars => LineInv'
<1> SUFFICES ASSUME TypeOK, HandInv, LineInv, [Next]_vars PROVE LineInv'  BY DEF IndInv
<1>1. CASE ReceiveMessage
  <2>1. pc' \in {"write", "decode"} \/ (pc' = "publish" /\ payload' # "data")  BY <1>1 DEF ReceiveMessage
  <2>2. UNCHANGED <<answers, reached>>  BY <1>1 DEF ReceiveMessage, tty
  <2>3. QED  BY <2>1, <2>2 DEF LineInv, DataReached
<1>2. CASE TtyWrite
  <2>1. pc' = "read" /\ UNCHANGED <<answers, fd, cur>> /\ reached \subseteq reached'
    BY <1>2 DEF TtyWrite
  <2>2. fd \in open' => cur \in reached'  BY <1>2 DEF TtyWrite
  <2>3. DataReached'  BY <2>1 DEF LineInv, DataReached
  <2>4. QED  BY <2>1, <2>2, <2>3 DEF LineInv
<1>3. CASE TtyRead
  <2>1. pc = "read" /\ pc' = "publish" /\ UNCHANGED <<answers, cur, reached>>
        /\ (payload' = "data" => fd \in open)
    BY <1>3 DEF TtyRead, tty
  <2>2. QED  BY <2>1 DEF LineInv, DataReached
<1>4. CASE Publish
  <2>1. pc = "publish" /\ pc' = "receive" /\ reached' = reached  BY <1>4 DEF Publish, tty
  <2>2. CASE answers' = answers  BY <2>1, <2>2 DEF LineInv, DataReached
  <2>3. CASE answers' = Append(answers, [request |-> cur, reply |-> payload])
    <3> DEFINE a == [request |-> cur, reply |-> payload]
    <3>1. a.request = cur /\ a.reply = payload  OBVIOUS
    <3>2. answers \in Seq([request : Request, reply : Reply])  BY DEF TypeOK
    <3> HIDE DEF a
    <3>3. ASSUME NEW i \in DOMAIN answers', answers'[i].reply = "data"
          PROVE  answers'[i].request \in reached
      <4>1. CASE i \in DOMAIN answers
        <5>1. answers'[i] = answers[i]  BY <2>3, <3>2, <4>1 DEF a
        <5>2. QED  BY <3>3, <4>1, <5>1 DEF LineInv, DataReached
      <4>2. CASE i = Len(answers) + 1
        <5>1. answers'[i] = a  BY <2>3, <3>2, <4>2 DEF a
        <5>2. QED  BY <2>1, <3>1, <3>3, <5>1 DEF LineInv
      <4>3. QED  BY <2>3, <3>2, <4>1, <4>2
    <3>4. QED  BY <2>1, <3>3 DEF LineInv, DataReached
  <2>4. answers' = answers \/ answers' = Append(answers, [request |-> cur, reply |-> payload])
    BY <1>4, Zenon DEF Publish
  <2>5. QED  BY <2>2, <2>3, <2>4
<1>5. CASE \/ Connect \/ ConnectFails \/ SubscribeOpen \/ ReceiveNothing \/ ReceiveError
           \/ Disconnected \/ Close
  <2>1. UNCHANGED <<answers, reached>> /\ pc' \notin {"read", "publish"}
    BY <1>5 DEF Connect, ConnectFails, SubscribeOpen, ReceiveNothing, ReceiveError, Disconnected,
      Close, tty
  <2>2. QED  BY <2>1 DEF LineInv, DataReached
<1>6. CASE World \/ UNCHANGED vars
  <2>1. UNCHANGED <<pc, cur, payload, answers, fd, open, reached>>
    BY <1>6 DEF World, Send, Break, BrokerBack, OtherLocks, vars, tty
  <2>2. QED  BY <2>1 DEF LineInv, DataReached
<1>7. QED  BY <1>1, <1>2, <1>3, <1>4, <1>5, <1>6 DEF Next, Bridge

LEMMA CountNext == IndInv /\ [Next]_vars => CountInv'
<1> SUFFICES ASSUME TypeOK, CountInv, [Next]_vars PROVE CountInv'  BY DEF IndInv
<1> USE DEF Handling
<1> DEFINE Counts == /\ autoconntime \in 0..(MaxTime + 1) /\ tries \in 0..(MaxTime + 1)
                     /\ MaxTime \in Nat
<1>0. Counts  BY RequestAssumption DEF TypeOK
<1>1. CASE Connect
  <2>1. pc = "connect" /\ pc' = "open" /\ tries' = 0 /\ autoconntime' = autoconntime
    BY <1>1 DEF Connect
  <2>2. QED  BY <2>1, <1>0 DEF CountInv, TriesBounded
<1>2. CASE ConnectFails
  <2>1. /\ pc = "connect" /\ tries' = (IF tries > MaxTime THEN tries ELSE tries + 1)
        /\ pc' = (IF autoconntime = 0 THEN "ended" ELSE "open")
        /\ autoconntime' = autoconntime /\ connected' = connected
    BY <1>2 DEF ConnectFails, session
  <2>2. QED  BY <2>1, <1>0 DEF CountInv, TriesBounded
<1>3. CASE SubscribeOpen \/ Publish
  <2>1. /\ UNCHANGED client /\ (connected' => connected)
        /\ pc \in {"open", "publish"} /\ pc' = "receive"
    BY <1>3, Zenon DEF SubscribeOpen, Publish, MayNotice
  <2>2. QED  BY <2>1 DEF CountInv, TriesBounded, client
<1>4. CASE ReceiveMessage \/ ReceiveNothing \/ ReceiveError
  <2>1. /\ connected /\ autoconntime' = 0 /\ tries' = tries
        /\ pc' \in {"receive", "write", "decode", "publish"}
    BY <1>4 DEF ReceiveMessage, ReceiveNothing, ReceiveError
  <2>2. tries = 0  BY <2>1, Zenon DEF CountInv
  <2>3. QED  BY <2>1, <2>2, <1>0 DEF CountInv, TriesBounded
<1>5. CASE Disconnected
  <2>1. /\ pc = "receive" /\ ~connected /\ connected' = connected /\ tries' = tries
        /\ \/ /\ autoconntime' = autoconntime + 1
              /\ pc' = IF autoconntime' > MaxTime THEN "close" ELSE "connect"
           \/ autoconntime' = autoconntime /\ pc' = "close"
    BY <1>5 DEF Disconnected
  <2>2. QED  BY <2>1, <1>0 DEF CountInv, TriesBounded
<1>6. CASE TtyWrite \/ TtyRead \/ Close
  <2>1. autoconntime' = autoconntime /\ tries' = tries /\ connected' = connected
    BY <1>6 DEF TtyWrite, TtyRead, Close, session, client
  <2>2. \/ pc \in {"write", "read"} /\ pc' \in {"read", "publish"}
        \/ pc' = "ended"
    BY <1>6 DEF TtyWrite, TtyRead, Close
  <2>3. CASE pc \in {"write", "read"} /\ pc' \in {"read", "publish"}
    BY <2>1, <2>3 DEF CountInv, TriesBounded
  <2>4. CASE pc' = "ended"  BY <2>1, <2>4 DEF CountInv, TriesBounded
  <2>5. QED  BY <2>2, <2>3, <2>4
<1>7. CASE World \/ UNCHANGED vars
  <2>1. UNCHANGED <<client, connected, pc>>
    BY <1>7 DEF World, Send, Break, BrokerBack, OtherLocks, vars, session
  <2>2. QED  BY <2>1 DEF CountInv, TriesBounded, client
<1>8. QED  BY <1>1, <1>2, <1>3, <1>4, <1>5, <1>6, <1>7 DEF Next, Bridge

LEMMA Invariance == Spec => []IndInv
<1>1. Init => IndInv
  <2>1. ASSUME Init PROVE HandInv /\ LineInv /\ CountInv
    <3>1. /\ pc = "connect" /\ cur = NoRequest /\ answers = <<>> /\ connected = FALSE
          /\ autoconntime = 0 /\ tries = 0
      BY <2>1 DEF Init
    <3>2. HandInv  BY <3>1 DEF HandInv, Handling
    <3>3. LineInv  BY <3>1 DEF LineInv, DataReached
    <3>4. CountInv  BY <3>1, RequestAssumption DEF CountInv, TriesBounded
    <3>5. QED  BY <3>2, <3>3, <3>4
  <2>2. QED  BY <2>1, TypeInit DEF IndInv
<1>2. IndInv /\ [Next]_vars => IndInv'
  BY TypeNext, HandNext, LineNext, CountNext DEF IndInv
<1>3. QED  BY <1>1, <1>2, PTL DEF Spec

-----------------------------------------------------------------------------
\* TypeOK holds of every state of mqtt_loop() and of the world around it.
THEOREM TypeCorrect == Spec => []TypeOK
BY Invariance, PTL DEF IndInv

\* What the slave is said to have answered was asked for under the lock.
THEOREM OnlyReachedAnswered == Spec => []DataReached
BY Invariance, PTL DEF IndInv, LineInv

\* mqttautoconnmaxtime bounds the failed attempts to reconnect, for every
\* broker and however the connection fails between them.
THEOREM RetriesBounded == Spec => []TriesBounded
BY Invariance, PTL DEF IndInv, CountInv

\* Once a lost descriptor holds the lock nothing reaches the line any more.
THEOREM StrandedStays == Spec => StrandedForGood
<1>1. ASSUME TypeOK, [Next]_vars, Stranded, pc # "close"
      PROVE  Stranded' /\ reached' = reached
  <2>1. lock \in open /\ lock # fd /\ lock \in Fd /\ open \subseteq Fd  BY <1>1 DEF TypeOK, Stranded
  <2>2. lock # Unlocked /\ lock # Other  BY <2>1, RequestAssumption DEF Fd, Unlocked, Other
  <2>3. CASE SubscribeOpen
    <3>1. /\ lock' = lock /\ reached' = reached
          /\ \/ fd' \in Fd \ open /\ open' = open \cup {fd'}
             \/ fd' = NoFd /\ open' = open
      BY <2>3 DEF SubscribeOpen
    <3>2. lock # NoFd  BY <2>2 DEF NoFd, Unlocked
    <3>3. QED  BY <2>1, <3>1, <3>2 DEF Stranded
  <2>4. CASE TtyWrite
    <3>1. ~CanLock  BY <2>1, <2>2 DEF CanLock
    <3>2. lock' = lock /\ reached' = reached /\ fd' = fd /\ open' = open \ {fd}
      BY <2>4, <3>1 DEF TtyWrite
    <3>3. QED  BY <2>1, <3>2 DEF Stranded
  <2>5. CASE Close  BY <2>5, <1>1 DEF Close
  <2>6. CASE OtherLocks  BY <2>6, <2>2 DEF OtherLocks
  <2>7. CASE UNCHANGED tty  BY <2>7, <1>1 DEF tty, Stranded
  <2>8. UNCHANGED tty \/ SubscribeOpen \/ TtyWrite \/ Close \/ OtherLocks
    BY <1>1 DEF Next, Bridge, World, Connect, ConnectFails, ReceiveMessage, ReceiveNothing,
      ReceiveError, Disconnected, TtyRead, Publish, Send, Break, BrokerBack, vars
  <2>9. QED  BY <2>3, <2>4, <2>5, <2>6, <2>7, <2>8
<1>2. TypeOK /\ [Next]_vars => [Stranded /\ pc # "close" => Stranded' /\ reached' = reached]_vars
  BY <1>1
<1>3. Spec => []TypeOK  BY TypeCorrect
<1>4. QED  BY <1>2, <1>3, PTL DEF Spec, StrandedForGood

-----------------------------------------------------------------------------
(* mqtt_loop() implements Gateway.                                         *)

LEMMA InHand ==
  ASSUME NEW S, NEW s \in Seq(S), NEW c \in S
  PROVE  /\ <<>> \o s = s
         /\ <<c>> \o s \in Seq(S) /\ <<c>> \o s # <<>>
         /\ Head(<<c>> \o s) = c /\ Tail(<<c>> \o s) = s
<1>1. <<>> \o s = s  OBVIOUS
<1> DEFINE t == <<c>> \o s
<1>2. t \in Seq(S) /\ Len(t) = Len(s) + 1 /\ t[1] = c /\ \A i \in 1..Len(s) : t[i + 1] = s[i]
  OBVIOUS
<1> HIDE DEF t
<1>3. t # <<>> /\ Head(t) = c  BY <1>2
<1>4. Tail(t) = s
  <2>1. Tail(t) \in Seq(S) /\ Len(Tail(t)) = Len(s) /\ \A i \in 1..Len(s) : Tail(t)[i] = t[i + 1]
    BY <1>2, <1>3
  <2>2. QED  BY <1>2, <2>1
<1>5. QED  BY <1>1, <1>2, <1>3, <1>4 DEF t

LEMMA InHandTail ==
  ASSUME NEW S, NEW s \in Seq(S), s # <<>>
  PROVE  <<Head(s)>> \o Tail(s) = s
<1> DEFINE t == <<Head(s)>> \o Tail(s)
<1>1. t \in Seq(S) /\ Len(t) = Len(s) /\ \A i \in 1..Len(s) : t[i] = s[i]
  OBVIOUS
<1>2. QED  BY <1>1

LEMMA InHandAppend ==
  ASSUME NEW S, NEW s \in Seq(S), NEW c \in S, NEW r \in S
  PROVE  <<c>> \o Append(s, r) = Append(<<c>> \o s, r)
<1> DEFINE t == <<c>> \o Append(s, r)
           u == Append(<<c>> \o s, r)
<1>1. t \in Seq(S) /\ Len(t) = Len(s) + 2 /\ u \in Seq(S) /\ Len(u) = Len(s) + 2
  OBVIOUS
<1>2. \A i \in 1..(Len(s) + 2) : t[i] = u[i]
  OBVIOUS
<1>3. QED  BY <1>1, <1>2

\* What pending is, with and without a request in hand.
LEMMA PendingIs ==
  ASSUME TypeOK, HandInv
  PROVE  /\ inbox \in Seq(Request) /\ answers \in Seq([request : Request, reply : Reply])
         /\ cur = NoRequest => pending = inbox
         /\ cur # NoRequest => cur \in Request /\ pending = <<cur>> \o inbox
BY InHand DEF TypeOK, pending

LEMMA StepGateway ==
  ASSUME IndInv, IndInv', [Next]_vars
  PROVE  [G!Next]_(G!vars)
<1> USE DEF G!vars
<1> TypeOK /\ HandInv /\ TypeOK' /\ HandInv'  BY DEF IndInv
<1>0. /\ inbox \in Seq(Request) /\ inbox' \in Seq(Request)
      /\ cur = NoRequest => pending = inbox
      /\ cur # NoRequest => cur \in Request /\ pending = <<cur>> \o inbox
      /\ cur' = NoRequest => pending' = inbox'
      /\ cur' # NoRequest => cur' \in Request /\ pending' = <<cur'>> \o inbox'
  <2>1. TypeOK' /\ HandInv' => /\ inbox' \in Seq(Request)
                               /\ cur' = NoRequest => pending' = inbox'
                               /\ cur' # NoRequest => cur' \in Request /\ pending' = <<cur'>> \o inbox'
    BY InHand DEF TypeOK, pending
  <2>2. QED  BY <2>1, PendingIs
<1>1. CASE ReceiveMessage
  <2>1. /\ inbox # <<>> /\ cur' = Head(inbox) /\ inbox' = Tail(inbox)
        /\ pc = "receive" /\ UNCHANGED <<answers, sent>>
    BY <1>1 DEF ReceiveMessage, outside
  <2>2. cur = NoRequest  BY <2>1 DEF HandInv, Handling
  <2>3. cur' \in Request /\ cur' # NoRequest  BY <2>1, <1>0, RequestAssumption
  <2>4. pending' = pending  BY <1>0, <2>1, <2>2, <2>3, InHandTail
  <2>5. QED  BY <2>1, <2>4
<1>2. CASE Publish
  <2>1. /\ pc = "publish" /\ cur' = NoRequest /\ inbox' = inbox /\ sent' = sent
        /\ cur # NoRequest /\ payload \in Fitting(cur)
    BY <1>2 DEF Publish, HandInv, Handling, outside
  <2>2. /\ pending # <<>> /\ Head(pending) = cur /\ Tail(pending) = inbox /\ pending' = inbox
    BY <1>0, <2>1, InHand
  <2>3. CASE answers' = answers  BY <2>1, <2>2, <2>3 DEF G!Next, G!Lose
  <2>4. CASE answers' = Append(answers, [request |-> cur, reply |-> payload])
    <3>1. Replies[cur] = Fitting(cur)  BY <1>0, <2>1 DEF Replies
    <3>2. payload \in Replies[Head(pending)]  BY <2>1, <2>2, <3>1
    <3>3. answers' = Append(answers, [request |-> Head(pending), reply |-> payload])
      BY <2>2, <2>4
    <3>4. G!Answer  BY <2>1, <2>2, <3>2, <3>3 DEF G!Answer
    <3>5. QED  BY <3>4 DEF G!Next
  <2>5. answers' = answers \/ answers' = Append(answers, [request |-> cur, reply |-> payload])
    BY <1>2, Zenon DEF Publish
  <2>6. QED  BY <2>3, <2>4, <2>5
<1>3. CASE Connect \/ Disconnected
  <2>1. inbox' = <<>> /\ cur' = cur /\ UNCHANGED <<answers, sent>> /\ pc \notin Handling
    BY <1>3 DEF Connect, Disconnected, outside, Handling
  <2>2. cur = NoRequest  BY <2>1 DEF HandInv
  <2>3. pending' = <<>>  BY <1>0, <2>1, <2>2
  <2>4. CASE pending = <<>>  BY <2>1, <2>3, <2>4
  <2>5. CASE pending # <<>>  BY <2>1, <2>3, <2>5 DEF G!Next, G!Lose
  <2>6. QED  BY <2>4, <2>5
<1>4. CASE Send
  <2>1. PICK r \in Request \ sent : inbox' = Append(inbox, r) /\ sent' = sent \cup {r}
    BY <1>4 DEF Send
  <2>2. cur' = cur /\ answers' = answers  BY <1>4 DEF Send
  <2>3. pending' = Append(pending, r)
    <3>1. CASE cur = NoRequest  BY <1>0, <2>1, <2>2, <3>1
    <3>2. CASE cur # NoRequest  BY <1>0, <2>1, <2>2, <3>2, InHandAppend
    <3>3. QED  BY <3>1, <3>2
  <2>4. G!Accept  BY <2>1, <2>2, <2>3 DEF G!Accept
  <2>5. QED  BY <2>4 DEF G!Next
<1>5. CASE \/ ConnectFails \/ SubscribeOpen \/ ReceiveNothing \/ ReceiveError \/ TtyWrite \/ TtyRead
           \/ Close \/ Break \/ BrokerBack \/ OtherLocks \/ UNCHANGED vars
  <2>1. UNCHANGED <<cur, inbox, answers, sent>>
    BY <1>5 DEF ConnectFails, SubscribeOpen, ReceiveNothing, ReceiveError, TtyWrite, TtyRead, Close,
      Break, BrokerBack, OtherLocks, vars, session, outside
  <2>2. pending' = pending  BY <2>1 DEF pending
  <2>3. QED  BY <2>1, <2>2
<1>6. QED  BY <1>1, <1>2, <1>3, <1>4, <1>5 DEF Next, Bridge, World

\* mqtt_loop() implements Gateway: requests are answered in the order they
\* came, at most once and with a fitting reply, whatever fails.
THEOREM Implements == Spec => ImplementsGateway
<1>1. Init => G!Init
  <2>1. ASSUME Init PROVE cur = NoRequest /\ inbox = <<>> /\ answers = <<>> /\ sent = {}
    BY <2>1 DEF Init
  <2>2. <<>> \o <<>> = <<>>  OBVIOUS
  <2>3. QED  BY <2>1, <2>2 DEF G!Init, pending
<1>2. IndInv /\ IndInv' /\ [Next]_vars => [G!Next]_(G!vars)  BY StepGateway
<1>3. QED  BY <1>1, <1>2, Invariance, PTL DEF Spec, ImplementsGateway, G!Spec
-----------------------------------------------------------------------------
(* Without a connection.                                                   *)

\* The attempts left.  With a connection not yet known to be lost they are all left
\* once the counter is back at 0.
TriesLeft ==
  IF connected THEN (IF autoconntime = 0 THEN 0 ELSE 1) ELSE MaxTime + 1 - autoconntime

\* The steps left until the next attempt or the end.
StepsLeft ==
  CASE pc = "write" -> 5 [] pc \in {"connect", "read"} -> 4 [] pc \in {"open", "publish"} -> 3
    [] pc = "receive" -> 2 [] pc = "close" -> 1 [] OTHER -> 0

\* Closer to the end: the library has noticed the loss, or a message fewer is left to
\* handle, or an attempt to connect, or a step.
Closer ==
  \/ connected /\ ~connected'
  \/ /\ connected' = connected
     /\ \/ Len(inbox') < Len(inbox)
        \/ Len(inbox') = Len(inbox) /\ TriesLeft' < TriesLeft
        \/ Len(inbox') = Len(inbox) /\ TriesLeft' = TriesLeft /\ StepsLeft' < StepsLeft

\* The decoder has the request for good.
Caught == pc = "decode" /\ Endless(cur)

\* Why a lost connection ends in a new one, in the end of the daemon or in the decoder: as
\* long as there is none each step of mqtt_loop() brings it closer to the end, whatever was
\* in hand or waiting when it was lost, unless it enters the decoder with a text that is
\* too long for its counter; and nothing outside sets it back.  From the decoder there is
\* no step.
LossEnds ==
  /\ [][~link /\ ~link' =>
          \/ pc' # "decode" /\ Closer
          \/ pc = "receive" /\ Caught'
          \/ World /\ UNCHANGED <<pc, connected, inbox, autoconntime>>]_vars
  /\ [][pc = "decode" => Caught /\ World /\ Caught']_vars

LEMMA LossStep ==
  ASSUME TypeOK, Bridge, ~link, ~link', vars' # vars
  PROVE  Closer
<1>0. /\ inbox \in Seq(Request) /\ Len(inbox) \in Nat /\ MaxTime \in Nat
      /\ autoconntime \in 0..(MaxTime + 1)
  BY RequestAssumption DEF TypeOK
<1>1. ASSUME connected' = connected, inbox' = inbox, autoconntime' = autoconntime,
             StepsLeft' < StepsLeft
      PROVE  Closer
  <2>1. TriesLeft' = TriesLeft  BY <1>1 DEF TriesLeft
  <2>2. QED  BY <1>1, <2>1 DEF Closer
<1>2. connected \in BOOLEAN /\ connected' \in BOOLEAN  BY Zenon, FlagsNext DEF TypeOK, FlagsOK, Next
<1>3. CASE ConnectFails
  <2>1. pc = "connect" /\ pc' \in {"open", "ended"}  BY <1>3 DEF ConnectFails
  <2>2. UNCHANGED <<connected, inbox, autoconntime>>  BY <1>3, Zenon DEF ConnectFails, session
  <2>3. StepsLeft' < StepsLeft  BY <2>1 DEF StepsLeft
  <2>4. QED  BY <2>2, <2>3, <1>1, Zenon
<1>4. CASE SubscribeOpen \/ Publish
  <2>1. pc \in {"open", "publish"} /\ pc' = "receive"  BY <1>4 DEF SubscribeOpen, Publish
  <2>2. inbox' = inbox /\ autoconntime' = autoconntime
    BY <1>4, Zenon DEF SubscribeOpen, Publish, client
  <2>3. connected' = connected \/ ~connected'  BY <1>4 DEF SubscribeOpen, Publish, MayNotice
  <2>4. StepsLeft' < StepsLeft  BY <2>1 DEF StepsLeft
  <2>5. CASE connected' = connected  BY <2>2, <2>4, <2>5, <1>1, Zenon
  <2>6. CASE connected' # connected
    <3>1. connected /\ ~connected'  BY <2>3, <2>6, <1>2
    <3>2. QED  BY <3>1, Zenon DEF Closer
  <2>7. QED  BY <2>5, <2>6, Zenon
<1>5. CASE ReceiveMessage
  <2>1. inbox # <<>> /\ inbox' = Tail(inbox) /\ connected' = connected  BY <1>5, Zenon DEF ReceiveMessage
  <2>2. Len(inbox') < Len(inbox)  BY <2>1, <1>0
  <2>3. QED  BY <2>1, <2>2, Zenon DEF Closer
<1>6. CASE ReceiveNothing
  <2>1. /\ connected /\ autoconntime' = 0
        /\ UNCHANGED <<pc, cur, payload, answers, tries, tty, session, outside>>
    BY <1>6, Zenon DEF ReceiveNothing
  <2>2. autoconntime # 0
    BY <2>1, Zenon DEF vars, client, tty, session, outside
  <2>3. connected' = connected /\ inbox' = inbox /\ connected  BY <2>1, Zenon DEF session
  <2>4. Len(inbox') = Len(inbox) /\ TriesLeft' < TriesLeft
    BY <2>1, <2>2, <2>3 DEF TriesLeft
  <2>5. QED  BY <2>3, <2>4, Zenon DEF Closer
<1>7. CASE ReceiveError  BY <1>7, Zenon DEF ReceiveError, Closer
<1>8. CASE Disconnected
  <2>1. /\ pc = "receive" /\ ~connected /\ connected' = connected /\ inbox' = <<>>
    BY <1>8, Zenon DEF Disconnected
  <2>2. Len(inbox') = 0 /\ ~connected /\ ~connected'  BY <2>1, Zenon, <1>0
  <2>3. CASE AutoConn
    <3>1. autoconntime' = autoconntime + 1  BY <1>8, <2>3 DEF Disconnected
    <3>2. TriesLeft' < TriesLeft  BY <3>1, <2>2, <1>0 DEF TriesLeft
    <3>3. Len(inbox') < Len(inbox) \/ Len(inbox') = Len(inbox)  BY <2>2, <1>0
    <3>4. QED  BY <2>1, <3>2, <3>3, Zenon DEF Closer
  <2>4. CASE ~AutoConn
    <3>1. autoconntime' = autoconntime /\ pc' = "close"  BY <1>8, <2>4 DEF Disconnected
    <3>2. TriesLeft' = TriesLeft  BY <3>1, <2>2 DEF TriesLeft
    <3>3. Len(inbox') < Len(inbox) \/ Len(inbox') = Len(inbox)  BY <2>2, <1>0
    <3>4. StepsLeft' < StepsLeft  BY <2>1, <3>1 DEF StepsLeft
    <3>5. QED  BY <2>1, <3>2, <3>3, <3>4, Zenon DEF Closer
  <2>5. QED  BY <2>3, <2>4
<1>9. CASE TtyWrite \/ TtyRead \/ Close
  <2>1. \/ pc = "write" /\ pc' = "read"
        \/ pc = "read" /\ pc' = "publish"
        \/ pc = "close" /\ pc' = "ended"
    BY <1>9, Zenon DEF TtyWrite, TtyRead, Close
  <2>2. UNCHANGED <<connected, inbox, autoconntime>>
    BY <1>9, Zenon DEF TtyWrite, TtyRead, Close, session, client
  <2>3. StepsLeft' < StepsLeft  BY <2>1 DEF StepsLeft
  <2>4. QED  BY <2>2, <2>3, <1>1, Zenon
<1>10. ~Connect  BY Zenon DEF Connect
<1>11. QED
  BY Zenon, <1>3, <1>4, <1>5, <1>6, <1>7, <1>8, <1>9, <1>10 DEF Bridge

\* The decoder is entered by receiving, and never left.
LEMMA DecodeStep ==
  ASSUME IndInv, [Next]_vars, vars' # vars
  PROVE  /\ pc = "decode" => Caught /\ World /\ Caught'
         /\ pc' = "decode" /\ Bridge => pc = "receive"
<1>1. pc = "decode" => Caught  BY DEF IndInv, HandInv, Caught
<1>2. pc = "decode" => ~Bridge
  BY DEF Bridge, Connect, ConnectFails, SubscribeOpen, ReceiveMessage, ReceiveNothing, ReceiveError,
    Disconnected, TtyWrite, TtyRead, Publish, Close
<1>3. Bridge \/ World  BY Zenon DEF Next
<1>4. World => pc' = pc /\ cur' = cur
  BY Zenon DEF World, Send, Break, BrokerBack, OtherLocks
<1>5. Caught /\ World => Caught'  BY <1>4 DEF Caught, Endless
<1>6. pc' = "decode" /\ Bridge => pc = "receive"
  BY <1>2 DEF Bridge, Connect, ConnectFails, SubscribeOpen, ReceiveMessage, ReceiveNothing, ReceiveError,
    Disconnected, TtyWrite, TtyRead, Publish, Close
<1>7. QED  BY <1>1, <1>2, <1>3, <1>5, <1>6, Zenon

(* While there is no connection the daemon takes finitely many steps until *)
(* it has a new one or ends: the messages received before the loss, then   *)
(* the attempts mqttautoconnmaxtime allows.  One thing can keep it, the    *)
(* decoder, and only with hexadecimal text of 254 digits or more.  It is   *)
(* the part of GivesUp and Reconnects that does not depend on fairness     *)
(* (mqtt.c:30-97).                                                         *)
THEOREM LostConnectionEnds == Spec => LossEnds
<1> DEFINE Ends == \/ pc' # "decode" /\ Closer
                   \/ pc = "receive" /\ Caught'
                   \/ World /\ UNCHANGED <<pc, connected, inbox, autoconntime>>
<1>1. ASSUME IndInv, IndInv', [Next]_vars, ~link, ~link', vars' # vars
      PROVE  Ends
  <2>1. CASE Bridge
    <3>1. Closer  BY <1>1, <2>1, LossStep DEF IndInv
    <3>2. pc' = "decode" => pc = "receive" /\ Caught'
      BY <1>1, <2>1, DecodeStep DEF IndInv, HandInv, Caught
    <3>3. QED  BY <3>1, <3>2
  <2>2. CASE World
    <3>1. ~Send  BY <1>1, Zenon DEF Send
    <3>2. UNCHANGED <<pc, connected, inbox, autoconntime>>
      BY <2>2, <3>1, Zenon DEF World, Break, BrokerBack, OtherLocks, client, session
    <3>3. QED  BY <2>2, <3>2
  <2>3. QED  BY <1>1, <2>1, <2>2, Zenon DEF Next
<1>2. IndInv /\ IndInv' /\ [Next]_vars => [~link /\ ~link' => Ends]_vars
  BY <1>1
<1>3. IndInv /\ [Next]_vars => [pc = "decode" => Caught /\ World /\ Caught']_vars
  BY DecodeStep
<1>4. QED  BY <1>2, <1>3, Invariance, PTL DEF Spec, LossEnds
-----------------------------------------------------------------------------
(* With a connection.                                                      *)

\* The steps left until the request in hand, or else the first one waiting, is answered.
AnswerSteps ==
  CASE pc = "open" -> 5 [] pc = "receive" -> 4 [] pc = "write" -> 3 [] pc = "read" -> 2 [] OTHER -> 1

\* Neither the request at place i nor one before it is too long for the decoder.
Clear(i) == \A k \in 1..i : ~Endless(pending[k])

\* Why such a request is answered: as long as the connection holds each step of mqtt_loop()
\* answers the first one or brings every one closer to its answer, no matter whether the
\* tty can be locked or the slave answers, and nothing outside puts another one before it.
AnswerNears ==
  [][link /\ link' =>
       \A i \in DOMAIN pending : Clear(i) =>
         \/ i = 1 /\ answers' = Append(answers, [request |-> pending[1], reply |-> payload])
         \/ \E j \in DOMAIN pending' :
              /\ pending'[j] = pending[i] /\ Clear(j)'
              /\ \/ 4 * j + AnswerSteps' < 4 * i + AnswerSteps
                 \/ World /\ j = i /\ pc' = pc]_vars

\* A connection that works is taken for one, and the loop is past connecting.
LinkInv ==
  /\ link => connected
  /\ pc \in {"connect", "close", "ended"} => ~connected

LEMMA LinkNext == TypeOK /\ LinkInv /\ [Next]_vars => LinkInv'
<1> SUFFICES ASSUME TypeOK, LinkInv, [Next]_vars PROVE LinkInv'  OBVIOUS
<1> USE DEF LinkInv
<1>1. CASE Connect  BY <1>1 DEF Connect
<1>2. CASE ConnectFails
  <2>1. link' = link /\ connected' = connected /\ pc = "connect"  BY <1>2, Zenon DEF ConnectFails, session
  <2>2. QED  BY <2>1
<1>3. CASE SubscribeOpen \/ Publish
  <2>1. link' = link /\ pc' = "receive"  BY <1>3, Zenon DEF SubscribeOpen, Publish
  <2>2. link => connected' = connected  BY <1>3 DEF SubscribeOpen, Publish, MayNotice
  <2>3. QED  BY <2>1, <2>2
<1>4. CASE ReceiveMessage
  <2>1. link' = link /\ connected' = connected /\ pc' \in {"publish", "write", "decode"}
    BY <1>4 DEF ReceiveMessage
  <2>2. QED  BY <2>1
<1>5. CASE ReceiveError
  <2>1. link' = link /\ ~link /\ connected' = FALSE  BY <1>5, Zenon DEF ReceiveError
  <2>2. QED  BY <2>1
<1>6. CASE Disconnected
  <2>1. link' = FALSE /\ ~connected /\ connected' = connected  BY <1>6, Zenon DEF Disconnected
  <2>2. QED  BY <2>1
<1>7. CASE TtyWrite \/ TtyRead \/ Close
  <2>1. link' = link /\ connected' = connected
    BY <1>7, Zenon DEF TtyWrite, TtyRead, Close, session
  <2>2. pc' \in {"read", "publish"} \/ (pc = "close" /\ pc' = "ended")
    BY <1>7 DEF TtyWrite, TtyRead, Close
  <2>3. QED  BY <2>1, <2>2
<1>8. CASE Break
  <2>1. link' = FALSE /\ connected' = connected /\ pc' = pc  BY <1>8, Zenon DEF Break
  <2>2. QED  BY <2>1
<1>9. CASE ReceiveNothing \/ Send \/ BrokerBack \/ OtherLocks \/ UNCHANGED vars
  <2>1. link' = link /\ connected' = connected /\ pc' = pc
    BY <1>9, Zenon DEF ReceiveNothing, Send, BrokerBack, OtherLocks, vars, session
  <2>2. QED  BY <2>1
<1>10. QED
  BY Zenon, <1>1, <1>2, <1>3, <1>4, <1>5, <1>6, <1>7, <1>8, <1>9 DEF Next, Bridge, World

\* Where the loop is while a connection works, and what that leaves it to do.
LEMMA LinkedSteps ==
  ASSUME IndInv, LinkInv, link, Bridge, link'
  PROVE  SubscribeOpen \/ ReceiveMessage \/ ReceiveNothing \/ TtyWrite \/ TtyRead \/ Publish
<1>1. connected /\ pc \notin {"connect", "close", "ended"}  BY DEF LinkInv
<1>2. ~Connect /\ ~ConnectFails /\ ~Close  BY <1>1 DEF Connect, ConnectFails, Close
<1>3. ~Disconnected /\ ~ReceiveError  BY <1>1, Zenon DEF Disconnected, ReceiveError
<1>4. QED  BY <1>2, <1>3, Zenon DEF Bridge

LEMMA AnswerStep ==
  ASSUME IndInv, IndInv', LinkInv, Next, vars' # vars, link, link', NEW i \in DOMAIN pending, Clear(i)
  PROVE  \/ i = 1 /\ answers' = Append(answers, [request |-> pending[1], reply |-> payload])
         \/ \E j \in DOMAIN pending' :
              /\ pending'[j] = pending[i] /\ Clear(j)'
              /\ \/ 4 * j + AnswerSteps' < 4 * i + AnswerSteps
                 \/ World /\ j = i /\ pc' = pc
<1> DEFINE Good == \/ i = 1 /\ answers' = Append(answers, [request |-> pending[1], reply |-> payload])
                   \/ \E j \in DOMAIN pending' :
                        /\ pending'[j] = pending[i] /\ Clear(j)'
                        /\ \/ 4 * j + AnswerSteps' < 4 * i + AnswerSteps
                           \/ World /\ j = i /\ pc' = pc
<1> SUFFICES Good  OBVIOUS
<1>0. /\ inbox \in Seq(Request) /\ inbox' \in Seq(Request)
      /\ cur = NoRequest => pending = inbox
      /\ cur # NoRequest => cur \in Request /\ pending = <<cur>> \o inbox
      /\ cur' = NoRequest => pending' = inbox'
      /\ cur' # NoRequest => cur' \in Request /\ pending' = <<cur'>> \o inbox'
  <2>1. TypeOK' /\ HandInv' => /\ inbox' \in Seq(Request)
                               /\ cur' = NoRequest => pending' = inbox'
                               /\ cur' # NoRequest => cur' \in Request /\ pending' = <<cur'>> \o inbox'
    BY InHand DEF TypeOK, pending
  <2>2. QED  BY <2>1, PendingIs DEF IndInv
<1>1. pending \in Seq(Request) /\ i \in 1..Len(pending) /\ i \in Nat
  <2>1. pending \in Seq(Request)  BY <1>0, InHand
  <2>2. DOMAIN pending = 1..Len(pending)  BY <2>1
  <2>3. QED  BY <2>1, <2>2
<1>2. ASSUME pending' = pending, AnswerSteps' < AnswerSteps PROVE Good
  <2>1. AnswerSteps \in Nat  BY DEF AnswerSteps
  <2>2. AnswerSteps' \in Nat  BY DEF AnswerSteps
  <2>3. 4 * i + AnswerSteps' < 4 * i + AnswerSteps  BY <1>1, <1>2, <2>1, <2>2
  <2>4. i \in DOMAIN pending' /\ pending'[i] = pending[i]  BY <1>2
  <2>5. Clear(i)'  BY <1>2 DEF Clear, Endless
  <2>6. QED  BY <2>3, <2>4, <2>5, Zenon
<1>3. ASSUME World, pc' = pc, i \in DOMAIN pending', \A k \in 1..i : pending'[k] = pending[k] PROVE Good
  <2>1. Clear(i)' /\ pending'[i] = pending[i]  BY <1>1, <1>3 DEF Clear, Endless
  <2>2. QED  BY <1>3, <2>1, Zenon
<1>4. CASE ReceiveMessage
  <2>1. inbox # <<>> /\ cur' = Head(inbox) /\ inbox' = Tail(inbox) /\ pc = "receive"
    BY <1>4, Zenon DEF ReceiveMessage
  <2>2. cur = NoRequest  BY <2>1 DEF IndInv, HandInv, Handling
  <2>3. cur' \in Request /\ cur' # NoRequest  BY <2>1, <1>0, RequestAssumption
  <2>4. pending' = pending  BY <1>0, <2>1, <2>2, <2>3, InHandTail
  <2>5. pc' \in {"publish", "write"}
    <3>1. cur' = pending[1] /\ 1 \in 1..i  BY <1>0, <1>1, <2>1, <2>2
    <3>2. ~Endless(cur')  BY <3>1 DEF Clear
    <3>3. QED  BY <1>4, <3>2 DEF ReceiveMessage
  <2>6. AnswerSteps' < AnswerSteps  BY <2>1, <2>5 DEF AnswerSteps
  <2>7. QED  BY <2>4, <2>6, <1>2, Zenon
<1>5. CASE SubscribeOpen \/ TtyWrite \/ TtyRead
  <2>1. cur' = cur /\ inbox' = inbox
    BY <1>5, Zenon DEF SubscribeOpen, TtyWrite, TtyRead, session
  <2>2. pending' = pending  BY <2>1 DEF pending
  <2>3. \/ pc = "open" /\ pc' = "receive"
        \/ pc = "write" /\ pc' = "read"
        \/ pc = "read" /\ pc' = "publish"
    BY <1>5, Zenon DEF SubscribeOpen, TtyWrite, TtyRead
  <2>4. AnswerSteps' < AnswerSteps  BY <2>3 DEF AnswerSteps
  <2>5. QED  BY <2>2, <2>4, <1>2, Zenon
<1>6. CASE ReceiveNothing
  <2>1. pc = "receive" /\ inbox = <<>>  BY <1>6, Zenon DEF ReceiveNothing
  <2>2. cur = NoRequest  BY <2>1 DEF IndInv, HandInv, Handling
  <2>3. pending = <<>>  BY <1>0, <2>1, <2>2
  <2>4. QED  BY <1>1, <2>3
<1>7. CASE Publish
  <2>1. /\ pc = "publish" /\ pc' = "receive" /\ cur' = NoRequest /\ inbox' = inbox
        /\ answers' = Append(answers, [request |-> cur, reply |-> payload])
    BY <1>7 DEF Publish
  <2>2. cur # NoRequest  BY <2>1 DEF IndInv, HandInv, Handling
  <2>3. cur \in Request /\ pending = <<cur>> \o inbox /\ pending' = inbox  BY <1>0, <2>1, <2>2
  <2>4. /\ Len(pending) = Len(inbox) + 1 /\ pending[1] = cur
        /\ \A k \in 1..Len(inbox) : pending[k + 1] = inbox[k]
    BY <1>0, <2>3
  <2>5. CASE i = 1  BY <2>1, <2>4, <2>5
  <2>6. CASE i # 1
    <3>1. i - 1 \in 1..Len(inbox) /\ (i - 1) + 1 = i  BY <1>1, <1>0, <2>4, <2>6
    <3>2. pending'[i - 1] = pending[i] /\ i - 1 \in DOMAIN pending'
      BY <3>1, <2>3, <2>4, <1>0
    <3>3. AnswerSteps' = 4 /\ AnswerSteps = 1  BY <2>1 DEF AnswerSteps
    <3>4. 4 * (i - 1) + AnswerSteps' < 4 * i + AnswerSteps  BY <3>3, <1>1
    <3>5. Clear(i - 1)'
      <4>1. ASSUME NEW k \in 1..(i - 1) PROVE pending'[k] = pending[k + 1] /\ k + 1 \in 1..i
        BY <3>1, <2>3, <2>4, <1>0, <1>1
      <4>2. QED  BY <4>1 DEF Clear, Endless
    <3>6. QED  BY <3>2, <3>4, <3>5, Zenon
  <2>7. QED  BY <2>5, <2>6
<1>8. CASE Send
  <2>1. PICK r \in Request : inbox' = Append(inbox, r)  BY <1>8 DEF Send
  <2>2. cur' = cur /\ pc' = pc  BY <1>8, Zenon DEF Send
  <2>3. pending' = Append(pending, r)
    <3>1. CASE cur = NoRequest  BY <1>0, <2>1, <2>2, <3>1
    <3>2. CASE cur # NoRequest  BY <1>0, <2>1, <2>2, <3>2, InHandAppend
    <3>3. QED  BY <3>1, <3>2
  <2>4. i \in DOMAIN pending' /\ \A k \in 1..i : pending'[k] = pending[k]  BY <1>1, <2>3
  <2>5. QED  BY <1>8, <2>2, <2>4, <1>3, Zenon DEF World
<1>9. CASE Break \/ BrokerBack \/ OtherLocks
  <2>1. cur' = cur /\ inbox' = inbox /\ pc' = pc
    BY <1>9, Zenon DEF Break, BrokerBack, OtherLocks, session
  <2>2. pending' = pending  BY <2>1 DEF pending
  <2>3. QED  BY <1>9, <2>1, <2>2, <1>3, Zenon DEF World
<1>10. QED
  BY Zenon, <1>4, <1>5, <1>6, <1>7, <1>8, <1>9, LinkedSteps DEF Next, World

(* While the connection holds, the request at place i is answered within   *)
(* 4 * i + 1 steps of the daemon, unless it or one before it is a text the *)
(* decoder does not come back from: the part of Answered that does not     *)
(* depend on fairness (mqtt.c:51-143).                                     *)
THEOREM RequestsComeUp == Spec => AnswerNears
<1>1. Init => LinkInv  BY DEF Init, LinkInv
<1>2. IndInv => TypeOK  BY DEF IndInv
<1>3. IndInv /\ IndInv' /\ LinkInv /\ [Next]_vars =>
        [link /\ link' =>
           \A i \in DOMAIN pending : Clear(i) =>
             \/ i = 1 /\ answers' = Append(answers, [request |-> pending[1], reply |-> payload])
             \/ \E j \in DOMAIN pending' :
                  /\ pending'[j] = pending[i] /\ Clear(j)'
                  /\ \/ 4 * j + AnswerSteps' < 4 * i + AnswerSteps
                     \/ World /\ j = i /\ pc' = pc]_vars
  BY AnswerStep
<1>4. QED  BY <1>1, <1>2, <1>3, LinkNext, Invariance, PTL DEF Spec, AnswerNears
=============================================================================
