----------------------------- MODULE MqttBridge -----------------------------
(***************************************************************************)
(* mqtt_loop() of src/src/mqtt.c: the daemon that receives requests from   *)
(* an MQTT broker, passes them to the serial line and publishes what the   *)
(* line answers.  The broker, the connection to it and the client library  *)
(* are modelled from how the loop uses them, the other users of the tty by *)
(* the lock they may hold.                                                 *)
(***************************************************************************)
EXTENDS Integers, Sequences

CONSTANTS
  Request,    \* messages on the subscribed topic
  NoRequest,
  TooLong,    \* requests of more than 1024 bytes; others have at most 512 in raw mode
  OddText,    \* requests with an odd number of characters that are not blank
  LongText,   \* requests with an even number of them, 254 or more
  TtyStr,     \* ttytype is "str": a payload is hexadecimal text
  AutoConn,   \* mqttautoconn is 1
  MaxTime,    \* mqttautoconnmaxtime
  MaxFd,      \* how many descriptors of the tty the process can have
  MaxBreaks   \* bound: how often the connection or the broker fails

ASSUME RequestAssumption ==
  /\ NoRequest \notin Request
  /\ TooLong \subseteq Request /\ OddText \subseteq Request /\ LongText \subseteq Request \ OddText
  /\ TtyStr \in BOOLEAN /\ AutoConn \in BOOLEAN
  /\ MaxTime \in Nat /\ MaxFd \in Nat /\ MaxBreaks \in Nat

VARIABLES
  pc,         \* where mqtt_loop() is
  autoconntime, \* the variable mqttautoconntime
  cur,        \* m, the message received last
  payload,    \* pubmsg.payload
  fd,         \* the variable fd
  open,       \* descriptors of the tty this process has open
  lock,       \* the descriptor that holds the lock, Unlocked or Other
  link,       \* the connection to the broker works
  connected,  \* the client library takes it for working
  subscribed, \* the broker passes messages on to this session
  broker,     \* the broker can be reached
  inbox,      \* messages of this session that were not received yet
  sent,       \* all messages that went into an inbox
  answers,    \* what was published, in order
  reached,    \* requests written to the line
  tries,      \* connects that failed since the last that did not, up to MaxTime + 1
  breaks      \* failures of the connection so far

client  == <<autoconntime, tries>>
tty     == <<fd, open, lock, reached>>
session == <<link, connected, subscribed, inbox>>
outside == <<broker, sent, breaks>>
vars == <<pc, cur, payload, answers, client, tty, session, outside>>

Fd       == 1..MaxFd
NoFd     == 0   \* what uartOpen() returns when it fails, -1 in the code
Unlocked == 0
Other    == -1  \* another process holds the lock

Odd(r) == TtyStr /\ r \in OddText

\* The 8 bit counter of gl_str2acsll() never gets past the length of the text.
Endless(r) == TtyStr /\ r \in LongText \ TooLong

Init ==
  /\ pc = "connect" /\ autoconntime = 0 /\ cur = NoRequest /\ payload = "none"
  /\ fd = NoFd /\ open = {} /\ lock \in {Unlocked, Other} /\ reached = {}
  /\ link = FALSE /\ connected = FALSE /\ subscribed = FALSE /\ inbox = <<>>
  /\ broker \in BOOLEAN /\ sent = {} /\ answers = <<>> /\ tries = 0 /\ breaks = 0

-----------------------------------------------------------------------------
(* start: a new client, which never resumes a session.                     *)

Connect ==
  /\ pc = "connect" /\ broker
  /\ link' = TRUE /\ connected' = TRUE /\ subscribed' = FALSE /\ inbox' = <<>>
  /\ tries' = 0 /\ pc' = "open"
  /\ UNCHANGED <<cur, payload, answers, autoconntime, tty, outside>>

\* The first connect must succeed, later ones are left to MQTTClient_receive().
ConnectFails ==
  /\ pc = "connect" /\ ~broker
  /\ tries' = (IF tries > MaxTime THEN tries ELSE tries + 1)
  /\ pc' = IF autoconntime = 0 THEN "ended" ELSE "open"
  /\ UNCHANGED <<cur, payload, answers, autoconntime, tty, session, outside>>

\* The library notices that the connection is gone when it uses it, or later.
MayNotice == connected' \in (IF link THEN {connected} ELSE {connected, FALSE})

\* MQTTClient_subscribe() and uartOpen(), whose results nobody looks at.
\* A descriptor opened before stays open.
SubscribeOpen ==
  /\ pc = "open" /\ pc' = "receive"
  /\ subscribed' = link /\ MayNotice
  /\ \/ /\ fd' \in Fd \ open /\ \A f \in Fd \ open : fd' <= f
        /\ open' = open \cup {fd'}
     \/ fd' = NoFd /\ open' = open
  /\ UNCHANGED <<cur, payload, answers, client, lock, reached, link, inbox, outside>>

-----------------------------------------------------------------------------
(* MQTTClient_receive() and what is done with its result.                  *)

\* Faulty variant: the odd text is noticed, but the goto is missing.
MutReceiveOdd ==
  /\ pc = "receive" /\ connected /\ inbox # <<>>
  /\ cur' = Head(inbox) /\ inbox' = Tail(inbox)
  /\ autoconntime' = 0
  /\ IF cur' \in TooLong THEN payload' = "out len" /\ pc' = "publish"
                         ELSE payload' = payload /\ pc' = IF Endless(cur') THEN "decode" ELSE "write"
  /\ UNCHANGED <<answers, tries, tty, link, connected, subscribed, outside>>

\* Faulty variant: a message that is too long is dropped.
MutReceiveLong ==
  /\ pc = "receive" /\ connected /\ inbox # <<>>
  /\ cur' = Head(inbox) /\ inbox' = Tail(inbox)
  /\ autoconntime' = 0
  /\ payload' = "data format error"
  /\ pc' = CASE cur' \in TooLong -> "receive" [] Odd(cur') -> "publish"
             [] Endless(cur') -> "decode" [] OTHER -> "write"
  /\ UNCHANGED <<answers, tries, tty, link, connected, subscribed, outside>>

\* A message: it is refused, or decoded and passed on to the line, or gl_str2acsll()
\* does not come back from it: mqtt_loop() takes no step from "decode".
ReceiveMessage ==
  /\ pc = "receive" /\ connected /\ inbox # <<>>
  /\ cur' = Head(inbox) /\ inbox' = Tail(inbox)
  /\ autoconntime' = 0
  /\ \/ cur' \in TooLong /\ payload' = "out len" /\ pc' = "publish"
     \/ cur' \notin TooLong /\ Odd(cur') /\ payload' = "data format error" /\ pc' = "publish"
     \/ Endless(cur') /\ payload' = payload /\ pc' = "decode"
     \/ cur' \notin TooLong /\ ~Odd(cur') /\ ~Endless(cur') /\ payload' = payload /\ pc' = "write"
  /\ UNCHANGED <<answers, tries, tty, link, connected, subscribed, outside>>

\* Five seconds without a message.
ReceiveNothing ==
  /\ pc = "receive" /\ connected /\ inbox = <<>>
  /\ autoconntime' = 0
  /\ UNCHANGED <<pc, cur, payload, answers, tries, tty, session, outside>>

\* The library finds the connection gone: an error, but not yet -3.
ReceiveError ==
  /\ pc = "receive" /\ connected /\ ~link
  /\ connected' = FALSE /\ autoconntime' = 0
  /\ UNCHANGED <<pc, cur, payload, answers, tries, tty, link, subscribed, inbox, outside>>

\* Faulty variant: the counter is compared before it is incremented.
MutLateCount ==
  /\ pc = "receive" /\ ~connected
  /\ IF AutoConn
       THEN /\ autoconntime' = autoconntime + 1
            /\ pc' = IF autoconntime > MaxTime THEN "close" ELSE "connect"
       ELSE UNCHANGED autoconntime /\ pc' = "close"
  /\ link' = FALSE /\ subscribed' = FALSE /\ inbox' = <<>>
  /\ UNCHANGED <<cur, payload, answers, tries, tty, connected, outside>>

\* Faulty variant: the loop goes on behind the connect and counts nothing.
MutResume ==
  /\ pc = "receive" /\ ~connected
  /\ pc' = IF AutoConn THEN "open" ELSE "close"
  /\ link' = FALSE /\ subscribed' = FALSE /\ inbox' = <<>>
  /\ UNCHANGED <<cur, payload, answers, client, tty, connected, outside>>

\* -3, not connected: the client is destroyed, and with it the session, and
\* a new one connects, or the loop is left.
Disconnected ==
  /\ pc = "receive" /\ ~connected
  /\ IF AutoConn
       THEN /\ autoconntime' = autoconntime + 1
            /\ pc' = IF autoconntime' > MaxTime THEN "close" ELSE "connect"
       ELSE UNCHANGED autoconntime /\ pc' = "close"
  /\ link' = FALSE /\ subscribed' = FALSE /\ inbox' = <<>>
  /\ UNCHANGED <<cur, payload, answers, tries, tty, connected, outside>>

-----------------------------------------------------------------------------
(* The exchange with the line.                                             *)

\* Faulty variant: a lock of the process, not of the open file.
MutCanLock == fd \in open /\ lock # Other

\* Faulty variant: a descriptor that is not open can be locked.
MutLockAny == fd # NoFd /\ lock \in {Unlocked, fd}

CanLock == fd \in open /\ lock \in {Unlocked, fd}

\* Faulty variant: the descriptor stays open when it could not be locked.
MutTtyWrite ==
  /\ pc = "write" /\ pc' = "read"
  /\ IF CanLock THEN lock' = fd /\ reached' = reached \cup {cur}
                ELSE UNCHANGED <<lock, reached>>
  /\ UNCHANGED <<cur, payload, answers, client, fd, open, session, outside>>

\* tty_write(): after 30 attempts to lock it closes fd, which keeps its value.
TtyWrite ==
  /\ pc = "write" /\ pc' = "read"
  /\ IF CanLock
       THEN lock' = fd /\ reached' = reached \cup {cur} /\ UNCHANGED open
       ELSE open' = open \ {fd} /\ UNCHANGED <<lock, reached>>
  /\ UNCHANGED <<cur, payload, answers, client, fd, session, outside>>

\* The read loop; on a closed descriptor it reads nothing.
TtyRead ==
  /\ pc = "read" /\ pc' = "publish"
  /\ payload' \in (IF fd \in open THEN {"data", "no data"} ELSE {"no data"})
  /\ UNCHANGED <<cur, answers, client, tty, session, outside>>

\* MQTTClient_publishMessage(), whose result nobody looks at.
Publish ==
  /\ pc = "publish" /\ pc' = "receive"
  /\ answers' = IF link THEN Append(answers, [request |-> cur, reply |-> payload]) ELSE answers
  /\ cur' = NoRequest
  /\ MayNotice
  /\ UNCHANGED <<payload, client, tty, link, subscribed, inbox, outside>>

\* The end of mqtt_loop() and of its process, which closes every descriptor.
Close ==
  /\ pc = "close" /\ pc' = "ended"
  /\ open' = {} /\ lock' = (IF lock \in open THEN Unlocked ELSE lock)
  /\ UNCHANGED <<cur, payload, answers, client, fd, reached, session, outside>>

Bridge ==
  \/ Connect \/ ConnectFails \/ SubscribeOpen
  \/ ReceiveMessage \/ ReceiveNothing \/ ReceiveError \/ Disconnected
  \/ TtyWrite \/ TtyRead \/ Publish \/ Close

-----------------------------------------------------------------------------
(* The world around the daemon.                                            *)

Send ==
  /\ link /\ subscribed
  /\ \E r \in Request \ sent : inbox' = Append(inbox, r) /\ sent' = sent \cup {r}
  /\ UNCHANGED <<pc, cur, payload, answers, client, tty, link, connected, subscribed, broker, breaks>>

\* The connection breaks, alone or with the broker.
Break ==
  /\ broker /\ breaks < MaxBreaks /\ breaks' = breaks + 1
  /\ link' = FALSE /\ broker' \in BOOLEAN /\ (link \/ ~broker')
  /\ UNCHANGED <<pc, cur, payload, answers, client, tty, connected, subscribed, inbox, sent>>

BrokerBack ==
  /\ ~broker /\ broker' = TRUE
  /\ UNCHANGED <<pc, cur, payload, answers, client, tty, session, sent, breaks>>

\* Another process takes or releases the lock of the tty.
OtherLocks ==
  /\ lock \in {Unlocked, Other} /\ lock' \in {Unlocked, Other} \ {lock}
  /\ UNCHANGED <<pc, cur, payload, answers, client, fd, open, reached, session, outside>>

World == Send \/ Break \/ BrokerBack \/ OtherLocks

Next == Bridge \/ World

Spec == Init /\ [][Next]_vars

\* The daemon's only thread keeps running, the library notices a lost
\* connection at last; nothing is assumed of broker, network and clients.
FairSpec == Spec /\ WF_vars(Bridge)

-----------------------------------------------------------------------------
(* Properties.                                                             *)

Reply == {"out len", "data format error", "data", "no data"}

FlagsOK ==
  link \in BOOLEAN /\ connected \in BOOLEAN /\ subscribed \in BOOLEAN /\ broker \in BOOLEAN

TypeOK ==
  /\ FlagsOK
  /\ pc \in {"connect", "open", "receive", "decode", "write", "read", "publish", "close", "ended"}
  /\ autoconntime \in 0..(MaxTime + 1) /\ cur \in Request \cup {NoRequest}
  /\ payload \in Reply \cup {"none"}
  /\ fd \in Fd \cup {NoFd} /\ open \subseteq Fd /\ lock \in open \cup {Unlocked, Other}
  /\ inbox \in Seq(Request) /\ sent \subseteq Request /\ reached \subseteq Request
  /\ answers \in Seq([request : Request, reply : Reply])
  /\ tries \in 0..(MaxTime + 1) /\ breaks \in Nat

\* Data published in answer to a request was read after that request, and no
\* other process's, went over the line under this process's lock: though the
\* loop ignores that tty_write() failed, it never reads what others asked for.
DataReached == \A i \in DOMAIN answers : answers[i].reply = "data" => answers[i].request \in reached

\* The daemon never tries in vain more than mqttautoconnmaxtime times in a
\* row, whatever happens between the attempts.
TriesBounded == pc # "ended" => tries <= MaxTime

\* A reconnect after an exchange leaves the lock to a descriptor nobody uses:
\* from then on no request reaches the line, through any further reconnect.
Stranded == lock \in open /\ lock # fd
StrandedForGood == [][Stranded /\ pc # "close" => Stranded' /\ reached' = reached]_vars

\* Requests are answered in the order they came, each at most once and with
\* a reply that fits it; one whose session was lost, one the decoder does not
\* come back from and those behind it are never answered.
Fitting(r) == CASE r \in TooLong -> {"out len"} [] Endless(r) -> {}
                [] r \notin TooLong /\ Odd(r) -> {"data format error"}
                [] OTHER -> {"data", "no data"}
Replies == [r \in Request |-> Fitting(r)]
pending == (IF cur = NoRequest THEN <<>> ELSE <<cur>>) \o inbox
G == INSTANCE Gateway
ImplementsGateway == G!Spec

\* While the connection holds, every request is answered, refused ones too, unless
\* it or one before it is a text the decoder does not come back from.
Answered ==
  \A r \in Request :
    (\E i \in DOMAIN pending : pending[i] = r /\ \A j \in 1..i : ~Endless(pending[j]))
      ~> ~link \/ \E i \in DOMAIN answers : answers[i].request = r

\* A broker that stays away makes the daemon end rather than try for ever,
\* or it is caught in the decoder.
GivesUp == <>[]~broker => <>(pc \in {"ended", "decode"})

\* A broker that stays, and a network that breaks no more, is found again
\* unless the daemon gave up before or is caught in the decoder.
Reconnects == AutoConn => (<>[]broker => <>[](link \/ pc \in {"ended", "decode"}))
=============================================================================
