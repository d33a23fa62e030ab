# gl-rs485 in TLA+

Models, model checks and proofs for `gl-rs485`, the program that bridges an RS485
serial line to TCP/UDP sockets and to MQTT, and that gives a router's web API access
to the same line. Paths and line numbers are those of this repository; `conn.c` is
`src/src/conn.c`, and so on.

## The system

| Part | State it keeps | Operations | What makes it correct |
| --- | --- | --- | --- |
| Connection loop (`conn.c`, `state.c`) | queue of connections, each with descriptor, FSM state, seconds left and buffer; `tty`, `one_time`, `actconn`, the fd sets, the remainder `tout` | `conn_loop`: select, expire, accept, walk; `conn_open`, `conn_close`, `conn_write`, `tty_write`, `tty_read` | live elements only are dereferenced; descriptors balance; limits hold; silent connections go, others stay; each gets its own answer |
| Connection queue (`queue.c`) | doubly linked list, `beg`, `end`, `len` | append, delete, next with wrap | a well formed list in order of arrival, under deletion in mid walk |
| Serial port (`uart_posix.c`) | the device's attributes, one saved copy per process, kernel buffers, the `flock` | open, flush, write, read with timer, close | exchanges exclude each other; nobody disturbs another's exchange; attributes restored |
| Serial API (`modbus_api.c`) | none between calls | `read_rs485_data`, `write_rs485_data`, `terminal_send_read`, `get_rs485_data_to_gl_mqtt` | own answer, "busy" only when busy, descriptor and lock given back on every path |
| MQTT bridge (`mqtt.c`) | client handle, tty descriptor, reconnect counter | receive, exchange, publish; reconnect or give up | one answer per request, bounded reconnects, no descriptor lost |
| Life cycle (`main.c`, start/stop/status calls) | UCI `status` of each bridge, the daemon processes | start by `popen`, stop by `kill -9`, status | status agrees with what runs |
| Codecs (`modbus_api.c`, `crc16.c`) | none | hex to bytes and back, blanks, CRC, chunked read | inverse of each other, bounded, terminating |
| Configuration (`cfg.c`, get/set calls, options) | `cfg`, UCI file | defaults, UCI values, options | options win over stored values, numbers parsed as written |
| Sockets (`sock.c`), log (`log.c`), tools (`-S`, `-H`, `-F`) | descriptors; two log files | create, accept; write, switch; one exchange or a file transfer | no descriptor lost; bounded logs |

How they meet: the daemon is one thread. `main` runs `conn_init` and then `conn_loop`
(`-B socket`) or `mqtt_loop` (`-B mqtt`). `conn_loop` owns the queue and calls the serial
port directly, so an exchange on the line stops everybody else for its duration. The
API calls run in another process and open the same device. What the processes share is
the device (attributes, buffers), its advisory lock, and the UCI file. There are no
tests in the repository; the references besides the code are its comments, the API
documentation in `modbus_api.c`, and `readme.md`.

What is hard here: elements leaving the queue in the middle of a walk; a length that is
shared by all connections; descriptor numbers that change owner; time taken off in
whole seconds with a remainder; a lock that some callers do not check and one caller
never releases; flushes and attribute changes outside the lock; daemons that are killed
between any two system calls. `PROJECT.json` lists these hazards at their lines with the
properties that cover them.

## Modules

- **QueueOps**: the queue as a sequence without repetitions, `NewElem`, `DeleteElem`,
  `NextElem`. **DataLemmas**: lemmas about them, and induction and recursion over the
  numbers, for all proof modules.
- **ConnSeq**, **ConnQueue**, **ConnQueueMC**, **ConnQueueProofs**: `ConnQueue` is `queue.c` pointer by
  pointer (`beg`, `end`, `len`, `next`, `prev`, and the set of nodes that `malloc` has
  given out), with the calls of `conn.c`: append between walks, a walk, `conn_close` of
  the walk's element. It implements `ConnSeq`, which is written with `QueueOps`, under
  the mapping `Chain`: the nodes met by following `next` from `beg`. That is what
  entitles `ConnLoop` to use `QueueOps`; in return `ConnLoop` promises in `QueueUse` what
  `ConnSeq` requires of its user.
- **ConnLoop**, **ConnLoopMC**, **ConnLoopProofs**: `conn_loop()` with `conn_open`,
  `conn_close`, `conn_write`, `state_conn_set` and the exchange on the tty.
- **SerialBus**, **SerialBusMC**, **SerialBusProofs**: several processes on one tty.
- **Gateway**: what a bridge promises those who ask: requests handled in order, each
  answered at most once with a reply that fits, lost ones never answered later.
- **MqttBridge**, **MqttBridgeMC**, **MqttBridgeProofs**: `mqtt_loop()` with the broker,
  the connection, the session and the lock of the tty around it; it implements `Gateway`.
- **HexText**, **HexTextProofs**: `remove_blank`, `remove_blank1` and `gl_str2acsll` loop
  by loop, on the buffer they change in place.
- **ApiCalls**, **ApiCallsMC**, **ApiCallsProofs**: one call that exchanges with the tty,
  from its arguments to its result. It EXTENDS `HexText`: `Convert` is a step of its loops.
- **LifeCycle**, **LifeCycleMC**, **LifeCycleProofs**: the processes, `main()`, the start,
  stop and set calls, and the stored configuration and status.

How they fit: `ConnLoop` and `MqttBridge` are the two daemons seen from inside,
`SerialBus` is all processes seen from the tty, `ApiCalls` is one call seen from its
bytes, `LifeCycle` is all processes seen from the store. Each takes of the others what it
can observe: `ConnLoop` and `MqttBridge` see the lock had or not had, `LifeCycle` sees a
bridge that serves and then ends or dies.

### ConnLoop and the code

`pc` names the stretch of `conn_loop()` that runs next: `select` (391-441), `expire`
(443-469), `accept` (470-476, `conn_open`), `walk` (478-590), `tty` (501-571, between
`read()` of the request and the end of the exchange), `decode` (the loop of
`gl_str2acsll()` that does not end), `exit` (the function returned or the process was
killed). `queue`, `sd`, `state`, `timeout`, `rd`, `wr`, `cur`, `left` and
`tout` are `queue`, the fields of `conn_t`, `sdsetrd`, `sdsetwr`, `curconn`, `len` and
`tout`. `resp[c]` and `rxlen` are the lengths of the text in the connection's buffer and
`tty.rxlen`. `fdtab` is the kernel's descriptor table: `accept()` takes the lowest free
number, so a number closed by `tty_write` soon belongs to a client (`Misdirect`).
`locked` tells whether the daemon has the flock: without it `tty_write` may fail after
its tries (`TtyWriteError`), with it it does not.

With `ttytype` "str" the request is hexadecimal text of up to 256 characters, which
`gl_str2acsll()` decodes (conn.c:528). It counts with a `uint8_t`, and of 254 or 256
digits it never reaches the end (modbus_api.c:220, 232): `DecodeForever` enters `decode`,
from where the daemon takes no step. One such text stops the bridge for everybody.

Clients are actions of their own between any two steps of the daemon: connect, send,
close, reset, stop reading (`stalled`, entered when a write fills the send buffer), read
again. `peer` distinguishes a pending reset from one already reported, because the
second write to a dead peer raises SIGPIPE and ends the process (`Killed`); nothing in
the code ignores that signal.

`AdvanceClosed` is the delicate step: `conn_close` looks up the next element before it
deletes, and the loop then takes the next of that. When the closed element was alone,
that next element is the freed one; what the loop reads from it is modelled as any
pointer at all. `WalkSafe` says that no visit follows.

With `connmode` "tcpc" or "udp" (`Listening = FALSE`) there is one peer on `server_sd`
from the start, queued once; closing it closes `server_sd`, and `select()` then fails.

`idle` is a history variable (measured ticks since the last state change). Time is what
the loop measures: the wait in `select()`. Time spent in the walk and on the tty is not
measured by the code either. The clock is taken to run forward.

### SerialBus and the code

Each process is of one kind. `pc` goes through `opened` (between `open()` and the flush
50 ms later), `ready` (a daemon waits), `lock` (the retry loop), `send`, `sent`, `reading`
(inside `MyuartRxExpires`), `close`. The kinds differ as the code does:

| kind | code | lock not had |
| --- | --- | --- |
| `Bridge` | `conn_loop`, `tty_write` | closes the tty, answers an error, keeps the stale number |
| `Mqtt` | `mqtt_loop`, `tty_write` | closes the tty and reads from the stale number |
| `Modbus` | `read_rs485_data`, `write_rs485_data` | closes and returns -2 |
| `Terminal` | `terminal_send_read`, `get_rs485_data_to_gl_mqtt`, `tty_write_read` | closes, reads from the stale number, closes again |
| `File` | `tty_write_file` | takes no lock |

`attrs`, `saved` and `rxSaved` are the device's attributes, `origTTYAttrs` (a static of
each process) and the local copy of `MyuartRxExpires`. `outbuf`, `wire`, `inbuf` are the
requests and answers on their way; a frame sent with other attributes than `uartOpen`
sets may be lost. `orphan` marks a lock held through a descriptor that `mqtt_loop` lost
when it started over (mqtt.c:49, 67). `Kill` is the stop call's `kill -9`, and also the
end of `conn_loop()`, neither of which restores attributes. The bodies of the two modbus
calls, and those of the terminal calls, differ in data only and share actions.
A bridge that is caught in the decoder is one that asks no more.
`get_rs485_data_to_gl_mqtt` checks its text before it opens the tty, the other terminal
calls after (`OddLength`: they return with the descriptor open). The bytes on the line
are whole frames, so the read loop in 8 byte chunks is one read here.

### MqttBridge and the code

`pc` goes through `connect` (mqtt.c:22-43), `open` (45-50), `receive` (51-78), `write`
(`tty_write`), `read` (106-129), `publish` (130-143), `close` (146-149), `ended`, and
`decode`, which is left no more. `fd` is
the variable, `open` the descriptors the process has: each reconnect opens another one
and loses the last (line 49 after the `goto` in line 67). `lock` is the descriptor that
holds the lock. `link` is the connection, `connected` what the client library believes;
`MQTTClient_receive()` returns -3 only when the library knows, an error otherwise, and an
error resets the counter as a message does (line 75). `tries` is a history variable, the
connects that failed in a row. A payload is one of four classes: too long (`TooLong`), an
odd number of digits (`OddText`), too long for the decoder (`LongText`), plain.

The third class is an even number of digits from 254 to the 1024 that mqtt.c:79 accepts.
With `ttytype` "str" `gl_str2acsll()` (mqtt.c:97) does not come back from it, as in
`conn_loop()` above: `ReceiveMessage` then goes to `decode` (`Endless`). That request and
all behind it get no answer, a loss of the connection is not noticed, and the process
does not end by itself, whatever "auto connection" (modbus_api.c:1141) is set to.
`Answered`, `GivesUp` and `Reconnects` name this outcome as the exception.

The refinement mapping to `Gateway` is `pending`, the request in hand before the inbox.
`Publish` with the connection gone is `Lose`, as is a new session.

### HexText, ApiCalls and the code

Arrays start at 0. A character is its hexadecimal value, `Blank`, or `BadChar`. `kept` is
a history variable: where the characters that were kept come from. A byte in `acsll_out`
is its two halves; `Join` is `x << 4 | y` on them, `Mixed` where bits of two digits meet,
which happens behind the text, where the second loop joins what an earlier call left.
`size1` and `j` wrap at `ByteMod`: for a text of `ByteMod - 2` characters and more the loop
does not end, which `Decoded` and `CallReturns` state as the limit.

`pc` of ApiCalls goes through `check` (the arguments of a write), `text` (the loops of
HexText), `open`, `lock`, `rx` (the read loop), `close`, `done`. `kind` tells the five calls
apart where they differ: two of them decode the text after the open and one before; two
do not look whether the open failed; three write through `tty_write()`, which closes a
descriptor it could not lock while its caller goes on to read; one adds only positive
results of the read. `fifo` and `coming` are the bytes of the answer that have and have
not arrived. `prompt` is a history variable: every chunk was taken as it came.

### LifeCycle and the code

`proc[p].at` goes through `main` (options), `log` (the log opened), `forked` (after
`daemon()`), for the socket bridge `tty`, `bound`, `ready` (in `conn_init()`), then
`serving`, `ending`, `gone`. `cfg` is what `cfg_init()` and the options made of `read`, the
store at that moment; `tty_open()` calls `cfg_init()` a second time (`ReadConfig`). A bridge
that is caught in the decoder is one that serves on: nothing but a stop ends it. A start call waits for
the process it launched to leave the foreground. A stop call lists the numbers of the
processes (`LivePid`) and kills them one by one; a process has another number after
`daemon()`. One `guci2_commit()` is one step: the library merges the options it changed.
`clean` is a history variable, see `StatusTrue`.

## Runs

| run | instance | shows |
| --- | --- | --- |
| LoopWalk | 3 clients, 5 descriptors, FD_SETSIZE 4, hex text, close, reset and texts too long for the decoder | `TypeOK`, `WalkSafe`, `DescriptorsConserved`, `SelectSafe`, `QueueUse` |
| LoopLive | 2 clients, 3 descriptors, conntimeout 1 s, all faults, hex text, also too long for the decoder, a silent slave, fair | `NoStaleConn`, `WaitingServed` |
| LoopTcpc | 1 peer on `server_sd`, all faults, conntimeout 2 s in half second ticks, fair | `TimeoutAccounting`, `LostServerEnds`, `AnswersOwnLength` |
| QueueLinks | 5 nodes | `Linked`, `ImplementsConnSeq` |
| BusBridge | bridge, modbus call, terminal call, 2 retries, fair | `TypeOK`, `OwnAnswers`, `CallsEnd`, `CallsUnlock` |
| BusDaemons | both bridges, file transfer, kills, reconnects, late answers | `MutualExclusion`, `LockHeldOpen` |
| Mqtt | 5 requests, two plain and one of each other class, MaxTime 2, 3 descriptors, 1 failure of network or broker, another user of the tty, fair | `DataReached`, `TriesBounded`, `StrandedForGood`, `ImplementsGateway`, `Answered`, `GivesUp`, `Reconnects` |
| ApiCalls | 5 calls, 92 texts, answers of 0, 8, 18, 19 bytes in chunks of 8, counters of 16 values, fair | `Compacted`, `Decoded`, `OwnBytes`, `Whole`, `FrameRight`, `GivesBack`, `CallReturns`, `CallAdvances` |
| LifeCycle | 2 processes, 2 calls, 2 speeds, 2 modes, one option | `StatusTrue`, `OneListener`, `ConfigRight` |
| LoopSharedLen | 2 clients, two answer lengths | violation of `AnswersOwnLength` |
| LoopPurge | 2 clients, conntimeout 1 s | violation of `PurgeKeepsServing` |
| LifeOptions | as LifeCycle | violation of `OptionsHold` |

Each module that has a `TypeOK` has it checked in one of its runs.

What the violations show:

- *LoopSharedLen*: `conn_write` sends `tty.rxlen` bytes (conn.c:577), and that variable is
  overwritten by the next exchange. With one connection (LoopTcpc) it is always right.
- *LoopPurge*: `conn_loop` returns after closing the first expired connection
  (conn.c:463), which ends the daemon for everybody. The comments speak of expiring
  connections (444, 460).
- *LifeOptions*: `-s` and `-P` are announced as setting speed and port (readme.md:16,
  main.c:73-88). A socket bridge reads the configuration again when it opens the tty
  (conn.c:24) and runs with the stored values. `ConfigRight` says what a bridge without
  options and an MQTT bridge run with.

What the passing runs show beyond their names:

- *Mqtt*: `StrandedForGood` is about a state the code does reach. An exchange takes the
  lock on the descriptor of that session; after a reconnect the lock is still held by it,
  nobody uses it any more, and every later request is answered "no data" until the
  process ends. `DataReached` shows that it is at least never answered with foreign data.
  `GivesUp` needs that the counter is not reset by connects that fail; `Reconnects` that it
  is by ones that succeed.
- *ApiCalls*: `Whole` holds for answers whose length is a multiple of the chunk: the loop
  reads once more and takes the timeout's 0. `GivesBack` names its exception in the
  formula: a text of odd length in `terminal_send_read` and `-H` leaves the tty open.
  `CallAdvances` is the reason behind `CallReturns`: the triple of phases left
  (`PhasesLeft`), work left in the phase (`WorkLeft`: text, digits, tries, bytes) and bytes
  to come is lowered by every step, in lexicographic order, and never below 0. It excludes
  texts the 8 bit counters cannot count, for which the decoder does not end.
- *LifeCycle*: `StatusTrue` says under which conditions the status can be believed: since
  the last stop that left nothing running, calls came one at a time, found nothing
  running, and nothing ended by itself (`clean`). It is a conditional statement and would
  not catch what goes wrong without the conditions, see below. `ConfigRight` says what a
  bridge without options and an MQTT bridge run with; the socket bridge with options is
  in LifeOptions.
- *LoopLive*: what `WaitingServed` excludes is starvation, by `goto sele` after a failing
  read and by closes in mid walk. It names two ends of service: the daemon ends, or it is
  caught in the decoder. With three descriptors the table is full after one client, so
  that two are queued at once when the tty's number is free (`TtyWriteError`).
- *LoopWalk*: the half of `SelectSafe` about `maxconn` cannot be exceeded with three
  clients and `MaxConn` 3; it rests on the theorem `SelectIsSafe`. `QueueUse` meets
  removals anywhere in the queue here.
- *LoopTcpc*: with one connection `tty.rxlen` cannot be overwritten; `AnswersOwnLength` is
  the counterpart of LoopSharedLen. `TimeoutAccounting` has a timeout that is reset in the
  middle of a second here; that the remainder belongs to several connections at once is
  in the theorem `TimeoutsAccounted`.
- *BusBridge*: `OwnAnswers` is for a slave that is prompt. An answer that comes after the
  reader's timer ended is in BusDaemons; the next exchange may read it. `CallsEnd` counts
  a call that was refused as ended, so it does not show that a call beside a bridge is
  ever served: it is not, see below.

### Where code and documents part, without a run

- On a read error the code says "drop this connection and go to next queue element"
  (conn.c:490) and does `goto sele`: neither happens. `WaitingServed` shows that nobody
  starves by it.
- `tty_write` never unlocks: a bridge that exchanged once keeps every modbus call out with
  -2, which modbus_api.c:607 calls "device busy", though the line is idle.
- The status calls are documented to return the status of the connection
  (modbus_api.c:1349, 1439). A start call sets "1" (modbus_api.c:1290) when the daemon it
  launched has already ended; a bridge that ends by itself sets both to "0" (main.c:282),
  also that of the bridge that goes on; a stop call kills the processes it listed and
  then sets both to "0" (modbus_api.c:1410), so a bridge that was started after the list
  was made, or changed its number in `daemon()` meanwhile, serves on and is shown as
  stopped. All of this is in the model; `StatusTrue` leaves it out by `clean`.
- A process that opens the tty while another has it open saves the working attributes as
  the ones to restore (uart_posix.c:453), and the close of a refused caller puts the default
  ones on the device in the middle of another's exchange.
- `-s`, `-p`, `-A`, `-P`, `-M`, `-T`, `-C` are announced for all uses (main.c:73-78); the
  socket bridge reads the configuration again in `tty_open()` and drops them; the run
  LifeOptions shows it for `-s` and `-P`. `-t` is in
  the usage and not in the list of `getopt()`. `-m` takes an upper case parity, which
  `uartOpen` compares in lower case. `-v` has no effect, since the log reads its level from
  UCI at every line, and `-L -` still logs, to a file named after the program.
- `conn_loop` and `mqtt_loop` decode hexadecimal text when the type is "str", the API when
  it is "hex".

Also in the models: `tty.fd` becoming a client's descriptor (`TtyWriteError`,
`Misdirect`), the flush at open discarding another's request or answer (`FlushOpened`), a
connection purged up to one second early because the remainder in `tout` belongs to all
(`TimeoutAccounting` allows for exactly that second).

### Bounds

- Clients: three are needed for an element that leaves from the middle of the queue and
  for a walk in which two leave; two for everything between connections, with time or
  liveness. Clients are interchangeable (`SYMMETRY`) where no liveness is checked.
- Descriptors: tty, server and one less or as many as the clients, so that the table
  fills (`AcceptFails`), numbers are refused by FD_SETSIZE (`DropConn`), and the number of
  the closed tty is used again. The queue reaches three in LoopWalk when the tty's number
  is free again.
- `MaxUnread` 1 or 2: unread requests matter only as none, one, or more than one read
  takes. Answer lengths: two different ones where they are compared; where no property
  mentions them `ControlView` leaves them out of the state, which is sound because no guard
  reads them. LoopLive has a silent slave (`AnswerLens` is empty): lengths decide no step.
- Time: two ticks a second and a timeout of one or two seconds give every combination of
  remainder and whole second; a wait may exceed what was asked for by a tick.
- Retries for the lock: 1 or 2 of the code's 30; 0, some, all tries fail alike.
- Mqtt: one failure, of the connection or of the broker, can come at any moment, and a
  broker that went may come back or not, which is what the liveness properties tell apart;
  three descriptors let two be lost and one be used; `MaxTime` 2 lets the counter be
  reset, reached and passed.
- ApiCalls: `ByteMod` 16 and a buffer of 32 stand for 256 and 512, texts of 12 to 18
  characters lie on both sides of `ByteMod - 2` and of `ByteMod`; all texts of up to three
  characters over a blank, a bad character and two digits; two with gaps of different
  length. Answers are a multiple of the chunk, on both sides of the byte of the checksum's
  length, and silence. The proofs take any width.
- LifeCycle: two processes are needed for everything between bridges, two calls for
  overlapping ones; one port makes every pair of bridges compete. Identities of processes
  are not used twice, so runs of the system are finite; by then stops, restarts and
  failures have met in every order. All texts of up to five
  characters check `strToNumber` against `Decimal`, scaled for what follows the number.
- `CHECK_DEADLOCK FALSE` in the runs of the loop, of `mqtt_loop`, of a call and of the
  processes: all of these really end.

### Fairness

`FairSpec` of ConnLoop is weak fairness of the daemon's next step as a whole: one thread
that the scheduler runs; every system call it makes returns, as `select()` has a timeout
and the tty is read with a timer. Nothing is assumed of clients. In SerialBus each
process with something to do runs, and the line moves on: the driver transmits, the slave
answers or its time is over. Calls are not assumed to be made, daemons are not assumed to
be asked, and no fairness is assumed of getting the lock.

MqttBridge: weak fairness of the daemon's next step as a whole. That the library notices
a lost connection at last is contained in it: with an empty inbox `ReceiveNothing` resets a
counter and `ReceiveError` is the step that changes something. Nothing is assumed of
broker, network, publishers and other users of the tty. ApiCalls: weak fairness of the
call's next step; nothing is assumed of the device, which may be silent. LifeCycle has
safety properties only.

## Proofs

All proofs are checked by TLAPS for every set of clients or processes and every value of
the limits, under the assumptions in `ConnLoop` (`ConnAssumption`, `LimitAssumption`: the
limits are numbers, `MaxConn` and the ticks not 0, the server's descriptor below
FD_SETSIZE, and one client when not listening) and in `SerialBus` (`ProcAssumption`: each
process is of one kind; `BusAssumption`), in `MqttBridge` (`RequestAssumption`: the texts
too long for the decoder are of even length), `HexText` (`TextAssumption`: texts end with
their first `Nul`, the counters have an even number of values, the buffer is larger),
`ApiCalls` (`CallAssumption`) and `LifeCycle` (`LifeAssumption`).

*ConnLoopProofs.* `IndInv` is the conjunction of
`TypeOK`;
`WalkInv`: no repetitions in the queue, visits left at most its length, `cur` in the queue
while a visit is left;
`BacklogInv`: nobody is queued and waiting to be accepted at once;
`TimeInv`: the accounting of `TimeoutAccounting`, less than a second in `tout` outside the
expiry check, time left for everybody queued.
`WalkSafe` alone is not inductive: a step back from the queue to its next element needs
that elements do not repeat, and that holds only because a client in the backlog is not
in the queue. One lemma per action shows that it keeps `IndInv`; closing an element is
`CloseWalk`: if visits are left, the element returned by `conn_close` is another, live one,
because `left <= Len(queue)` leaves none when the last one goes. `NoStaleConn` follows from
`TimeInv` by arithmetic. `DescInv` adds that every queued connection's descriptor is its own.
`RespInv`, an answer waiting to be sent has the length that `tty.rxlen` holds, is inductive
only when one connection at a time can be queued; `LoopSharedLen` shows what happens with two.

| theorem | property |
| --- | --- |
| `TypeCorrect` | `TypeOK` |
| `WalkIsSafe` | `WalkSafe` |
| `TimeoutsAccounted`, `NoStaleConnLeft` | `TimeoutAccounting`, `NoStaleConn` |
| `DescriptorsAreConserved`, `SelectIsSafe` | `DescriptorsConserved`, `SelectSafe` |
| `QueueUsedRight`, `OneConnOwnLength` | `QueueUse`; `AnswersOwnLength`, with `maxconn` 1 or without a listening socket |
| `TypeCorrect`, `LinksAgree`, `ImplementsSequence` (ConnQueueProofs) | `TypeOK`, `Linked`, `ImplementsConnSeq` |
| `BusTypeCorrect`, `ExchangesExclusive`, `LockIsHeldOpen` | `TypeOK`, `MutualExclusion`, `LockHeldOpen` |
| `AnswersAreOwn` | `OwnAnswers`, when the slave is prompt, nobody is killed and nobody writes unlocked |
| `TypeCorrect`, `OnlyReachedAnswered`, `RetriesBounded`, `StrandedStays`, `Implements` (MqttBridgeProofs) | `TypeOK`, `DataReached`, `TriesBounded`, `StrandedForGood`, `ImplementsGateway` |
| `TextCompacted`, `TextDecoded` (HexTextProofs) | `Compacted`, `Decoded` |
| `TypeCorrect`, `CallCompacts`, `CallDecodes`, `DescriptorGivenBack`, `FramesRight`, `BytesAreOwn`, `AnswersWhole`, `CallsAdvance` (ApiCallsProofs) | `TypeOK`, `Compacted`, `Decoded`, `GivesBack`, `FrameRight`, `OwnBytes`, `Whole`, `CallAdvances` |
| `TypeCorrect`, `PortsApart`, `StatusShown`, `RunsAsConfigured` (LifeCycleProofs) | `TypeOK`, `OneListener`, `StatusTrue`, `ConfigRight` |

*SerialBusProofs.* `LockInv` says that whoever exchanges on a live descriptor has the lock
through it, `HolderInv` what a holder may be doing; each process lets go of its own lock
only. `LineInv` says that every frame under way belongs to the holder, which waits for
it, and is in one place; hence what a read returns is the reader's own.

*DataLemmas* has what append, delete and next do to a sequence without repetitions, and
induction. The library's induction theorems take a predicate, which no prover here can
instantiate; the one that a well-founded order has least elements takes a set.
`LeastNat` is that for the numbers, `AllNats` the induction that follows for membership in a
set: to prove something of all numbers one defines the set of those that have it.
`Recursion` uses it twice, to show that a function defined by recursion exists and that it
satisfies its equation.

*ConnQueueProofs.* `Represents(q)` says that the links are those of the sequence `q`:
`beg` and `end` its ends, `next` and `prev` its neighbours, `live` its elements, `len` its
length. `Linked` alone is not inductive: cutting an element out needs to know that what
is behind it is reached in no other way. `AppendLinks` and `DeleteLinks` turn a link update
into an operation on `q`; `ChainFollows` shows, by induction on the position, that
following `next` from `beg` gives back `q`, so that the invariant can be stated of `Chain`
and needs no history variable. `Linked` counts nodes, hence the finite set lemmas. The
refinement then goes call by call; a call in the middle of a walk maps the walk's place
(`Walk`), which is nowhere when the element it stands on has been freed.

*MqttBridgeProofs.* `IndInv` is `TypeOK`, `HandInv` (a request is in hand between receive
and publish, in `decode` one the decoder does not come back from, and `pubmsg` holds a
reply that fits it), `LineInv` (what is read on an open descriptor was asked for) and
`CountInv` (the counter never lags behind the connects that failed: before a connect it is
ahead of them unless it is 0, and then a failure ends the process). `TriesBounded` alone
is not inductive, because a step from `connect` needs that lead. For the refinement each
action is mapped to `Accept`, `Answer`, `Lose` or a stutter; `HandInv` is what makes
`Publish` an `Answer` with a fitting reply.

*HexTextProofs.* `BlankInv` says what stands where while blanks are squeezed out: at the
front the characters kept (`KeptInv`), from `is` blanks, from `i` the text as it was
(`FrontInv`). That `in` is never reset is harmless because `in = 1` implies that the gap is
one place, `is = i - 1`. `DigitInv` has the invariants of the two loops; in the second,
`size1 = 2 * j`, so the pair that is read lies ahead of all places written.

*ApiCallsProofs.* A step of a call is a step of HexText or leaves its variables alone, so
its theorems carry over. `FdInv`: where the descriptor is open. `FrameInv`: what was sent
is what the text at that time was, and the text given does not change. `OwnInv`: the bytes
read, waiting and to come add up to the answer at most, since the flush under the lock
comes before the answer. `WholeInv`: they add up exactly while every chunk is taken as it
comes, and less than a chunk waits only when nothing is to come. `CallAdvances` needs
`TextInv`: only a call that decodes comes to the text loops, and what is left of its text
is no longer than the text, so the counters of a countable text do not wrap.

*LifeCycleProofs.* `OneListener` is inductive with the types: a process begins to listen in
the one step that finds the port free. `StatusTrue` is not: `StatusInv` adds that only
socket bridges go through `conn_init()`, that nothing is at its end while `clean` holds, and
that as long as no stop is under way the status is right and whatever a start call
launched is alive (`Shown`).

`ConfigRight` rests on `CfgInv`, which gives the configuration at each place of `main()` as
a function of what was read last, and on `NumberScaled`: `strToNumber()` of any text is the
number it begins with, times ten for each character behind the first that is no digit. Its
sum and the reference `Decimal` are recursive functions; that they exist is `RecursionUpto`,
that they agree (`Sums`) an induction over the digits, since one scales each digit at once
and the other step by step.

Every invariant, action property and refinement of the passing runs is proved, two of them
under the conditions the table names, which the instances of their runs meet. The
`ASSUME` in LifeCycleMC about all short texts repeats `NumberScaled` on the operators as
TLC evaluates them.

### Progress

The liveness properties themselves (`WaitingServed`, `LostServerEnds`, `CallsEnd`,
`CallsUnlock`, `Answered`, `GivesUp`, `Reconnects`, `CallReturns`) are only model-checked: a
proof from fairness needs ENABLED, which the prover does not have. What makes them true
needs no fairness, and that is proved, for all constants and against anything other
processes do: every step of the actor lowers a number (or a tuple of numbers, in
lexicographic order) and no step of anybody else raises it. What TLC adds is that the
actor is never stuck before the number is 0, save in one place: the decoder of the two
bridges, which `pc = "decode"` stands for. The theorems about them name it: each step
lowers the number or enters `decode`, and from `decode` the actor takes no step.

| theorem | what is lowered | at most | behind |
| --- | --- | --- | --- |
| `CallsAdvance` | phases left, work left in the phase, bytes to come of a call | text and answer | `CallReturns` |
| `ExchangesAdvance` | steps left of an exchange on the tty (`StepsLeft`) | `MaxTries + 6` | `CallsEnd` |
| `CallHoldsBriefly` | the same, while a call has the lock | 4 | `CallsUnlock` |
| `LostConnectionEnds` | the library's notice of the loss, messages received before it, tries left, steps of the pass; or `decode` is entered, for good | `MaxTime + 1` tries | `GivesUp`, `Reconnects` |
| `RequestsComeUp` | place of a request and steps of the pass, `4 * i + AnswerSteps`, if no request up to it is `Endless` | `4 * i + 1` | `Answered` |
| `RoundsEnd` | phases left, then three steps for each visit left of a round of `conn_loop()`; or `decode` is entered, for good | `3 * MaxConn + 4` | `WaitingServed` |
| `LostServerLeaves` | the way from the walk over `select()` to the end | 2 | `LostServerEnds` |

`RequestsComeUp` needs `LinkInv`: as long as the connection works, `connected` is true and
the loop is past connecting. A request for which there is no lock or no answer is answered
with "no data" in the same number of steps. `CallHoldsBriefly` needs `OrphanInv`: a lock
left to a lost descriptor is the MQTT bridge's. `LostServerLeaves` needs `ServerInv`: with
`server_sd` the only element leaves the queue, so the walk has nothing left to visit and
nothing takes the number again before `select()` fails on it.

For `WaitingServed` a round must also come to the waiting connection. `WalksInOrder` shows
that a walk in which nothing is closed visits each connection once, in the order in
which they came (`InStep`: the walk is as far in the queue as it has visits behind it). A
close in mid walk goes on behind the next element, which that round passes over, and a
failing read starts a new round (conn.c:490). That neither starves a connection is left
to TLC.

## Not modelled

- The contents of messages, except the text of the API calls; the CRC's polynomial;
  `gl_hex2str()`, a plain loop.
- Interrupted system calls (they are repeated); partial socket writes (the code takes them
  for complete); failures of `malloc`, `ioctl` and `setsockopt`; `TRXCTL` (not built); the
  clock set back. `sock_accept()` keeps its descriptor when `setsockopt()` fails (sock.c:215).
- `VTIME` is a byte of the timeout divided by 100: timeouts below 100 ms do not wait and
  those of 25600 ms and more wrap. The models have a timer that may end at any time.
- Lifetimes in memory: `pubmsg.payload` points to `alldata` after its block (mqtt.c:120),
  messages of the MQTT client are not freed, a payload of exactly 1024 bytes is terminated
  behind its buffer (mqtt.c:85), and without "str" up to 1024 bytes are copied into
  `write_buff`, which has 512 (mqtt.c:101).
- The meter calls of `modbus_api.c` (voltage, DLT645, temperature): the table of functions
  has them commented out, so nothing calls them. `tty_reopen()` and the unused variants in
  `uart_posix.c` likewise.
- Two udp bridges on one port: both may bind with `SO_REUSEADDR`; `OneListener` is about
  `tcps`.
- The log: it appends lines to a file and nobody reads its state.
- Vendored headers and libraries.

What would extend the project: a measure for `WaitingServed` over several rounds (the
elements in front of the waiting one, each with the close and the failing reads it has
left); liveness of start and stop calls.
