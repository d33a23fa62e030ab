------------------------------ MODULE ApiCalls ------------------------------
(***************************************************************************)
(* One call that exchanges bytes with the tty, from its arguments to its   *)
(* result: read_rs485_data(), write_rs485_data(), terminal_send_read() and *)
(* get_rs485_data_to_gl_mqtt() of src/src/modbus_api.c and                 *)
(* tty_write_read() of src/src/conn.c (the options -S and -H).  The        *)
(* sharing of the tty is the subject of SerialBus; here it may be busy.    *)
(***************************************************************************)
EXTENDS HexText

CONSTANTS
  Counts,   \* values of data_count and reg_len
  Answers,  \* lengths of the answers of the device, 0 when it is silent
  Stale,    \* numbers of bytes that may wait from before
  Tries,    \* tries for the lock, 30
  Fifo,     \* bytes the driver hands over at a time, 8 in the code
  RxMax     \* bytes asked of one read(), 200

ASSUME CallAssumption ==
  /\ Counts \subseteq 0..(ByteMod - 1) /\ Answers \subseteq Nat /\ Stale \subseteq Nat
  /\ Tries \in Nat /\ Fifo \in Nat \ {0, 1} /\ RxMax \in Nat /\ RxMax > Fifo
  /\ ByteMod > 14

Modbus == {"read", "write"}
Raw    == {"terminal", "tool", "tomqtt"}

VARIABLES
  pc, kind,
  hex,      \* the text is decoded and the answer encoded: ttytype hex, -H
  given,    \* data_count of a write, reg_len of a read
  fd,       \* "closed": the number is still used
  tries,
  sent,     \* what was written to the tty
  answer,   \* the length of the answer to it
  coming,   \* bytes of the answer that are still to arrive
  fifo,     \* bytes that arrived and were not read
  ret, count,
  prompt,   \* nothing kept the reader from taking each chunk as it came
  result

callVars == <<pc, kind, hex, given, fd, tries, sent, answer, coming, fifo, ret, count, prompt, result>>
vars     == <<callVars, textVars>>
asked    == <<kind, hex, given>>
line     == <<sent, answer, coming, fifo, prompt>>
reading  == <<ret, count>>

Length == Strlen(orig)

\* Decoding comes before the open in one of the calls and after it in two.
Init ==
  /\ TextInit
  /\ kind \in Modbus \cup Raw /\ hex \in BOOLEAN
  /\ given \in IF kind \in Modbus THEN Counts ELSE {0}
  /\ kind \in Modbus => ~hex
  /\ kind = "read" => Length = 0
  /\ kind = "tomqtt" => hex
  /\ counted = (kind # "terminal")
  /\ pc = CASE kind = "write" -> "check" [] kind = "tomqtt" -> "text" [] OTHER -> "open"
  /\ fd = "none" /\ tries = 0 /\ sent = <<>> /\ answer = 0 /\ coming = 0 /\ fifo \in Stale
  /\ ret = Fifo /\ count = 0 /\ prompt = TRUE /\ result = "none"

Return(r) == pc' = "done" /\ result' = r

-----------------------------------------------------------------------------
(* The arguments.                                                          *)

\* my_hex_str_to_i_l(data, 2, 2 * i): the offset is a byte.
DataByte(n) == LET offset == (2 * n) % ByteMod IN <<orig[offset], orig[offset + 1]>>

\* gl_crc16() takes the length as a byte.
Crc(len) == [over |-> len % ByteMod]

\* Faulty variant: the checksum is taken one byte short.
MutWriteCmd ==
  [n \in 1..(8 + given) |->
    IF n <= 7 THEN "head" ELSE IF n <= 7 + given THEN DataByte(n - 8) ELSE Crc(6 + given)]

\* Seven bytes, the data and the checksum (here one element), which is
\* stored when the loop has run past the data.
WriteCmd ==
  [n \in 1..(8 + given) |->
    IF n <= 7 THEN "head" ELSE IF n <= 7 + given THEN DataByte(n - 8) ELSE Crc(7 + given)]

ReadCmd == [n \in 1..7 |-> IF n <= 6 THEN "head" ELSE Crc(6)]

\* The data must have two digits for each byte announced.
FormatFail == Length % 2 = 1 \/ given * 2 # Length

CheckData ==
  /\ pc = "check"
  /\ IF FormatFail THEN Return("badtext") ELSE pc' = "open" /\ UNCHANGED result
  /\ UNCHANGED <<asked, fd, tries, line, reading, textVars>>

\* The loops of HexText.
Convert ==
  /\ pc = "text" /\ TextNext
  /\ UNCHANGED callVars

\* An odd number of characters: the call returns as it stands.
OddText ==
  /\ pc = "text" /\ step = "odd"
  /\ Return("badtext")
  /\ UNCHANGED <<asked, fd, tries, line, reading, textVars>>

Converted ==
  /\ pc = "text" /\ step = "decoded"
  /\ pc' = IF kind = "tomqtt" THEN "open" ELSE "lock"
  /\ UNCHANGED <<asked, fd, tries, line, reading, result, textVars>>

-----------------------------------------------------------------------------
(* The tty.                                                                *)

Opened == IF kind \in {"terminal", "tool"} /\ hex THEN "text" ELSE "lock"

Open ==
  /\ pc = "open" /\ fd' = "open" /\ pc' = Opened
  /\ UNCHANGED <<asked, tries, line, reading, result, textVars>>

\* terminal_send_read() and tty_write_read() do not look at the result.
OpenFails ==
  /\ pc = "open"
  /\ IF kind \in {"terminal", "tool"} THEN pc' = Opened /\ UNCHANGED result ELSE Return("notty")
  /\ UNCHANGED <<asked, fd, tries, line, reading, textVars>>

\* Faulty variants: one try too many, and tries that are counted round.
MutBusyLate ==
  /\ pc = "lock" /\ fd = "open" /\ tries <= Tries
  /\ tries' = tries + 1
  /\ UNCHANGED <<pc, asked, fd, line, reading, result, textVars>>

MutBusyForever ==
  /\ pc = "lock" /\ fd = "open"
  /\ tries' = (tries + 1) % (Tries + 1)
  /\ UNCHANGED <<pc, asked, fd, line, reading, result, textVars>>

Busy ==
  /\ pc = "lock" /\ fd = "open" /\ tries < Tries
  /\ tries' = tries + 1
  /\ UNCHANGED <<pc, asked, fd, line, reading, result, textVars>>

\* Faulty variant: the descriptor is kept.
MutLockTimeout ==
  /\ pc = "lock" /\ fd = "open" /\ tries = Tries
  /\ IF kind \in Modbus THEN Return("busy") ELSE pc' = "rx" /\ UNCHANGED result
  /\ UNCHANGED <<asked, fd, tries, line, reading, textVars>>

\* The callers of tty_write() go on to read.
LockTimeout ==
  /\ pc = "lock" /\ fd = "open" /\ tries = Tries
  /\ fd' = "closed"
  /\ IF kind \in Modbus THEN Return("busy") ELSE pc' = "rx" /\ UNCHANGED result
  /\ UNCHANGED <<asked, tries, line, reading, textVars>>

NotOpen ==
  /\ pc = "lock" /\ fd = "none"
  /\ pc' = "rx"
  /\ UNCHANGED <<asked, fd, tries, line, reading, result, textVars>>

Bytes ==
  CASE kind = "read"  -> ReadCmd
    [] kind = "write" -> WriteCmd
    [] OTHER -> IF hex THEN [n \in 1..(nbytes \div 2) |-> out[n - 1]]
                ELSE [n \in 1..Length |-> orig[n - 1]]

\* Faulty variant: what waits is not flushed.
MutSend ==
  /\ pc = "lock" /\ fd = "open"
  /\ sent' = Bytes /\ answer' \in Answers /\ coming' = answer'
  /\ pc' = "rx"
  /\ UNCHANGED <<asked, fd, tries, fifo, prompt, reading, result, textVars>>

\* The lock, the flush and the write; then the device answers.
Send ==
  /\ pc = "lock" /\ fd = "open"
  /\ sent' = Bytes /\ answer' \in Answers /\ coming' = answer' /\ fifo' = 0
  /\ pc' = "rx"
  /\ UNCHANGED <<asked, fd, tries, prompt, reading, result, textVars>>

-----------------------------------------------------------------------------
(* The answer: reads go on as long as each gives as many bytes as the      *)
(* driver hands over at a time.                                            *)

Arrive ==
  /\ coming > 0
  /\ LET n == IF coming < Fifo THEN coming ELSE Fifo
     IN coming' = coming - n /\ fifo' = fifo + n
  /\ UNCHANGED <<pc, asked, fd, tries, sent, answer, prompt, reading, result, textVars>>

\* Faulty variant: the first read is the last.
MutReadOn(r) == FALSE

ReadOn(r) == r = Fifo

\* One turn of the loop: a read returned r.
Turn(r) ==
  /\ ret' = r
  /\ count' = IF kind = "tomqtt" /\ r < 0 THEN count ELSE count + r
  /\ pc' = IF ReadOn(r) THEN "rx" ELSE "close"
  /\ UNCHANGED <<asked, fd, tries, sent, answer, coming, result, textVars>>

\* What a read() takes.
Taken == IF fd # "open" THEN 0 ELSE IF fifo < RxMax THEN fifo ELSE RxMax

Rx ==
  /\ pc = "rx" /\ fd = "open" /\ fifo > 0
  /\ Turn(Taken) /\ fifo' = fifo - Taken
  /\ prompt' = (prompt /\ fifo <= Fifo)

\* The timer ends with nothing read, perhaps before the device is done.
RxTimeout ==
  /\ pc = "rx" /\ fd = "open" /\ fifo = 0
  /\ Turn(0) /\ prompt' = (prompt /\ coming = 0) /\ UNCHANGED fifo

\* The attributes cannot be read or set, before the read() or after it:
\* always so without a descriptor.
RxFails ==
  /\ pc = "rx"
  /\ Turn(-1) /\ prompt' = FALSE /\ fifo' \in {fifo, fifo - Taken}

\* gl_crc16() over what was received without the last two bytes, with the
\* length as a byte, finds what the device sent when nothing is missing.
CrcOk == count = answer /\ Crc(count - 2).over = count - 2

Result ==
  IF kind \in Modbus
    THEN IF count > 1 /\ (kind = "write" \/ given > 0)
           THEN IF CrcOk THEN "crcok" ELSE "badcrc"
           ELSE "fail"
    ELSE IF kind = "tomqtt" /\ count = 0 THEN "fail" ELSE "data"

Close ==
  /\ pc = "close"
  /\ fd' = "none" /\ Return(Result)
  /\ UNCHANGED <<asked, tries, line, reading, textVars>>

CallStep ==
  \/ CheckData \/ Convert \/ OddText \/ Converted
  \/ Open \/ OpenFails \/ Busy \/ LockTimeout \/ NotOpen \/ Send
  \/ Rx \/ RxTimeout \/ RxFails \/ Close

Next == CallStep \/ Arrive

Spec == Init /\ [][Next]_vars

\* The thread of the call is scheduled; nothing is asked of the device.
FairSpec == Spec /\ WF_vars(CallStep)

-----------------------------------------------------------------------------

TypeOK ==
  /\ pc \in {"check", "text", "open", "lock", "rx", "close", "done"}
  /\ kind \in Modbus \cup Raw /\ hex \in BOOLEAN /\ given \in Counts \cup {0}
  /\ fd \in {"none", "open", "closed"} /\ tries \in 0..Tries
  /\ answer \in Answers \cup {0} /\ coming \in 0..answer /\ fifo \in Nat
  /\ ret \in -1..RxMax /\ count \in Int /\ prompt \in BOOLEAN
  /\ result \in {"none", "badtext", "notty", "busy", "crcok", "badcrc", "fail", "data"}

\* What a call returns are bytes of the answer to its own question: bytes
\* that waited from before are flushed with the lock held, and a call that
\* was refused the lock or the tty reads nothing, whatever waits there.
OwnBytes == count + coming + fifo <= answer \/ count <= 0

\* An answer of any length, multiples of eight too, is taken whole when
\* each chunk is read as it comes, and a modbus call finds its checksum
\* right up to the length that fits the byte it is computed with.
Whole == pc = "done" /\ prompt /\ result \in {"crcok", "badcrc", "fail", "data"} =>
  /\ count = answer
  /\ result # "badcrc" \/ answer >= ByteMod + 2

\* A write sends the bytes its text stands for, and a checksum over all
\* before it, as long as the offset into the text fits its byte.
FrameRight == kind = "write" /\ sent # <<>> /\ 2 * given <= ByteMod =>
  /\ \A n \in 1..given : sent[7 + n] = <<orig[2 * n - 2], orig[2 * n - 1]>>
  /\ sent[8 + given] = [over |-> 7 + given]

\* A call gives its descriptor back however it ends, but for the text of odd
\* length, which two of them find out when the tty is open.
GivesBack == pc = "done" => fd # "open" \/ (step = "odd" /\ kind \in {"terminal", "tool"})

\* A call returns, with any device, any errors and a tty that stays busy,
\* unless it has to decode a text its counters cannot count.
Countable == ~hex \/ Length < ByteMod - 2
CallReturns == Countable ~> (pc = "done")

\* The phases a call has before it, this one included.  One call decodes its text before
\* it opens the tty, two after it.
PhasesLeft ==
  CASE pc = "done"  -> 0
    [] pc = "close" -> 1
    [] pc = "rx"    -> 2
    [] pc = "lock"  -> 3
    [] pc = "open"  -> IF kind = "tomqtt" THEN 4 ELSE 9
    [] pc = "check" -> 10
    [] pc = "text"  -> CASE step = "blanks" -> 8 [] step = "digits" -> 7
                         [] step = "pairs" -> 6 [] OTHER -> 5

\* What bounds the turns of the loop a phase consists of.
WorkLeft ==
  CASE pc = "lock" -> Tries - tries
    [] pc = "rx"   -> coming + fifo
    [] pc = "text" -> CASE step = "blanks" -> Length - i
                        [] step \in {"digits", "pairs"} -> nbytes + 2 - size1 [] OTHER -> 0
    [] OTHER       -> 0

\* Why a call ends: whatever the device, the tty and the other users of it do, each step
\* brings the call to a later phase, or takes from the work that bounds the loop it is in,
\* or is a chunk of the answer arriving.  No loop can be entered again and none can feed
\* itself: the decoder's 8 bit counters do not wrap on a countable text, the tries for the
\* lock are never set back, and the read loop ends with the answer.
CallAdvances ==
  [][Countable =>
       /\ WorkLeft' >= 0
       /\ \/ PhasesLeft' < PhasesLeft
          \/ PhasesLeft' = PhasesLeft /\ WorkLeft' < WorkLeft
          \/ PhasesLeft' = PhasesLeft /\ WorkLeft' = WorkLeft /\ coming' < coming]_vars
=============================================================================
