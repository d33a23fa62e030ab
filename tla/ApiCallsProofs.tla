--------------------------- MODULE ApiCallsProofs ---------------------------
(***************************************************************************)
(* Proofs about one call to the tty, for answers and stale bytes of any    *)
(* length, any number of tries and any text: what it decodes, whose bytes  *)
(* it returns, what it sends, and that it gives its descriptor back.       *)
(***************************************************************************)
EXTENDS ApiCalls, HexTextProofs

\* A call changes its text by the loops of HexText only.
LEMMA TextSteps == [Next]_vars => [TextNext]_textVars
<1> SUFFICES ASSUME [Next]_vars PROVE TextNext \/ textVars' = textVars  OBVIOUS
<1>1. CASE Convert  BY <1>1, Zenon DEF Convert
<1>2. CASE CheckData \/ OddText \/ Converted
  BY <1>2, Zenon DEF CheckData, OddText, Converted
<1>3. CASE Open \/ OpenFails \/ Busy \/ LockTimeout \/ NotOpen \/ Send
  BY <1>3, Zenon DEF Open, OpenFails, Busy, LockTimeout, NotOpen, Send
<1>4. CASE Rx \/ RxTimeout \/ RxFails \/ Close \/ Arrive
  BY <1>4, Zenon DEF Rx, RxTimeout, RxFails, Turn, Close, Arrive
<1>5. CASE UNCHANGED vars  BY <1>5, Zenon DEF vars
<1>6. QED  BY <1>1, <1>2, <1>3, <1>4, <1>5, Zenon DEF Next, CallStep

\* What is sent stands for the text as it was given.
LEMMA OrigKept == [TextNext]_textVars => orig' = orig
<1> SUFFICES ASSUME [TextNext]_textVars PROVE orig' = orig  OBVIOUS
<1>1. CASE MoveChar \/ KeepChar \/ PassBlank  BY <1>1, Zenon DEF MoveChar, KeepChar, PassBlank
<1>2. CASE CutText \/ PutDigit \/ DigitsDone \/ Pair \/ PairsDone
  BY <1>2 DEF CutText, PutDigit, DigitsDone, Pair, PairsDone, blankVars
<1>3. CASE UNCHANGED textVars  BY <1>3 DEF textVars, blankVars
<1>4. QED  BY <1>1, <1>2, <1>3, Zenon DEF TextNext

\* The squeezed text of a call holds the characters that are not blank.
THEOREM CallCompacts == Spec => []Compacted
<1>1. Init => TextInit  BY DEF Init
<1>2. SqueezeInv => Compacted  BY DEF SqueezeInv
<1>3. QED  BY <1>1, <1>2, SqueezeInit, SqueezeNext, TextSteps, PTL DEF Spec

\* The bytes of a call are those of its text.
THEOREM CallDecodes == Spec => []Decoded
<1>1. Init => TextInit  BY DEF Init
<1>2. SqueezeInv /\ DigitInv /\ [TextNext]_textVars => SqueezeInv' /\ DigitInv'
  BY SqueezeNext, DigitNext
<1>3. QED  BY <1>1, <1>2, SqueezeInit, DigitInit, DecodedThen, TextSteps, PTL DEF Spec

-----------------------------------------------------------------------------
(* Types.                                                                  *)

LEMMA Consts ==
  /\ Tries \in Nat /\ RxMax \in Nat /\ Fifo \in Nat /\ Fifo > 1 /\ RxMax > Fifo
  /\ \A n \in Answers \cup {0} : n \in Nat
BY CallAssumption

LEMMA Numbers ==
  ASSUME TypeOK
  PROVE  /\ answer \in Nat /\ coming \in 0..answer /\ fifo \in Nat /\ count \in Int /\ tries \in 0..Tries
<1>1. answer \in Answers \cup {0} /\ coming \in 0..answer /\ fifo \in Nat /\ count \in Int /\ tries \in 0..Tries
  BY Zenon DEF TypeOK
<1>2. QED  BY <1>1, Consts

LEMMA TypeInit == Init => TypeOK
<1> SUFFICES ASSUME Init PROVE TypeOK  OBVIOUS
<1>1. fifo \in Nat /\ ret = Fifo /\ ret \in -1..RxMax  BY CallAssumption DEF Init
<1>2. pc \in {"check", "text", "open"}  BY DEF Init
<1>3. given \in Counts \cup {0}  BY DEF Init
<1>4. QED  BY <1>1, <1>2, <1>3, CallAssumption DEF Init, TypeOK

LEMMA TakenTyped ==
  ASSUME TypeOK PROVE Taken \in 0..RxMax /\ fifo - Taken \in Nat /\ (fifo > 0 /\ fd = "open" => Taken > 0)
BY Numbers, Consts DEF Taken

LEMMA TypeNext == TypeOK /\ [Next]_vars => TypeOK'
<1> SUFFICES ASSUME TypeOK, [Next]_vars PROVE TypeOK'  OBVIOUS
<1> USE DEF asked, line, reading
<1>1. CASE CheckData \/ OddText \/ Converted
  BY <1>1 DEF CheckData, OddText, Converted, Return, TypeOK
<1>2. CASE Convert \/ UNCHANGED vars
  BY <1>2 DEF Convert, callVars, vars, TypeOK
<1>3. CASE Open \/ OpenFails \/ NotOpen
  BY <1>3 DEF Open, OpenFails, NotOpen, Opened, Return, TypeOK
<1>4. CASE Busy \/ LockTimeout
  <2>1. tries' \in 0..Tries  BY <1>4, Numbers, Consts DEF Busy, LockTimeout
  <2>2. QED  BY <1>4, <2>1 DEF Busy, LockTimeout, Return, TypeOK
<1>5. CASE Send
  <2>1. answer' \in Answers /\ coming' = answer' /\ fifo' = 0  BY <1>5 DEF Send
  <2>2. coming' \in 0..answer' /\ fifo' \in Nat  BY <2>1, Consts
  <2>3. answer' \in Answers \cup {0} /\ pc' = "rx"  BY <1>5, <2>1 DEF Send
  <2>4. QED  BY <1>5, <2>2, <2>3 DEF Send, TypeOK
<1>6. CASE Arrive
  <2>1. coming' \in 0..answer /\ fifo' \in Nat  BY <1>6, Numbers, Consts DEF Arrive
  <2>2. QED  BY <1>6, <2>1 DEF Arrive, TypeOK
<1>7. ASSUME NEW r \in -1..RxMax, pc = "rx", Turn(r), fifo' \in Nat, prompt' \in BOOLEAN PROVE TypeOK'
  <2>1. count' \in Int /\ pc' \in {"rx", "close"}  BY <1>7, Numbers, Consts DEF Turn
  <2>2. QED  BY <1>7, <2>1 DEF Turn, TypeOK
<1>8. CASE Rx
  <2>1. prompt' \in BOOLEAN  BY <1>8, Zenon DEF Rx, TypeOK
  <2>2. QED  BY <1>7, <1>8, <2>1, TakenTyped, CallAssumption DEF Rx
<1>9. CASE RxTimeout
  <2>1. prompt' \in BOOLEAN  BY <1>9, Zenon DEF RxTimeout, TypeOK
  <2>2. fifo' \in Nat /\ 0 \in -1..RxMax  BY <1>9, Numbers, Consts DEF RxTimeout
  <2>3. QED  BY <1>7, <1>9, <2>1, <2>2 DEF RxTimeout
<1>10. CASE RxFails
  <2>1. fifo' \in Nat /\ -1 \in -1..RxMax  BY <1>10, TakenTyped, Numbers, Consts DEF RxFails
  <2>2. QED  BY <1>7, <1>10, <2>1 DEF RxFails
<1>11. CASE Close  BY <1>11 DEF Close, Return, Result, TypeOK
<1>12. QED
  BY <1>1, <1>2, <1>3, <1>4, <1>5, <1>6, <1>8, <1>9, <1>10, <1>11, Zenon DEF Next, CallStep

\* Every variable of a call keeps its type: tries are bounded, no more
\* arrives than was answered.
THEOREM TypeCorrect == Spec => []TypeOK
BY TypeInit, TypeNext, PTL DEF Spec

-----------------------------------------------------------------------------
(* The descriptor.                                                         *)

\* Where a call may hold a descriptor: not before the open, and only two of
\* them before the text is decoded.
FdInv ==
  /\ pc \in {"check", "open"} => fd = "none"
  /\ pc = "text" => kind \in Raw /\ (kind = "tomqtt" => fd = "none")
  /\ GivesBack

LEMMA FdNext == TypeOK /\ FdInv /\ [Next]_vars => FdInv'
<1> SUFFICES ASSUME TypeOK, FdInv, [Next]_vars PROVE FdInv'  OBVIOUS
<1> USE DEF asked
<1>1. CASE CheckData \/ OddText \/ Converted
  <2>1. fd' = fd /\ kind' = kind /\ step' = step /\ pc' # "text" /\ kind \in Modbus \cup Raw
    BY <1>1 DEF CheckData, OddText, Converted, Return, textVars, TypeOK
  <2>2. QED  BY <1>1, <2>1 DEF CheckData, OddText, Converted, Return, FdInv, GivesBack, Raw, Modbus
<1>2. CASE Convert
  BY <1>2 DEF Convert, callVars, FdInv, GivesBack
<1>3. CASE Open \/ OpenFails \/ NotOpen
  BY <1>3 DEF Open, OpenFails, NotOpen, Opened, Return, FdInv, GivesBack, TypeOK, Raw
<1>4. CASE Busy \/ LockTimeout \/ Send
  BY <1>4 DEF Busy, LockTimeout, Send, Return, FdInv, GivesBack
<1>5. CASE Arrive
  BY <1>5 DEF Arrive, FdInv, GivesBack, textVars
<1>6. ASSUME NEW r, Turn(r) PROVE FdInv'
  BY <1>6 DEF Turn, FdInv, GivesBack
<1>7. CASE Rx \/ RxTimeout \/ RxFails  BY <1>6, <1>7 DEF Rx, RxTimeout, RxFails
<1>8. CASE Close  BY <1>8 DEF Close, Return, FdInv, GivesBack
<1>9. CASE UNCHANGED vars  BY <1>9 DEF vars, callVars, textVars, FdInv, GivesBack
<1>10. QED
  BY <1>1, <1>2, <1>3, <1>4, <1>5, <1>7, <1>8, <1>9, Zenon DEF Next, CallStep

\* A call closes what it opened, through refusals, errors and time-outs; the
\* exception is the text of odd length.
THEOREM DescriptorGivenBack == Spec => []GivesBack
<1>1. Init => FdInv
  <2>1. SUFFICES ASSUME Init PROVE FdInv  OBVIOUS
  <2>2. pc # "done" /\ fd = "none" /\ (pc = "text" => kind = "tomqtt")  BY <2>1 DEF Init
  <2>3. QED  BY <2>2 DEF FdInv, GivesBack, Raw
<1>2. FdInv => GivesBack  BY DEF FdInv
<1>3. QED  BY <1>1, <1>2, FdNext, TypeCorrect, PTL DEF Spec

-----------------------------------------------------------------------------
(* What is sent.                                                           *)

FrameInv == kind = "write" => sent = <<>> \/ sent = WriteCmd

LEMMA FrameNext == FrameInv /\ [Next]_vars => FrameInv'
<1> SUFFICES ASSUME FrameInv, [Next]_vars PROVE FrameInv'  OBVIOUS
<1>1. orig' = orig  BY TextSteps, OrigKept
<1>2. ASSUME sent' = sent, kind' = kind, given' = given PROVE FrameInv'
  BY <1>1, <1>2 DEF FrameInv, WriteCmd, DataByte
<1>3. CASE Send
  <2>1. sent' = Bytes /\ kind' = kind /\ given' = given  BY <1>3 DEF Send, asked
  <2>2. kind = "write" => sent' = WriteCmd  BY <2>1 DEF Bytes
  <2>3. WriteCmd' = WriteCmd  BY <1>1, <2>1 DEF WriteCmd, DataByte
  <2>4. QED  BY <2>1, <2>2, <2>3 DEF FrameInv
<1>4. CASE CheckData \/ OddText \/ Converted \/ Convert \/ Open \/ OpenFails \/ NotOpen \/ Busy
           \/ LockTimeout \/ Arrive \/ Close \/ UNCHANGED vars
  <2>1. sent' = sent /\ kind' = kind /\ given' = given
    BY <1>4, Zenon DEF CheckData, OddText, Converted, Convert, Open, OpenFails, NotOpen, Busy,
       LockTimeout, Arrive, Close, asked, line, callVars, vars
  <2>2. QED  BY <2>1, <1>2
<1>5. CASE Rx \/ RxTimeout \/ RxFails
  <2>1. sent' = sent /\ kind' = kind /\ given' = given
    BY <1>5, Zenon DEF Rx, RxTimeout, RxFails, Turn, asked
  <2>2. QED  BY <2>1, <1>2
<1>6. QED  BY <1>3, <1>4, <1>5, Zenon DEF Next, CallStep

\* The frame of a write carries the bytes of its text and a checksum over all
\* before it, for every count the offset can hold.
THEOREM FramesRight == Spec => []FrameRight
<1>1. Init => FrameInv  BY DEF Init, FrameInv
<1>2. TypeOK /\ FrameInv => FrameRight
  <2>1. SUFFICES ASSUME TypeOK, FrameInv, kind = "write", sent # <<>>, 2 * given <= ByteMod
                 PROVE  /\ \A n \in 1..given : sent[7 + n] = <<orig[2 * n - 2], orig[2 * n - 1]>>
                        /\ sent[8 + given] = [over |-> 7 + given]
    BY DEF FrameRight
  <2>2. given \in Nat
    <3>1. given \in Counts \cup {0}  BY <2>1, Zenon DEF TypeOK
    <3>2. QED  BY <3>1, CallAssumption, TextAssumption
  <2>3. ByteMod \in Nat /\ ByteMod > 14  BY TextAssumption, CallAssumption
  <2>4. sent = WriteCmd  BY <2>1 DEF FrameInv
  <2>5. \A k \in 0..(ByteMod - 1) : k % ByteMod = k  BY Counts8
  <2>6. ASSUME NEW n \in 1..given PROVE sent[7 + n] = <<orig[2 * n - 2], orig[2 * n - 1]>>
    <3>1. 7 + n \in 1..(8 + given) /\ ~(7 + n <= 7) /\ 7 + n <= 7 + given /\ (7 + n) - 8 = n - 1
      BY <2>2
    <3>2. sent[7 + n] = DataByte((7 + n) - 8)  BY <3>1, <2>4 DEF WriteCmd
    <3>3. 2 * (n - 1) \in 0..(ByteMod - 1) /\ 2 * (n - 1) = 2 * n - 2 /\ 2 * n - 2 + 1 = 2 * n - 1
      BY <2>1, <2>2, <2>3
    <3>4. (2 * (n - 1)) % ByteMod = 2 * n - 2  BY <3>3, <2>5
    <3>5. QED  BY <3>1, <3>2, <3>3, <3>4 DEF DataByte
  <2>7. sent[8 + given] = [over |-> 7 + given]
    <3>1. 8 + given \in 1..(8 + given) /\ ~(8 + given <= 7) /\ ~(8 + given <= 7 + given)  BY <2>2
    <3>2. sent[8 + given] = Crc(7 + given)  BY <3>1, <2>4 DEF WriteCmd
    <3>3. 7 + given \in 0..(ByteMod - 1)  BY <2>1, <2>2, <2>3
    <3>4. QED  BY <3>2, <3>3, <2>5 DEF Crc
  <2>8. QED  BY <2>6, <2>7
<1>3. QED  BY <1>1, <1>2, FrameNext, TypeCorrect, PTL DEF Spec

-----------------------------------------------------------------------------
(* What is returned.                                                       *)

Before == {"check", "text", "open", "lock"}
Loop   == {"rx", "close"}

\* Nothing is counted before the write.  Through an open descriptor a byte
\* that is counted is one of the answer that is neither to come nor waiting;
\* without one nothing is counted.
OwnInv ==
  /\ pc \in Before => count = 0 /\ coming = 0
  /\ pc \in Loop /\ fd = "open" => count + coming + fifo <= answer
  /\ pc \in Loop /\ fd # "open" => count <= 0
  /\ OwnBytes

\* While every chunk is read as it comes the count is exact, and less than a
\* whole chunk waits only when nothing is to come.
WholeInv == prompt =>
  /\ pc \in Loop /\ fd = "open" => count + coming + fifo = answer
  /\ pc = "rx" /\ fd = "open" /\ coming > 0 /\ fifo < Fifo => fifo = 0
  /\ pc = "close" => coming = 0 /\ fifo = 0 /\ fd = "open"
  /\ Whole

Early == {"none", "badtext", "notty", "busy"}

\* A step before the answer, or beside it.
LEMMA EarlyStep ==
  ASSUME TypeOK, [Next]_vars, CheckData \/ Convert \/ OddText \/ Converted \/ Open \/ OpenFails \/ Busy
                               \/ LockTimeout \/ NotOpen
  PROVE  /\ pc \in Before /\ count' = count /\ coming' = coming /\ fifo' = fifo /\ answer' = answer
         /\ prompt' = prompt /\ pc' # "close" /\ (pc' = "rx" => fd' # "open")
         /\ (pc' = "done" => result' \in Early)
<1> USE DEF asked, line, reading, Before, Early
<1>1. CASE CheckData \/ OddText \/ Converted  BY <1>1 DEF CheckData, OddText, Converted, Return
<1>2. CASE Convert  BY <1>2 DEF Convert, callVars
<1>3. CASE Open \/ OpenFails \/ NotOpen
  BY <1>3 DEF Open, OpenFails, NotOpen, Opened, Return
<1>4. CASE Busy \/ LockTimeout  BY <1>4 DEF Busy, LockTimeout, Return
<1>5. QED  BY <1>1, <1>2, <1>3, <1>4

LEMMA OwnNext == TypeOK /\ OwnInv /\ [Next]_vars => OwnInv'
<1> SUFFICES ASSUME TypeOK, OwnInv, [Next]_vars PROVE OwnInv'  OBVIOUS
<1>n. answer \in Nat /\ coming \in 0..answer /\ fifo \in Nat /\ count \in Int  BY Numbers
<1>1. CASE CheckData \/ Convert \/ OddText \/ Converted \/ Open \/ OpenFails \/ Busy \/ LockTimeout \/ NotOpen
  <2>1. pc \in Before /\ count' = count /\ coming' = coming /\ pc' # "close" /\ (pc' = "rx" => fd' # "open")
    BY <1>1, EarlyStep, Zenon
  <2>2. count = 0 /\ coming = 0  BY <2>1 DEF OwnInv
  <2>3. QED  BY <2>1, <2>2 DEF OwnInv, OwnBytes, Before, Loop
<1>2. CASE Send
  <2>1. pc = "lock" /\ pc' = "rx" /\ count' = count /\ answer' \in Answers /\ coming' = answer' /\ fifo' = 0
    BY <1>2 DEF Send, reading
  <2>2. count = 0 /\ answer' \in Nat  BY <2>1, Consts DEF OwnInv, Before
  <2>3. count' + coming' + fifo' <= answer'
    <3>1. PICK n \in Nat : answer' = n  BY <2>2
    <3>2. QED  BY <3>1, <2>1, <2>2
  <2>4. count' <= 0 /\ pc' \notin Before  BY <2>1, <2>2 DEF Before
  <2>5. QED  BY <2>3, <2>4 DEF OwnInv, OwnBytes
<1>3. CASE Arrive
  <2>1. pc' = pc /\ fd' = fd /\ count' = count /\ answer' = answer /\ coming > 0  BY <1>3 DEF Arrive, reading
  <2>2. coming' + fifo' = coming + fifo /\ coming' \in Nat /\ fifo' \in Nat  BY <1>3, <1>n, Consts DEF Arrive
  <2>3. pc \notin Before  BY <2>1 DEF OwnInv
  <2>4. count + coming + fifo <= answer => count' + coming' + fifo' <= answer'
    <3>1. PICK m \in Nat, f \in Nat : coming' = m /\ fifo' = f  BY <2>2
    <3>2. QED  BY <3>1, <2>1, <2>2, <1>n
  <2>5. QED  BY <2>1, <2>3, <2>4 DEF OwnInv, OwnBytes
<1>4. ASSUME NEW r \in Int, pc = "rx", Turn(r), fifo' \in Nat, fifo' <= fifo,
             fd = "open" => r + fifo' <= fifo, fd # "open" => r <= 0
      PROVE  OwnInv'
  <2>1. pc' \in Loop /\ fd' = fd /\ answer' = answer /\ coming' = coming  BY <1>4 DEF Turn, Loop
  <2>2. count' \in Int /\ (count' = count + r \/ (count' = count /\ r < 0))  BY <1>4, <1>n DEF Turn
  <2>3. pc' \notin Before  BY <2>1 DEF Before, Loop
  <2>4. CASE fd = "open"
    <3>1. count + coming + fifo <= answer  BY <1>4, <2>4 DEF OwnInv, Loop
    <3>2. count' + coming + fifo' <= answer
      <4>1. PICK f \in Nat : fifo' = f  BY <1>4
      <4>2. f <= fifo /\ r + f <= fifo  BY <4>1, <1>4, <2>4
      <4>3. CASE count' = count + r  BY <4>1, <4>2, <4>3, <3>1, <1>4, <1>n
      <4>4. CASE count' = count /\ r < 0  BY <4>1, <4>2, <4>4, <3>1, <1>4, <1>n
      <4>5. QED  BY <2>2, <4>3, <4>4
    <3>3. QED  BY <3>2, <2>1, <2>3, <2>4 DEF OwnInv, OwnBytes
  <2>5. CASE fd # "open"
    <3>1. count <= 0  BY <1>4, <2>5 DEF OwnInv, Loop
    <3>2. count' <= 0  BY <3>1, <2>2, <2>5, <1>4, <1>n
    <3>3. QED  BY <3>2, <2>1, <2>3, <2>5 DEF OwnInv, OwnBytes
  <2>6. QED  BY <2>4, <2>5
<1>5. CASE Rx \/ RxTimeout \/ RxFails
  <2>1. Taken \in Nat /\ Taken <= fifo /\ (fd # "open" => Taken = 0)  BY <1>n, Consts DEF Taken
  <2>2. CASE Rx  BY <2>1, <2>2, <1>4, <1>n DEF Rx
  <2>3. CASE RxTimeout  BY <2>3, <1>4, <1>n DEF RxTimeout
  <2>4. CASE RxFails
    <3>1. pc = "rx" /\ Turn(-1) /\ fifo' \in {fifo, fifo - Taken}  BY <2>4 DEF RxFails
    <3>2. -1 \in Int /\ fifo' \in Nat /\ fifo' <= fifo /\ -1 + fifo' <= fifo  
      <4>1. fifo' \in Nat /\ fifo' <= fifo  BY <3>1, <2>1, <1>n
      <4>2. PICK f \in Nat : fifo' = f  BY <4>1
      <4>3. QED  BY <4>1, <4>2, <1>n
    <3>3. fd # "open" => -1 <= 0  OBVIOUS
    <3>4. QED  BY <3>1, <3>2, <3>3, <1>4
  <2>5. QED  BY <1>5, <2>2, <2>3, <2>4
<1>6. CASE Close
  <2>1. count' = count /\ answer' = answer /\ coming' = coming /\ fifo' = fifo /\ pc' = "done"
    BY <1>6 DEF Close, Return, line, reading
  <2>2. QED  BY <2>1 DEF OwnInv, OwnBytes, Before, Loop
<1>7. CASE UNCHANGED vars  BY <1>7 DEF vars, callVars, OwnInv, OwnBytes
<1>8. QED
  BY <1>1, <1>2, <1>3, <1>5, <1>6, <1>7, Zenon DEF Next, CallStep

\* A call never counts more than came in answer to what it sent itself.
THEOREM BytesAreOwn == Spec => []OwnBytes
<1>1. Init => OwnInv
  BY CallAssumption DEF Init, OwnInv, OwnBytes, Loop
<1>2. OwnInv => OwnBytes  BY DEF OwnInv
<1>3. QED  BY <1>1, <1>2, OwnNext, TypeCorrect, PTL DEF Spec

LEMMA WholeNext == TypeOK /\ OwnInv /\ WholeInv /\ [Next]_vars => WholeInv'
<1> SUFFICES ASSUME TypeOK, OwnInv, WholeInv, [Next]_vars, prompt' PROVE WholeInv'  BY DEF WholeInv
<1>n. answer \in Nat /\ coming \in 0..answer /\ fifo \in Nat /\ count \in Int  BY Numbers
<1>1. CASE CheckData \/ Convert \/ OddText \/ Converted \/ Open \/ OpenFails \/ Busy \/ LockTimeout \/ NotOpen
  <2>1. pc' # "close" /\ (pc' = "rx" => fd' # "open") /\ (pc' = "done" => result' \in Early)
    BY <1>1, EarlyStep, Zenon
  <2>2. QED  BY <2>1 DEF WholeInv, Whole, Loop, Early
<1>2. CASE Send
  <2>1. pc = "lock" /\ pc' = "rx" /\ count' = count /\ answer' \in Answers /\ coming' = answer' /\ fifo' = 0
    BY <1>2 DEF Send, reading
  <2>2. count = 0 /\ answer' \in Nat  BY <2>1, Consts DEF OwnInv, Before
  <2>3. count' + coming' + fifo' = answer'
    <3>1. PICK n \in Nat : answer' = n  BY <2>2
    <3>2. QED  BY <3>1, <2>1, <2>2
  <2>4. QED  BY <2>1, <2>3 DEF WholeInv, Whole
<1>3. CASE Arrive
  <2>1. pc' = pc /\ fd' = fd /\ count' = count /\ answer' = answer /\ prompt' = prompt /\ result' = result /\ coming > 0
    BY <1>3 DEF Arrive, reading
  <2>2. coming' + fifo' = coming + fifo /\ coming' \in Nat /\ fifo' \in Nat
    BY <1>3, <1>n, Consts DEF Arrive
  <2>3. coming' > 0 => fifo' >= Fifo  BY <1>3, <1>n, Consts DEF Arrive
  <2>4. prompt /\ pc # "close"  BY <2>1 DEF WholeInv
  <2>5. Whole'  BY <2>1 DEF WholeInv, Whole
  <2>6. pc' \in Loop /\ fd' = "open" => count' + coming' + fifo' = answer'
    <3>1. pc \in Loop /\ fd = "open" => count + coming + fifo = answer  BY <2>4 DEF WholeInv
    <3>2. PICK m \in Nat, f \in Nat : coming' = m /\ fifo' = f  BY <2>2
    <3>3. QED  BY <3>1, <3>2, <2>1, <2>2, <1>n
  <2>7. ~(coming' > 0 /\ fifo' < Fifo)  BY <2>2, <2>3, Consts
  <2>8. QED  BY <2>1, <2>4, <2>5, <2>6, <2>7 DEF WholeInv
<1>4. CASE Rx
  <2>1. prompt /\ fifo <= Fifo /\ fifo > 0 /\ fd = "open" /\ pc = "rx" /\ fd' = fd /\ answer' = answer /\ coming' = coming
    BY <1>4, Zenon DEF Rx, Turn
  <2>2. Taken = fifo  BY <2>1, <1>n, Consts DEF Taken
  <2>3. fifo' = 0 /\ count' = count + fifo /\ pc' = (IF fifo = Fifo THEN "rx" ELSE "close")
    BY <1>4, <2>1, <2>2, <1>n DEF Rx, Turn, ReadOn
  <2>4. count + coming + fifo = answer  BY <2>1 DEF WholeInv, Loop
  <2>5. pc' = "close" => coming = 0
    <3>1. fifo < Fifo /\ coming > 0 => fifo = 0  BY <2>1 DEF WholeInv
    <3>2. QED  BY <3>1, <2>1, <2>3, <1>n, Consts
  <2>6. count' + coming + fifo' = answer  BY <2>3, <2>4, <1>n
  <2>7. pc' # "done"  BY <2>3
  <2>8. QED  BY <2>1, <2>3, <2>5, <2>6, <2>7 DEF WholeInv, Whole
<1>5. CASE RxTimeout
  <2>1. prompt /\ coming = 0 /\ fifo = 0 /\ fd = "open" /\ pc = "rx" /\ fd' = fd /\ answer' = answer /\ coming' = coming
        /\ fifo' = fifo
    BY <1>5, Zenon DEF RxTimeout, Turn
  <2>2. count' = count + 0 /\ pc' \in {"rx", "close"}  BY <1>5 DEF RxTimeout, Turn
  <2>3. count + coming + fifo = answer  BY <2>1 DEF WholeInv, Loop
  <2>4. count' + coming + fifo = answer  BY <2>2, <2>3, <1>n
  <2>5. pc' # "done"  BY <2>2
  <2>6. QED  BY <2>1, <2>2, <2>4, <2>5 DEF WholeInv, Whole
<1>6. CASE RxFails  BY <1>6 DEF RxFails
<1>7. CASE Close
  <2>1. pc = "close" /\ pc' = "done" /\ prompt' = prompt /\ count' = count /\ answer' = answer /\ result' = Result
    BY <1>7, Zenon DEF Close, Return, line, reading
  <2>2. coming = 0 /\ fifo = 0 /\ count + coming + fifo = answer  BY <2>1 DEF WholeInv, Loop
  <2>3. count = answer  BY <2>2, <1>n
  <2>4. Result = "badcrc" => answer >= ByteMod + 2
    <3>0. ByteMod \in Nat  BY TextAssumption
    <3>1. SUFFICES ASSUME Result = "badcrc", ~(answer >= ByteMod + 2) PROVE FALSE
      OBVIOUS
    <3>2. count > 1 /\ ~CrcOk  BY <3>1 DEF Result
    <3>3. count - 2 \in 0..(ByteMod - 1)  BY <3>0, <3>1, <3>2, <2>3, <1>n
    <3>4. Crc(count - 2).over = count - 2  BY <3>3, Counts8 DEF Crc
    <3>5. QED  BY <3>2, <3>4, <2>3 DEF CrcOk
  <2>5. QED  BY <2>1, <2>3, <2>4 DEF WholeInv, Whole, Loop
<1>8. CASE UNCHANGED vars  BY <1>8 DEF vars, callVars, WholeInv, Whole
<1>9. QED
  BY <1>1, <1>2, <1>3, <1>4, <1>5, <1>6, <1>7, <1>8, Zenon DEF Next, CallStep

\* When each chunk is read as it comes the answer is taken whole, whatever its
\* length, and its checksum found right where a byte can count it.
THEOREM AnswersWhole == Spec => []Whole
<1>1. Init => OwnInv /\ WholeInv
  BY CallAssumption DEF Init, OwnInv, OwnBytes, WholeInv, Whole, Loop
<1>2. TypeOK /\ WholeInv => Whole  BY Zenon DEF WholeInv, Whole
<1>3. QED  BY <1>1, <1>2, OwnNext, WholeNext, TypeCorrect, PTL DEF Spec

-----------------------------------------------------------------------------
(* Why a call ends.                                                        *)

\* Only a call that decodes comes to the text loops, and what is left of its text is no
\* longer than the text.
TextInv ==
  /\ pc = "text" \/ kind = "tomqtt" => hex
  /\ nbytes <= Length
  /\ SqueezeInv /\ DigitInv

LEMMA LengthTyped == TextInv => Length \in Nat /\ nbytes \in Nat
BY TextLength DEF TextInv, SqueezeInv, BlankInv, Length

LEMMA NotLonger == SqueezeInv /\ nbytes <= Length /\ [TextNext]_textVars => nbytes' <= Length'
<1> SUFFICES ASSUME SqueezeInv, nbytes <= Length, [TextNext]_textVars PROVE nbytes' <= Length'  OBVIOUS
<1>1. Length' = Length  BY OrigKept DEF Length
<1>2. CASE CutText
  <2>1. nbytes' \in 0..Strlen(orig)  BY <1>2, BlanksCut DEF SqueezeInv
  <2>2. Strlen(orig) \in Nat  BY TextLength DEF SqueezeInv, BlankInv
  <2>3. QED  BY <1>1, <2>1, <2>2 DEF Length
<1>3. CASE MoveChar \/ KeepChar \/ PassBlank
  BY <1>1, <1>3 DEF MoveChar, KeepChar, PassBlank
<1>4. CASE PutDigit \/ DigitsDone \/ Pair \/ PairsDone
  BY <1>1, <1>4 DEF PutDigit, DigitsDone, Pair, PairsDone
<1>5. CASE UNCHANGED textVars  BY <1>1, <1>5 DEF textVars
<1>6. QED  BY <1>2, <1>3, <1>4, <1>5 DEF TextNext

LEMMA TextInvInit == Init => TextInv
<1> SUFFICES ASSUME Init PROVE TextInv  OBVIOUS
<1>1. SqueezeInv /\ DigitInv  BY SqueezeInit, DigitInit DEF Init
<1>2. nbytes = 0 /\ Strlen(orig) \in Nat  BY <1>1, TextLength DEF Init, TextInit, SqueezeInv, BlankInv
<1>3. pc = "text" \/ kind = "tomqtt" => hex  BY DEF Init
<1>4. QED  BY <1>1, <1>2, <1>3 DEF TextInv, Length

LEMMA TextInvNext == TextInv /\ [Next]_vars => TextInv'
<1> SUFFICES ASSUME TextInv, [Next]_vars PROVE TextInv'  OBVIOUS
<1>1. SqueezeInv' /\ DigitInv' /\ nbytes' <= Length'
  BY TextSteps, SqueezeNext, DigitNext, NotLonger DEF TextInv
<1>2. pc' = "text" \/ kind' = "tomqtt" => hex'
  <2> USE DEF TextInv, asked
  <2>1. CASE CheckData \/ OddText \/ Converted  BY <2>1 DEF CheckData, OddText, Converted, Return
  <2>2. CASE Convert  BY <2>2 DEF Convert, callVars
  <2>3. CASE Open \/ OpenFails \/ NotOpen  BY <2>3 DEF Open, OpenFails, NotOpen, Opened, Return
  <2>4. CASE Busy \/ LockTimeout \/ Send  BY <2>4 DEF Busy, LockTimeout, Send, Return
  <2>5. CASE Rx \/ RxTimeout \/ RxFails  BY <2>5 DEF Rx, RxTimeout, RxFails, Turn
  <2>6. CASE Close \/ Arrive  BY <2>6 DEF Close, Arrive, Return
  <2>7. CASE UNCHANGED vars  BY <2>7 DEF vars, callVars
  <2>8. QED  BY <2>1, <2>2, <2>3, <2>4, <2>5, <2>6, <2>7, Zenon DEF Next, CallStep
<1>3. QED  BY <1>1, <1>2 DEF TextInv

\* The bound on a loop is a number as long as the counters can count the text.
LEMMA WorkTyped ==
  TypeOK /\ TextInv /\ Countable => WorkLeft \in Int /\ WorkLeft >= 0
<1> SUFFICES ASSUME TypeOK, TextInv, Countable PROVE WorkLeft \in Int /\ WorkLeft >= 0  OBVIOUS
<1>1. tries \in 0..Tries /\ coming \in Nat /\ fifo \in Nat /\ Tries \in Nat  BY Numbers, Consts
<1>2. CASE pc = "text" /\ step = "blanks"
  <2>1. i \in 0..Length /\ Length \in Nat
    BY <1>2, LengthTyped DEF TextInv, SqueezeInv, BlankInv, Length
  <2>2. QED  BY <1>2, <2>1 DEF WorkLeft
<1>3. CASE pc = "text" /\ step \in {"digits", "pairs"}
  <2>1. size1 \in Nat /\ nbytes \in Nat /\ Length \in Nat  BY LengthTyped, TextAssumption DEF TextInv, DigitInv
  <2>2. nbytes < ByteMod - 2  BY <1>3, <2>1, TextAssumption DEF TextInv, Countable
  <2>3. size1 <= nbytes + 2
    <3>1. CASE step = "digits"  BY <2>1, <3>1 DEF TextInv, DigitInv, DigitLoop
    <3>2. CASE step = "pairs"  BY <2>2, <3>2 DEF TextInv, DigitInv, PairLoop
    <3>3. QED  BY <1>3, <3>1, <3>2
  <2>4. WorkLeft = nbytes + 2 - size1  BY <1>3 DEF WorkLeft
  <2>5. QED  BY <2>1, <2>3, <2>4
<1>4. CASE pc = "text" /\ step \notin {"blanks", "digits", "pairs"}  BY <1>4 DEF WorkLeft
<1>5. CASE pc # "text"  BY <1>1, <1>5 DEF WorkLeft
<1>6. QED  BY <1>2, <1>3, <1>4, <1>5

Advances ==
  \/ PhasesLeft' < PhasesLeft
  \/ PhasesLeft' = PhasesLeft /\ WorkLeft' < WorkLeft
  \/ PhasesLeft' = PhasesLeft /\ WorkLeft' = WorkLeft /\ coming' < coming

\* The loops over the text.
LEMMA ConvertAdvances ==
  ASSUME TypeOK, TextInv, Countable, Convert
  PROVE  Advances
<1>1. pc = "text" /\ pc' = "text" /\ hex /\ TextNext  BY DEF Convert, callVars, TextInv
<1>2. size1 \in Nat /\ nbytes \in Nat /\ Length \in Nat /\ Length' = Length
      /\ nbytes < ByteMod - 2 /\ ByteMod \in Nat
  <2>1. size1 \in Nat /\ nbytes \in Nat /\ Length \in Nat /\ ByteMod \in Nat
    BY LengthTyped, TextAssumption DEF TextInv, DigitInv
  <2>2. nbytes < ByteMod - 2  BY <1>1, <2>1 DEF TextInv, Countable
  <2>3. QED  BY <1>1, <2>1, <2>2, OrigKept DEF Length
<1>3. CASE MoveChar \/ KeepChar \/ PassBlank
  <2>1. step = "blanks" /\ step' = "blanks" /\ i' = i + 1
    BY <1>3 DEF MoveChar, KeepChar, PassBlank
  <2>2. i \in Int  BY <2>1, <1>2 DEF TextInv, SqueezeInv, BlankInv, Length
  <2>3. WorkLeft = Length - i /\ WorkLeft' = Length - (i + 1)  BY <1>1, <1>2, <2>1 DEF WorkLeft
  <2>4. PhasesLeft' = PhasesLeft  BY <1>1, <2>1 DEF PhasesLeft
  <2>5. QED  BY <1>2, <2>2, <2>3, <2>4 DEF Advances
<1>4. CASE CutText \/ DigitsDone \/ PairsDone
  <2>1. \/ step = "blanks" /\ step' \in {"odd", "digits"}
        \/ step = "digits" /\ step' = "pairs"
        \/ step = "pairs" /\ step' = "decoded"
    BY <1>4 DEF CutText, DigitsDone, PairsDone
  <2>2. QED  BY <1>1, <2>1 DEF PhasesLeft, Advances
<1>5. CASE PutDigit \/ Pair
  <2>1. /\ step \in {"digits", "pairs"} /\ step' = step /\ nbytes' = nbytes /\ size1 <= nbytes
        /\ size1' \in {(size1 + 1) % ByteMod, (size1 + 2) % ByteMod}
    BY <1>2, <1>5 DEF PutDigit, Pair
  <2>2. size1' \in Nat /\ size1' > size1
    <3>1. size1 + 1 \in 0..(ByteMod - 1) /\ size1 + 2 \in 0..(ByteMod - 1)  BY <1>2, <2>1
    <3>2. size1' \in {size1 + 1, size1 + 2}  BY <2>1, <3>1, Counts8
    <3>3. QED  BY <1>2, <3>2
  <2>3. WorkLeft = nbytes + 2 - size1 /\ WorkLeft' = nbytes + 2 - size1'
    BY <1>1, <2>1 DEF WorkLeft
  <2>4. PhasesLeft' = PhasesLeft  BY <1>1, <2>1 DEF PhasesLeft
  <2>5. \A s \in Nat : s > size1 => nbytes + 2 - s < nbytes + 2 - size1  BY <1>2
  <2>6. WorkLeft' < WorkLeft  BY <2>2, <2>3, <2>5
  <2>7. QED  BY <2>4, <2>6 DEF Advances
<1>6. QED  BY <1>1, <1>3, <1>4, <1>5 DEF TextNext

\* The read loop goes on only with a chunk taken from what waits.
LEMMA ReadAdvances ==
  ASSUME TypeOK, Rx \/ RxTimeout \/ RxFails
  PROVE  Advances
<1>1. pc = "rx" /\ coming' = coming /\ coming \in Nat /\ fifo \in Nat
  BY Numbers DEF Rx, RxTimeout, RxFails, Turn
<1>2. CASE pc' = "close"  BY <1>1, <1>2 DEF PhasesLeft, Advances
<1>3. CASE pc' # "close"
  <2>1. Rx /\ Taken = Fifo /\ pc' = "rx"
    BY <1>3, Consts DEF Rx, RxTimeout, RxFails, Turn, ReadOn
  <2>2. fifo' = fifo - Fifo /\ Fifo \in Nat /\ Fifo > 1  BY <2>1, Consts DEF Rx
  <2>3. WorkLeft = coming + fifo /\ WorkLeft' = coming + (fifo - Fifo)
    BY <1>1, <2>1, <2>2 DEF WorkLeft
  <2>4. PhasesLeft' = PhasesLeft  BY <1>1, <2>1 DEF PhasesLeft
  <2>5. QED  BY <1>1, <2>2, <2>3, <2>4 DEF Advances
<1>4. QED  BY <1>2, <1>3

LEMMA ArriveAdvances ==
  ASSUME TypeOK, Arrive
  PROVE  Advances
<1>1. coming \in Nat /\ coming > 0 /\ fifo \in Nat  BY Numbers DEF Arrive
<1>2. coming' + fifo' = coming + fifo /\ coming' < coming
  BY <1>1, Consts DEF Arrive
<1>3. pc' = pc /\ tries' = tries /\ kind' = kind /\ UNCHANGED textVars  BY DEF Arrive, asked
<1>4. step' = step /\ i' = i /\ nbytes' = nbytes /\ size1' = size1 /\ orig' = orig
  BY <1>3 DEF textVars, blankVars, digitVars
<1>5. WorkLeft' = WorkLeft /\ PhasesLeft' = PhasesLeft
  BY <1>2, <1>3, <1>4 DEF WorkLeft, PhasesLeft, Length
<1>6. QED  BY <1>2, <1>5 DEF Advances

LEMMA StepAdvances ==
  ASSUME TypeOK, TextInv, Countable, Next
  PROVE  Advances
<1>0. pc \in {"check", "text", "open", "lock", "rx", "close", "done"} /\ kind \in Modbus \cup Raw
  BY DEF TypeOK
<1>1. CASE CheckData
  BY <1>1 DEF CheckData, Return, PhasesLeft, Advances
<1>2. CASE OddText \/ Converted
  <2>1. pc = "text" /\ step \in {"odd", "decoded"} /\ pc' \in {"done", "open", "lock"} /\ kind' = kind
        /\ (pc' = "open" => kind = "tomqtt")
    BY <1>2 DEF OddText, Converted, Return, asked
  <2>2. QED  BY <2>1 DEF PhasesLeft, Advances
<1>3. CASE Open \/ OpenFails
  <2>1. pc = "open" /\ pc' \in {"text", "lock", "done"} /\ (pc' = "text" => kind # "tomqtt")
    BY <1>3 DEF Open, OpenFails, Opened, Return
  <2>2. PhasesLeft \in {4, 9} /\ (kind # "tomqtt" => PhasesLeft = 9)  BY <2>1 DEF PhasesLeft
  <2>3. PhasesLeft' \in {0, 3} \/ (pc' = "text" /\ PhasesLeft' \in 5..8)  BY <2>1 DEF PhasesLeft
  <2>4. QED  BY <2>1, <2>2, <2>3 DEF Advances
<1>4. CASE Busy
  <2>1. pc = "lock" /\ pc' = "lock" /\ tries' = tries + 1 /\ tries \in Nat /\ Tries \in Nat
    BY <1>4, Numbers, Consts DEF Busy
  <2>2. QED  BY <2>1 DEF PhasesLeft, WorkLeft, Advances
<1>5. CASE LockTimeout \/ NotOpen \/ Send
  BY <1>5 DEF LockTimeout, NotOpen, Send, Return, PhasesLeft, Advances
<1>6. CASE Rx \/ RxTimeout \/ RxFails  BY <1>6, ReadAdvances
<1>7. CASE Close  BY <1>7 DEF Close, Return, PhasesLeft, Advances
<1>8. CASE Convert  BY <1>8, ConvertAdvances
<1>9. CASE Arrive  BY <1>9, ArriveAdvances
<1>10. QED
  BY <1>1, <1>2, <1>3, <1>4, <1>5, <1>6, <1>7, <1>8, <1>9, Zenon DEF Next, CallStep

\* Every step of a call or of the answer to it lowers the phases left, the work left in the
\* phase, or the bytes still to come, in this order: whatever the device, the tty and its
\* other users do, a call whose text the counters can count takes finitely many steps.
THEOREM CallsAdvance == Spec => CallAdvances
<1>0. (TypeOK /\ TextInv /\ Countable => WorkLeft \in Int /\ WorkLeft >= 0)'  BY WorkTyped, PTL
<1>1. TypeOK /\ TypeOK' /\ TextInv /\ TextInv' /\ Next =>
        (Countable => /\ WorkLeft' >= 0
                      /\ \/ PhasesLeft' < PhasesLeft
                         \/ PhasesLeft' = PhasesLeft /\ WorkLeft' < WorkLeft
                         \/ PhasesLeft' = PhasesLeft /\ WorkLeft' = WorkLeft /\ coming' < coming)
  <2> SUFFICES ASSUME TypeOK, TypeOK', TextInv, TextInv', Next, Countable
               PROVE  WorkLeft' >= 0 /\ Advances
    BY DEF Advances
  <2>1. Advances  BY StepAdvances
  <2>2. Countable'
    <3>1. hex' = hex
      BY DEF Next, CallStep, CheckData, Convert, OddText, Converted, Open, OpenFails, Busy, LockTimeout,
             NotOpen, Send, Rx, RxTimeout, RxFails, Turn, Close, Arrive, asked, callVars
    <3>2. Length' = Length  BY TextSteps, OrigKept DEF Length
    <3>3. QED  BY <3>1, <3>2 DEF Countable
  <2>3. WorkLeft' >= 0  BY <1>0, <2>2
  <2>4. QED  BY <2>1, <2>3
<1>2. QED  BY <1>1, TypeCorrect, TextInvInit, TextInvNext, PTL DEF Spec, CallAdvances
=============================================================================
