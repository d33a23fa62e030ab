--------------------------- MODULE HexTextProofs ---------------------------
(***************************************************************************)
(* Proofs about the decoding of hexadecimal text, for texts of any length, *)
(* any width of the counters and any content of the buffer: what the loop  *)
(* that squeezes out the blanks keeps, and what the two loops over digits  *)
(* and pairs make of it.                                                   *)
(***************************************************************************)
EXTENDS HexText, TLAPS

\* A text ends at its first Nul, which is its last character.
LEMMA TextLength ==
  ASSUME NEW t \in Text
  PROVE  /\ Strlen(t) \in Nat /\ t \in [0..Strlen(t) -> Char \cup {Nul}] /\ t[Strlen(t)] = Nul
         /\ \A k \in 0..(Strlen(t) - 1) : t[k] # Nul
         /\ Strlen(t) <= OutSize - 2
<1>1. PICK n \in 0..(OutSize - 2) :
        t \in [0..n -> Char \cup {Nul}] /\ t[n] = Nul /\ \A k \in 0..(n - 1) : t[k] # Nul
  BY TextAssumption
<1>2. Strlen(t) \in DOMAIN t /\ t[Strlen(t)] = Nul /\ \A k \in 0..(Strlen(t) - 1) : t[k] # Nul
  BY <1>1, TextAssumption DEF Strlen
<1>3. Strlen(t) = n
  BY <1>1, <1>2, TextAssumption
<1>4. QED  BY <1>1, <1>2, <1>3, TextAssumption

\* The length of a text is where its first Nul is.
LEMMA StrlenAt ==
  ASSUME NEW L \in Nat, NEW t, DOMAIN t = 0..L, NEW n \in 0..L, t[n] = Nul, \A k \in 0..(n - 1) : t[k] # Nul
  PROVE  Strlen(t) = n
<1>1. Strlen(t) \in DOMAIN t /\ t[Strlen(t)] = Nul /\ \A k \in 0..(Strlen(t) - 1) : t[k] # Nul
  BY DEF Strlen
<1>2. QED  BY <1>1

-----------------------------------------------------------------------------
(* The blanks.                                                             *)

\* The characters kept so far are the first i without blanks, in order.
KeptInv ==
  /\ kept \in Seq(Nat)
  /\ \A k \in 1..Len(kept) : kept[k] < i /\ orig[kept[k]] # Blank
  /\ \A p \in 0..(i - 1) : orig[p] # Blank => \E k \in 1..Len(kept) : kept[k] = p
  /\ \A k, l \in 1..Len(kept) : k < l => kept[k] < kept[l]

\* They stand at the front; behind them come blanks, from is, and from i on
\* the text as it was.
FrontInv ==
  /\ \A k \in i..Strlen(orig) : str[k] = orig[k]
  /\ \A k \in 0..(Len(kept) - 1) : str[k] = orig[kept[k + 1]]
  /\ is = -1 => Len(kept) = i
  /\ is # -1 => /\ is = Len(kept) /\ is < i /\ in # 0 /\ (in = 1 => is = i - 1)
                /\ \A k \in is..(i - 1) : str[k] = Blank

BlankInv ==
  /\ orig \in Text /\ DOMAIN str = 0..Strlen(orig)
  /\ step = "blanks" =>
       /\ i \in 0..Strlen(orig) /\ is \in Int /\ in \in Nat
       /\ (is = -1 => in = 0) /\ KeptInv /\ FrontInv

\* The end of the text is found where it was, by either function.
LEMMA MoreIs == ASSUME BlankInv, step = "blanks" PROVE More <=> i < Strlen(orig)
<1>1. Strlen(orig) \in Nat /\ orig[Strlen(orig)] = Nul /\ \A k \in 0..(Strlen(orig) - 1) : orig[k] # Nul
  BY TextLength DEF BlankInv
<1>2. i \in 0..Strlen(orig) /\ str[i] = orig[i]  BY <1>1 DEF BlankInv, FrontInv
<1>3. QED  BY <1>1, <1>2 DEF More

LEMMA KeepsOne ==
  ASSUME BlankInv, step = "blanks", i < Strlen(orig), orig[i] # Blank,
         kept' = Append(kept, i), i' = i + 1, orig' = orig
  PROVE  KeptInv' /\ Len(kept') = Len(kept) + 1
         /\ kept'[Len(kept) + 1] = i /\ \A k \in 1..Len(kept) : kept'[k] = kept[k]
<1>1. kept \in Seq(Nat) /\ i \in Nat  BY TextLength DEF BlankInv, KeptInv
<1>2. /\ kept' \in Seq(Nat) /\ Len(kept') = Len(kept) + 1
      /\ kept'[Len(kept) + 1] = i /\ \A k \in 1..Len(kept) : kept'[k] = kept[k]
  BY <1>1
<1>3. Len(kept) \in Nat  BY <1>1
<1>4. \A k \in 1..Len(kept') : kept'[k] < i' /\ orig'[kept'[k]] # Blank
  BY <1>1, <1>2, <1>3 DEF BlankInv, KeptInv
<1>5. ASSUME NEW p \in 0..(i' - 1), orig'[p] # Blank PROVE \E k \in 1..Len(kept') : kept'[k] = p
  <2>1. CASE p = i  BY <2>1, <1>2, <1>3
  <2>2. CASE p # i
    <3>1. p \in 0..(i - 1)  BY <2>2, <1>1
    <3>2. PICK k \in 1..Len(kept) : kept[k] = p  BY <3>1, <1>5 DEF BlankInv, KeptInv
    <3>3. QED  BY <3>2, <1>2, <1>3
  <2>3. QED  BY <2>1, <2>2
<1>6. ASSUME NEW k \in 1..Len(kept'), NEW l \in 1..Len(kept'), k < l PROVE kept'[k] < kept'[l]
  <2>1. k \in 1..Len(kept) /\ kept[k] < i /\ kept'[k] = kept[k]
    BY <1>2, <1>3, <1>6 DEF BlankInv, KeptInv
  <2>2. CASE l = Len(kept) + 1  BY <2>1, <2>2, <1>2
  <2>3. CASE l # Len(kept) + 1
    <3>1. l \in 1..Len(kept)  BY <2>3, <1>2, <1>3
    <3>2. QED  BY <2>1, <3>1, <1>2, <1>6 DEF BlankInv, KeptInv
  <2>4. QED  BY <2>2, <2>3
<1>7. QED  BY <1>2, <1>4, <1>5, <1>6 DEF KeptInv

LEMMA BlanksMove == BlankInv /\ MoveChar => BlankInv'
<1> SUFFICES ASSUME BlankInv, MoveChar PROVE BlankInv'  OBVIOUS
<1> DEFINE L == Strlen(orig)
<1>1. step = "blanks" /\ i < L /\ str[i] # Blank /\ is # -1 /\ L \in Nat /\ L' = L
  BY MoreIs, TextLength DEF MoveChar, BlankInv, blankVars
<1>2. i \in 0..L /\ is \in 0..(i - 1) /\ is = Len(kept) /\ str[i] = orig[i] /\ kept \in Seq(Nat)
  BY <1>1 DEF BlankInv, FrontInv, KeptInv
<1>3. KeptInv' /\ Len(kept') = Len(kept) + 1
      /\ kept'[Len(kept) + 1] = i /\ \A k \in 1..Len(kept) : kept'[k] = kept[k]
  BY <1>1, <1>2, KeepsOne DEF MoveChar
<1>4. is' = is + 1 /\ in # 0 /\ in \in Nat /\ (in = 1 => is' = i)
  <2>1. in # 0 /\ in \in Nat /\ (in = 1 => is = i - 1)  BY <1>1 DEF BlankInv, FrontInv
  <2>2. is' = IF in = 1 THEN i ELSE is + 1  BY DEF MoveChar
  <2>3. QED  BY <1>2, <2>1, <2>2
<1>5. DOMAIN str' = 0..L /\ str'[is] = orig[i] /\ str'[i] = Blank
      /\ \A k \in 0..L : k # is /\ k # i => str'[k] = str[k]
  BY <1>1, <1>2 DEF MoveChar, BlankInv
<1>6. FrontInv'
  <2>1. \A k \in (i + 1)..L : str'[k] = orig[k]  BY <1>1, <1>2, <1>5 DEF BlankInv, FrontInv
  <2>2. ASSUME NEW k \in 0..(Len(kept') - 1) PROVE str'[k] = orig[kept'[k + 1]]
    <3>1. CASE k = is  BY <3>1, <1>2, <1>3, <1>5
    <3>2. CASE k # is
      <4>1. k \in 0..(Len(kept) - 1) /\ k + 1 \in 1..Len(kept)  BY <3>2, <1>2, <1>3
      <4>2. str'[k] = str[k]  BY <4>1, <1>1, <1>2, <1>5
      <4>3. QED  BY <4>1, <4>2, <1>1, <1>3 DEF BlankInv, FrontInv
    <3>3. QED  BY <3>1, <3>2
  <2>3. \A k \in (is + 1)..i : str'[k] = Blank  BY <1>1, <1>2, <1>5 DEF BlankInv, FrontInv
  <2>4. i' = i + 1 /\ in' = in /\ orig' = orig  BY DEF MoveChar
  <2>5. QED  BY <1>1, <1>2, <1>3, <1>4, <2>1, <2>2, <2>3, <2>4 DEF FrontInv
<1>7. QED
  BY <1>1, <1>2, <1>3, <1>4, <1>5, <1>6 DEF BlankInv, MoveChar

LEMMA BlanksKeep == BlankInv /\ KeepChar => BlankInv'
<1> SUFFICES ASSUME BlankInv, KeepChar PROVE BlankInv'  OBVIOUS
<1> DEFINE L == Strlen(orig)
<1>1. step = "blanks" /\ i < L /\ str[i] # Blank /\ is = -1 /\ L \in Nat /\ L' = L
  BY MoreIs, TextLength DEF KeepChar, BlankInv, blankVars
<1>2. i \in 0..L /\ Len(kept) = i /\ str[i] = orig[i] /\ kept \in Seq(Nat)
  BY <1>1 DEF BlankInv, FrontInv, KeptInv
<1>3. KeptInv' /\ Len(kept') = Len(kept) + 1
      /\ kept'[Len(kept) + 1] = i /\ \A k \in 1..Len(kept) : kept'[k] = kept[k]
  BY <1>1, <1>2, KeepsOne DEF KeepChar
<1>4. i' = i + 1 /\ in' = in /\ orig' = orig /\ str' = str /\ is' = is /\ step' = step  BY DEF KeepChar
<1>5. FrontInv'
  <2>1. \A k \in (i + 1)..L : str'[k] = orig[k]  BY <1>1, <1>2, <1>4 DEF BlankInv, FrontInv
  <2>2. ASSUME NEW k \in 0..(Len(kept') - 1) PROVE str'[k] = orig[kept'[k + 1]]
    <3>1. CASE k = i  BY <3>1, <1>2, <1>3, <1>4
    <3>2. CASE k # i
      <4>1. k \in 0..(Len(kept) - 1) /\ k + 1 \in 1..Len(kept)  BY <3>2, <1>2, <1>3
      <4>2. QED  BY <4>1, <1>1, <1>3, <1>4 DEF BlankInv, FrontInv
    <3>3. QED  BY <3>1, <3>2
  <2>3. QED  BY <1>1, <1>2, <1>3, <1>4, <2>1, <2>2 DEF FrontInv
<1>6. QED  BY <1>1, <1>2, <1>3, <1>4, <1>5 DEF BlankInv

LEMMA BlanksPass == BlankInv /\ PassBlank => BlankInv'
<1> SUFFICES ASSUME BlankInv, PassBlank PROVE BlankInv'  OBVIOUS
<1> DEFINE L == Strlen(orig)
<1>1. step = "blanks" /\ i < L /\ str[i] = Blank /\ L \in Nat /\ L' = L
  BY MoreIs, TextLength DEF PassBlank, BlankInv, blankVars
<1>2. i \in 0..L /\ str[i] = orig[i] /\ kept \in Seq(Nat) /\ in \in Nat /\ is \in Int
  BY <1>1 DEF BlankInv, FrontInv, KeptInv
<1>3. i' = i + 1 /\ in' = in + 1 /\ orig' = orig /\ str' = str /\ kept' = kept /\ step' = step
      /\ is' = IF is = -1 THEN i ELSE is
  BY DEF PassBlank
<1>4. KeptInv'
  <2>1. \A p \in 0..i : p \in 0..(i - 1) \/ p = i  BY <1>2
  <2>2. \A k \in 1..Len(kept) : kept[k] \in Nat /\ kept[k] < i + 1 /\ orig[kept[k]] # Blank
    BY <1>1, <1>2 DEF BlankInv, KeptInv
  <2>3. ASSUME NEW p \in 0..i, orig[p] # Blank PROVE \E k \in 1..Len(kept) : kept[k] = p
    BY <1>1, <1>2, <2>1, <2>3 DEF BlankInv, KeptInv
  <2>4. \A k, l \in 1..Len(kept) : k < l => kept[k] < kept[l]  BY <1>1 DEF BlankInv, KeptInv
  <2>5. i' - 1 = i  BY <1>2, <1>3
  <2>6. QED  BY <1>2, <1>3, <2>2, <2>3, <2>4, <2>5 DEF KeptInv
<1>5. FrontInv'
  <2>1. CASE is = -1
    <3>1. Len(kept) = i /\ in = 0 /\ is' = i  BY <2>1, <1>1, <1>3 DEF BlankInv, FrontInv
    <3>2. \A k \in i'..L : str'[k] = orig[k]  BY <1>1, <1>2, <1>3 DEF BlankInv, FrontInv
    <3>3. \A k \in is'..(i' - 1) : str'[k] = Blank  BY <3>1, <1>1, <1>2, <1>3
    <3>4. QED  BY <3>1, <3>2, <3>3, <1>1, <1>2, <1>3 DEF BlankInv, FrontInv
  <2>2. CASE is # -1
    <3>1. is = Len(kept) /\ is < i /\ in # 0 /\ is' = is  BY <2>2, <1>1, <1>3 DEF BlankInv, FrontInv
    <3>2. \A k \in i'..L : str'[k] = orig[k]  BY <1>1, <1>2, <1>3 DEF BlankInv, FrontInv
    <3>3. \A k \in is'..(i' - 1) : str'[k] = Blank
      BY <2>2, <3>1, <1>1, <1>2, <1>3 DEF BlankInv, FrontInv
    <3>4. QED  BY <2>2, <3>1, <3>2, <3>3, <1>1, <1>2, <1>3 DEF BlankInv, FrontInv
  <2>3. QED  BY <2>1, <2>2
<1>6. in' # 0 /\ (is' = -1 => FALSE)  BY <1>2, <1>3
<1>7. QED  BY <1>1, <1>2, <1>3, <1>4, <1>5, <1>6 DEF BlankInv

\* Cut behind the last character that was kept, the text is compacted.
LEMMA BlanksCut == BlankInv /\ CutText => BlankInv' /\ Compacted' /\ nbytes' \in 0..Strlen(orig)
<1> SUFFICES ASSUME BlankInv, CutText PROVE BlankInv' /\ Compacted' /\ nbytes' \in 0..Strlen(orig)  OBVIOUS
<1> DEFINE L == Strlen(orig)
           n == Len(kept)
<1>1. step = "blanks" /\ i \in 0..L /\ ~(i < L) /\ L \in Nat /\ kept \in Seq(Nat) /\ KeptInv /\ FrontInv
  BY MoreIs, TextLength DEF CutText, BlankInv, KeptInv
<1>2. i = L /\ n \in Nat /\ step' # "blanks" /\ nbytes' = Strlen(str') /\ orig' = orig /\ kept' = kept
  BY <1>1 DEF CutText, blankVars
<1>3. n \in 0..L /\ DOMAIN str' = 0..L /\ str'[n] = Nul /\ \A k \in 0..(n - 1) : str'[k] = str[k]
  <2>1. CASE is = -1
    <3>1. n = L /\ str' = str /\ str[L] = orig[L]  BY <2>1, <1>1, <1>2 DEF CutText, FrontInv
    <3>2. QED  BY <3>1, <1>1, TextLength DEF BlankInv
  <2>2. CASE is # -1
    <3>1. n = is /\ is < L /\ str' = [str EXCEPT ![is] = Nul]  BY <2>2, <1>1, <1>2 DEF CutText, FrontInv
    <3>2. QED  BY <3>1, <1>1, <1>2 DEF BlankInv
  <2>3. QED  BY <2>1, <2>2
<1>4. ASSUME NEW k \in 0..(n - 1) PROVE str'[k] = orig[kept[k + 1]] /\ str'[k] # Nul
  <2>1. k + 1 \in 1..n /\ str'[k] = orig[kept[k + 1]]  BY <1>1, <1>2, <1>3 DEF FrontInv
  <2>2. kept[k + 1] \in 0..(L - 1)  BY <2>1, <1>1, <1>2 DEF KeptInv
  <2>3. QED  BY <2>1, <2>2, TextLength DEF BlankInv
<1>5. nbytes' = n  BY <1>1, <1>2, <1>3, <1>4, StrlenAt
<1>6. \A k, l \in 1..n : k < l => kept[k] < kept[l]  BY <1>1 DEF KeptInv
<1>7. {kept[k] : k \in 1..n} = Solid
  <2>1. \A k \in 1..n : kept[k] \in 0..(L - 1) /\ orig[kept[k]] # Blank  BY <1>1, <1>2 DEF KeptInv
  <2>2. \A p \in 0..(L - 1) : orig[p] # Blank => \E k \in 1..n : kept[k] = p  BY <1>1, <1>2 DEF KeptInv
  <2>3. QED  BY <2>1, <2>2 DEF Solid
<1>8. Solid' = Solid  BY <1>2 DEF Solid
<1>9. BlankInv'
  BY <1>2, <1>3 DEF BlankInv
<1>10. QED  BY <1>2, <1>3, <1>4, <1>5, <1>6, <1>7, <1>8, <1>9 DEF Compacted

\* What the text loops may still change once the blanks are out.
LEMMA StaysCompacted ==
  ASSUME BlankInv, Compacted, step # "blanks", step' # "blanks", UNCHANGED <<str, nbytes, blankVars>>
  PROVE  BlankInv' /\ Compacted'
<1>1. str' = str /\ nbytes' = nbytes /\ orig' = orig /\ kept' = kept  BY DEF blankVars
<1>2. Solid' = Solid  BY <1>1 DEF Solid
<1>3. QED  BY <1>1, <1>2 DEF BlankInv, Compacted

SqueezeInv == BlankInv /\ Compacted /\ nbytes \in Nat

LEMMA SqueezeInit == TextInit => SqueezeInv
<1> SUFFICES ASSUME TextInit PROVE SqueezeInv  OBVIOUS
<1>1. orig \in Text /\ str = orig /\ step = "blanks" /\ i = 0 /\ is = -1 /\ in = 0 /\ kept = <<>> /\ nbytes = 0
  BY DEF TextInit
<1>2. Strlen(orig) \in Nat /\ DOMAIN orig = 0..Strlen(orig)  BY <1>1, TextLength
<1>3. KeptInv /\ FrontInv  BY <1>1, <1>2 DEF KeptInv, FrontInv
<1>4. QED  BY <1>1, <1>2, <1>3 DEF SqueezeInv, BlankInv, Compacted

LEMMA SqueezeNext == SqueezeInv /\ [TextNext]_textVars => SqueezeInv'
<1> SUFFICES ASSUME SqueezeInv, [TextNext]_textVars PROVE SqueezeInv'  OBVIOUS
<1>1. BlankInv /\ Compacted /\ nbytes \in Nat  BY DEF SqueezeInv
<1>2. CASE MoveChar
  BY <1>1, <1>2, BlanksMove DEF SqueezeInv, Compacted, MoveChar
<1>3. CASE KeepChar
  BY <1>1, <1>3, BlanksKeep DEF SqueezeInv, Compacted, KeepChar
<1>4. CASE PassBlank
  BY <1>1, <1>4, BlanksPass DEF SqueezeInv, Compacted, PassBlank
<1>5. CASE CutText  BY <1>1, <1>5, BlanksCut, TextLength DEF SqueezeInv, BlankInv
<1>6. CASE PutDigit \/ DigitsDone \/ Pair \/ PairsDone
  <2>1. step # "blanks" /\ step' # "blanks" /\ UNCHANGED <<str, nbytes, blankVars>>
    BY <1>6 DEF PutDigit, DigitsDone, Pair, PairsDone
  <2>2. nbytes' = nbytes  BY <2>1
  <2>3. QED  BY <1>1, <2>1, <2>2, StaysCompacted DEF SqueezeInv
<1>7. CASE UNCHANGED textVars
  <2>1. step' = step /\ UNCHANGED <<str, nbytes, blankVars>>  BY <1>7 DEF textVars
  <2>2. CASE step # "blanks"
    BY <1>1, <2>1, <2>2, StaysCompacted DEF SqueezeInv
  <2>3. CASE step = "blanks"
    BY <1>1, <2>1, <2>3 DEF SqueezeInv, BlankInv, Compacted, KeptInv, FrontInv, blankVars
  <2>4. QED  BY <2>2, <2>3
<1>8. QED  BY <1>2, <1>3, <1>4, <1>5, <1>6, <1>7 DEF TextNext

-----------------------------------------------------------------------------
(* The digits and the pairs.                                               *)

\* The counters count without wrapping below their modulus, and wrap at it.
LEMMA Counts8 ==
  /\ \A k \in 0..(ByteMod - 1) : k % ByteMod = k
  /\ ByteMod % ByteMod = 0
BY TextAssumption

LEMMA JoinDigits == \A a, b \in Hex : Join(<<0, a>>, <<0, b>>) = <<a, b>>
BY DEF Join, BitOr

\* The places from k on hold the digits of the text.
Digits(from) == \A k \in from..(nbytes - 1) : str[k] \in Hex => out[k] = <<0, str[k]>>

DigitLoop ==
  /\ j = 0 /\ size1 <= nbytes
  /\ \A k \in 0..(size1 - 1) : str[k] \in Hex => out[k] = <<0, str[k]>>

\* Below ByteMod - 2 characters the loop over the pairs is one place ahead
\* of what it writes; from there on it never leaves its range.
PairLoop ==
  /\ size1 % 2 = 0 /\ nbytes < ByteMod
  /\ nbytes < ByteMod - 2 =>
       /\ size1 = 2 * j /\ size1 <= nbytes + 2 /\ Digits(size1)
       /\ \A k \in 0..(j - 1) : 2 * k < nbytes /\ {str[2 * k], str[2 * k + 1]} \subseteq Hex =>
            out[k] = <<str[2 * k], str[2 * k + 1]>>

DigitInv ==
  /\ DOMAIN out = 0..(OutSize - 1) /\ size1 \in 0..(ByteMod - 1) /\ j \in 0..(ByteMod - 1)
  /\ step \in {"blanks", "odd", "digits", "pairs", "decoded"}
  /\ step = "blanks" => size1 = 0 /\ j = 0
  /\ step \in {"digits", "pairs", "decoded"} => nbytes % 2 = 0 /\ nbytes \in 0..(OutSize - 2)
  /\ step = "digits" => DigitLoop
  /\ step = "pairs" => PairLoop
  /\ step = "decoded" => PairLoop /\ size1 > nbytes

LEMMA DigitsPut == nbytes \in Nat /\ DigitInv /\ PutDigit => DigitInv'
<1> SUFFICES ASSUME nbytes \in Nat, DigitInv, PutDigit PROVE DigitInv'  OBVIOUS
<1>1. /\ step = "digits" /\ size1 < nbytes /\ j = 0 /\ nbytes \in 0..(OutSize - 2)
      /\ step' = step /\ str' = str /\ nbytes' = nbytes /\ j' = j
      /\ size1 \in 0..(ByteMod - 1) /\ DOMAIN out = 0..(OutSize - 1)
  BY DEF PutDigit, DigitInv, DigitLoop
<1>2. size1 \in DOMAIN out  BY <1>1, TextAssumption
<1>3. DOMAIN out' = 0..(OutSize - 1) /\ (\A k \in 0..(OutSize - 1) : k # size1 => out'[k] = out[k])
      /\ (str[size1] \in Hex => out'[size1] = <<0, str[size1]>>)
  BY <1>1, <1>2 DEF PutDigit
<1>4. \A k \in 0..size1 : str[k] \in Hex => out'[k] = <<0, str[k]>>
  BY <1>1, <1>3, TextAssumption DEF DigitInv, DigitLoop
<1>5. size1' = (size1 + 1) % ByteMod  BY DEF PutDigit
<1>6. size1' = size1 + 1 \/ size1' = 0
  <2>1. CASE size1 + 1 < ByteMod  BY <2>1, <1>1, <1>5, Counts8, TextAssumption
  <2>2. CASE size1 + 1 = ByteMod  BY <2>2, <1>5, Counts8
  <2>3. QED  BY <2>1, <2>2, <1>1, TextAssumption
<1>7. size1' \in 0..(ByteMod - 1)
  BY <1>5, <1>1, TextAssumption
<1>8. DigitLoop'  BY <1>1, <1>4, <1>6 DEF DigitLoop
<1>9. QED  BY <1>1, <1>3, <1>7, <1>8 DEF DigitInv

LEMMA DigitsEnd == nbytes \in Nat /\ DigitInv /\ DigitsDone => DigitInv'
<1> SUFFICES ASSUME nbytes \in Nat, DigitInv, DigitsDone PROVE DigitInv'  OBVIOUS
<1>1. /\ step = "digits" /\ size1 >= nbytes /\ j = 0 /\ size1 <= nbytes /\ size1 \in 0..(ByteMod - 1)
      /\ step' = "pairs" /\ size1' = 0 /\ str' = str /\ nbytes' = nbytes /\ j' = j /\ out' = out
  BY DEF DigitsDone, DigitInv, DigitLoop
<1>2. size1 = nbytes /\ nbytes < ByteMod  BY <1>1, TextAssumption
<1>3. Digits(0)'  BY <1>1, <1>2 DEF DigitInv, DigitLoop, Digits
<1>4. PairLoop'  BY <1>1, <1>2, <1>3 DEF PairLoop, Digits
<1>5. QED  BY <1>1, <1>4, TextAssumption DEF DigitInv

LEMMA PairsPair == nbytes \in Nat /\ DigitInv /\ Pair => DigitInv'
<1> SUFFICES ASSUME nbytes \in Nat, DigitInv, Pair PROVE DigitInv'  OBVIOUS
<1>1. /\ step = "pairs" /\ size1 <= nbytes /\ nbytes \in 0..(OutSize - 2) /\ nbytes % 2 = 0
      /\ step' = step /\ str' = str /\ nbytes' = nbytes
      /\ size1 \in 0..(ByteMod - 1) /\ j \in 0..(ByteMod - 1) /\ DOMAIN out = 0..(OutSize - 1)
      /\ size1 % 2 = 0 /\ nbytes < ByteMod /\ PairLoop
  BY DEF Pair, DigitInv, PairLoop
<1>2. j \in DOMAIN out  BY <1>1, TextAssumption
<1>3. /\ DOMAIN out' = 0..(OutSize - 1) /\ out'[j] = Join(out[size1], out[size1 + 1])
      /\ \A k \in 0..(OutSize - 1) : k # j => out'[k] = out[k]
  BY <1>1, <1>2 DEF Pair
<1>4. size1 <= ByteMod - 2 /\ ByteMod \in Nat /\ ByteMod % 2 = 0  BY <1>1, TextAssumption
<1>5. size1' = (size1 + 2) % ByteMod /\ j' = (j + 1) % ByteMod  BY DEF Pair
<1>6. size1' \in 0..(ByteMod - 1) /\ j' \in 0..(ByteMod - 1)  BY <1>5, <1>1, TextAssumption
<1>7. size1' = IF size1 < ByteMod - 2 THEN size1 + 2 ELSE 0
  <2>1. CASE size1 < ByteMod - 2  BY <2>1, <1>1, <1>5, Counts8, TextAssumption
  <2>2. CASE size1 = ByteMod - 2  BY <2>2, <1>4, <1>5, Counts8
  <2>3. QED  BY <2>1, <2>2, <1>1, <1>4
<1>8. size1' % 2 = 0  BY <1>1, <1>7
<1>9. ASSUME nbytes < ByteMod - 2
      PROVE  /\ size1' = 2 * j' /\ size1' <= nbytes + 2 /\ Digits(size1)'
             /\ \A k \in 0..(j' - 1) : 2 * k < nbytes /\ {str[2 * k], str[2 * k + 1]} \subseteq Hex =>
                  out'[k] = <<str[2 * k], str[2 * k + 1]>>
  <2>1. size1 = 2 * j /\ Digits(size1)  BY <1>1, <1>9 DEF PairLoop
  <2>2. size1' = size1 + 2 /\ j' = j + 1
    <3>1. size1 < ByteMod - 2  BY <1>1, <1>4, <1>9
    <3>2. j + 1 \in 0..(ByteMod - 1)  BY <3>1, <2>1, <1>1, <1>4
    <3>3. QED  BY <3>1, <3>2, <1>5, <1>7, Counts8
  <2>3. Digits(size1)'
    <3>1. \A k \in (size1 + 2)..(nbytes - 1) : k # j /\ k \in 0..(OutSize - 1) /\ k \in size1..(nbytes - 1)
      BY <2>1, <1>1, TextAssumption
    <3>2. QED  BY <3>1, <2>1, <2>2, <1>1, <1>3 DEF Digits
  <2>4. ASSUME NEW k \in 0..j, 2 * k < nbytes, {str[2 * k], str[2 * k + 1]} \subseteq Hex
        PROVE  out'[k] = <<str[2 * k], str[2 * k + 1]>>
    <3>1. CASE k = j
      <4>1. size1 \in size1..(nbytes - 1) /\ size1 + 1 \in size1..(nbytes - 1)
        BY <3>1, <2>1, <2>4, <1>1
      <4>2. out[size1] = <<0, str[size1]>> /\ out[size1 + 1] = <<0, str[size1 + 1]>>
        BY <4>1, <3>1, <2>1, <2>4 DEF Digits
      <4>3. QED  BY <4>2, <3>1, <2>1, <2>4, <1>3, JoinDigits
    <3>2. CASE k # j
      <4>1. k \in 0..(j - 1) /\ k \in 0..(OutSize - 1)
        BY <3>2, <1>1, <1>2, TextAssumption
      <4>2. out'[k] = out[k]  BY <4>1, <3>2, <1>3
      <4>3. QED  BY <4>1, <4>2, <2>4, <1>1, <1>9 DEF PairLoop
    <3>3. QED  BY <3>1, <3>2
  <2>5. QED  BY <2>1, <2>2, <2>3, <2>4, <1>1
<1>10. PairLoop'  BY <1>1, <1>8, <1>9 DEF PairLoop
<1>11. QED  BY <1>1, <1>3, <1>6, <1>10 DEF DigitInv

LEMMA DigitInit == TextInit => DigitInv
BY TextAssumption DEF TextInit, DigitInv

LEMMA DigitNext == SqueezeInv /\ SqueezeInv' /\ DigitInv /\ [TextNext]_textVars => DigitInv'
<1> SUFFICES ASSUME SqueezeInv, SqueezeInv', DigitInv, [TextNext]_textVars PROVE DigitInv'  OBVIOUS
<1>1. nbytes \in Nat /\ nbytes' \in Nat  BY DEF SqueezeInv
<1>2. CASE MoveChar \/ KeepChar \/ PassBlank
  BY <1>2 DEF MoveChar, KeepChar, PassBlank, DigitInv, digitVars
<1>3. CASE CutText
  <2>1. step = "blanks" /\ out' = out /\ size1' = size1 /\ j' = j /\ size1 = 0 /\ j = 0
        /\ step' = IF nbytes' % 2 = 1 THEN "odd" ELSE "digits"
    BY <1>3 DEF CutText, DigitInv, digitVars
  <2>2. nbytes' \in 0..(OutSize - 2)
    <3>1. nbytes' \in 0..Strlen(orig) /\ orig \in Text  BY <1>3, BlanksCut DEF SqueezeInv, BlankInv
    <3>2. QED  BY <3>1, TextLength, TextAssumption
  <2>3. DOMAIN out' = 0..(OutSize - 1) /\ size1' \in 0..(ByteMod - 1) /\ j' \in 0..(ByteMod - 1)
    BY <2>1 DEF DigitInv
  <2>4. DigitLoop'  BY <2>1, <1>1 DEF DigitLoop
  <2>5. nbytes' % 2 = 0 \/ nbytes' % 2 = 1
    <3>1. \A n \in Nat : n % 2 = 0 \/ n % 2 = 1  OBVIOUS
    <3>2. QED  BY <3>1, <1>1
  <2>6. QED  BY <2>1, <2>2, <2>3, <2>4, <2>5 DEF DigitInv
<1>4. CASE PutDigit  BY <1>1, <1>4, DigitsPut
<1>5. CASE DigitsDone  BY <1>1, <1>5, DigitsEnd
<1>6. CASE Pair  BY <1>1, <1>6, PairsPair
<1>7. CASE PairsDone
  BY <1>1, <1>7 DEF PairsDone, DigitInv, PairLoop, Digits, digitVars
<1>8. CASE UNCHANGED textVars
  BY <1>8 DEF textVars, digitVars, DigitInv, DigitLoop, PairLoop, Digits
<1>9. QED  BY <1>2, <1>3, <1>4, <1>5, <1>6, <1>7, <1>8 DEF TextNext

\* Where the loops end, the bytes are those of the text.
LEMMA DecodedThen == SqueezeInv /\ DigitInv => Decoded
<1> SUFFICES ASSUME SqueezeInv, DigitInv, step = "decoded"
             PROVE  /\ nbytes < ByteMod - 2
                    /\ \A k \in 0..(nbytes - 1) :
                         k % 2 = 0 /\ {orig[kept[k + 1]], orig[kept[k + 2]]} \subseteq Hex =>
                           out[k \div 2] = <<orig[kept[k + 1]], orig[kept[k + 2]]>>
  BY DEF Decoded
<1>1. PairLoop /\ size1 > nbytes /\ nbytes \in Nat /\ nbytes % 2 = 0 /\ size1 \in 0..(ByteMod - 1) /\ j \in Nat
      /\ Compacted
  BY TextAssumption DEF SqueezeInv, DigitInv
<1>2. nbytes < ByteMod - 2
  <2>1. size1 <= ByteMod - 2  BY <1>1, TextAssumption DEF PairLoop
  <2>2. QED  BY <2>1, <1>1, TextAssumption
<1>3. ASSUME NEW k \in 0..(nbytes - 1), k % 2 = 0, {orig[kept[k + 1]], orig[kept[k + 2]]} \subseteq Hex
      PROVE  out[k \div 2] = <<orig[kept[k + 1]], orig[kept[k + 2]]>>
  <2>1. k + 1 \in 0..(nbytes - 1)  BY <1>1, <1>3
  <2>2. str[k] = orig[kept[k + 1]] /\ str[k + 1] = orig[kept[k + 2]]
    <3>1. str[k] = orig[kept[k + 1]] /\ str[k + 1] = orig[kept[k + 1 + 1]]  BY <1>1, <2>1 DEF Compacted
    <3>2. QED  BY <3>1
  <2>3. PICK h \in Nat : k = 2 * h /\ h = k \div 2  BY <1>3
  <2>4. h \in 0..(j - 1) /\ 2 * h < nbytes  BY <2>3, <1>1, <1>2 DEF PairLoop
  <2>5. out[h] = <<str[2 * h], str[2 * h + 1]>>  BY <2>2, <2>3, <2>4, <1>1, <1>2, <1>3 DEF PairLoop
  <2>6. QED  BY <2>2, <2>3, <2>5
<1>4. QED  BY <1>2, <1>3

-----------------------------------------------------------------------------

\* remove_blank() and remove_blank1() keep the characters that are not blank,
\* all of them and in order, in a text of any length.
THEOREM TextCompacted == TextSpec => []Compacted
<1>1. SqueezeInv => Compacted  BY DEF SqueezeInv
<1>2. QED  BY <1>1, SqueezeInit, SqueezeNext, PTL DEF TextSpec

\* gl_str2acsll() ends with the bytes of the text, and only on texts that its
\* counters can count.
THEOREM TextDecoded == TextSpec => []Decoded
<1>1. SqueezeInv /\ DigitInv /\ [TextNext]_textVars => SqueezeInv' /\ DigitInv'
  BY SqueezeNext, DigitNext
<1>2. QED  BY <1>1, SqueezeInit, DigitInit, DecodedThen, PTL DEF TextSpec
=============================================================================
