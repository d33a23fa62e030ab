------------------------------ MODULE HexText ------------------------------
(***************************************************************************)
(* Hexadecimal text becomes bytes: remove_blank() and remove_blank1() of   *)
(* src/src/modbus_api.c squeeze the blanks out of a text in place,         *)
(* gl_str2acsll() turns what is left into digits and then, in the same     *)
(* buffer, pairs of digits into bytes.  Arrays start at 0 and the counters *)
(* of gl_str2acsll() are bytes, as in the code.                            *)
(***************************************************************************)
EXTENDS Integers, Sequences

CONSTANTS
  Text,      \* texts: characters by position, with Nul after the last
  Blank, Nul,
  BadChar,   \* any character that is neither a digit nor blank
  ByteMod,   \* values of an unsigned char, 256
  OutSize    \* the size of the buffer for the bytes

\* A digit stands for its value, in upper or lower case.
Hex  == 0..15
Char == Hex \cup {Blank, BadChar}

ASSUME TextAssumption ==
  /\ Blank \notin Hex /\ Nul \notin Char /\ BadChar \notin Hex /\ BadChar # Blank
  /\ ByteMod \in Nat /\ ByteMod > 2 /\ ByteMod % 2 = 0
  /\ OutSize \in Nat /\ OutSize > ByteMod
  /\ \A t \in Text : \E n \in 0..(OutSize - 2) :
       t \in [0..n -> Char \cup {Nul}] /\ t[n] = Nul /\ \A k \in 0..(n - 1) : t[k] # Nul

VARIABLES
  step,    \* the loop that runs
  str,     \* the text, which is changed in place
  orig,    \* the text as it was given
  counted, \* the loop runs for a count, as in remove_blank1()
  i, is, in, \* the variables of remove_blank()
  kept,    \* where the characters that were kept come from
  nbytes,  \* strlen() of the text without blanks
  out,     \* acsll_out: a byte is its high and its low digit
  size1, j \* the counters of gl_str2acsll(), j is its variable i

blankVars == <<orig, counted, i, is, in, kept>>
digitVars == <<out, size1, j>>
textVars  == <<step, str, nbytes, blankVars, digitVars>>

Strlen(t) == CHOOSE n \in DOMAIN t : t[n] = Nul /\ \A k \in 0..(n - 1) : t[k] # Nul

\* The digit that cannot be told because bits of two were mixed.
Mixed == -1
Nibble == Hex \cup {Mixed}
Byte == Nibble \X Nibble

\* The buffer holds what an earlier use left in it.
TextInit ==
  /\ step = "blanks" /\ orig \in Text /\ str = orig
  /\ counted \in BOOLEAN /\ i = 0 /\ is = -1 /\ in = 0 /\ kept = <<>> /\ nbytes = 0
  /\ \E left \in {<<0, 0>>, <<10, 10>>} : out = [k \in 0..(OutSize - 1) |-> left]
  /\ size1 = 0 /\ j = 0

-----------------------------------------------------------------------------
(* remove_blank() runs to the end of the text, remove_blank1() for a count *)
(* of characters, which its callers take from strlen().                    *)

More == IF counted THEN i < Strlen(orig) ELSE str[i] # Nul

\* Faulty variant: the place after the first gap is taken for a later one.
MutMoveChar ==
  /\ step = "blanks" /\ More /\ str[i] # Blank /\ is # -1
  /\ str' = [str EXCEPT ![is] = str[i], ![i] = Blank]
  /\ is' = (IF in = 2 THEN i ELSE is + 1)
  /\ kept' = Append(kept, i) /\ i' = i + 1
  /\ UNCHANGED <<step, orig, counted, in, nbytes, digitVars>>

\* A character with blanks before it moves to the first of them.
MoveChar ==
  /\ step = "blanks" /\ More /\ str[i] # Blank /\ is # -1
  /\ str' = [str EXCEPT ![is] = str[i], ![i] = Blank]
  /\ is' = (IF in = 1 THEN i ELSE is + 1)
  /\ kept' = Append(kept, i) /\ i' = i + 1
  /\ UNCHANGED <<step, orig, counted, in, nbytes, digitVars>>

KeepChar ==
  /\ step = "blanks" /\ More /\ str[i] # Blank /\ is = -1
  /\ kept' = Append(kept, i) /\ i' = i + 1
  /\ UNCHANGED <<step, str, orig, counted, is, in, nbytes, digitVars>>

PassBlank ==
  /\ step = "blanks" /\ More /\ str[i] = Blank
  /\ is' = (IF is = -1 THEN i ELSE is) /\ in' = in + 1 /\ i' = i + 1
  /\ UNCHANGED <<step, str, orig, counted, kept, nbytes, digitVars>>

\* The end of the text: what is left ends at the first free place.  The
\* callers refuse an odd length.
CutText ==
  /\ step = "blanks" /\ ~More
  /\ str' = IF is # -1 THEN [str EXCEPT ![is] = Nul] ELSE str
  /\ nbytes' = Strlen(str')
  /\ step' = IF nbytes' % 2 = 1 THEN "odd" ELSE "digits"
  /\ UNCHANGED <<blankVars, digitVars>>

-----------------------------------------------------------------------------
(* gl_str2acsll(): first a digit in each place, then each pair in one.     *)

\* Faulty variant: the digit is added to what the buffer held.
MutPutDigit ==
  /\ step = "digits" /\ size1 < nbytes
  /\ out' = IF str[size1] \in Hex
              THEN [out EXCEPT ![size1] = <<out[size1][1], str[size1]>>] ELSE out
  /\ size1' = (size1 + 1) % ByteMod
  /\ UNCHANGED <<step, str, nbytes, blankVars, j>>

\* A character that is no digit leaves the old content.
PutDigit ==
  /\ step = "digits" /\ size1 < nbytes
  /\ out' = IF str[size1] \in Hex THEN [out EXCEPT ![size1] = <<0, str[size1]>>] ELSE out
  /\ size1' = (size1 + 1) % ByteMod
  /\ UNCHANGED <<step, str, nbytes, blankVars, j>>

DigitsDone ==
  /\ step = "digits" /\ size1 >= nbytes
  /\ step' = "pairs" /\ size1' = 0
  /\ UNCHANGED <<str, nbytes, blankVars, out, j>>

\* x << 4 | y
BitOr(x, y) == IF x = 0 THEN y ELSE IF y \in {0, x} THEN x ELSE Mixed
Join(x, y)  == <<BitOr(x[2], y[1]), y[2]>>

\* The loop goes on while size1 <= s_len, so it also joins the two places
\* behind the text.
Pair ==
  /\ step = "pairs" /\ size1 <= nbytes
  /\ out' = [out EXCEPT ![j] = Join(out[size1], out[size1 + 1])]
  /\ j' = (j + 1) % ByteMod /\ size1' = (size1 + 2) % ByteMod
  /\ UNCHANGED <<step, str, nbytes, blankVars>>

PairsDone ==
  /\ step = "pairs" /\ size1 > nbytes
  /\ step' = "decoded"
  /\ UNCHANGED <<str, nbytes, blankVars, digitVars>>

TextNext ==
  MoveChar \/ KeepChar \/ PassBlank \/ CutText \/ PutDigit \/ DigitsDone \/ Pair \/ PairsDone

TextSpec == TextInit /\ [][TextNext]_textVars

-----------------------------------------------------------------------------

\* The characters of the text that are not blank.
Solid == {p \in 0..(Strlen(orig) - 1) : orig[p] # Blank}

\* Squeezed in place, the text holds the characters that are not blank, all
\* of them and in their order, and ends after the last: wherever blanks
\* stand, and for both functions.
Compacted == step # "blanks" =>
  /\ Len(kept) = nbytes /\ {kept[k] : k \in 1..nbytes} = Solid
  /\ \A k, l \in 1..nbytes : k < l => kept[k] < kept[l]
  /\ \A k \in 0..(nbytes - 1) : str[k] = orig[kept[k + 1]]

\* The k-th byte of the result is the 2k-th and the next character of the
\* text that are not blank, where both are digits, whatever the buffer held:
\* joining the pairs in place overwrites no digit that is still to be read.
\* The 8 bit counters end the loop only below ByteMod - 2 characters.
Decoded == step = "decoded" =>
  /\ nbytes < ByteMod - 2
  /\ \A k \in 0..(nbytes - 1) :
       k % 2 = 0 /\ {orig[kept[k + 1]], orig[kept[k + 2]]} \subseteq Hex =>
         out[k \div 2] = <<orig[kept[k + 1]], orig[kept[k + 2]]>>
=============================================================================
