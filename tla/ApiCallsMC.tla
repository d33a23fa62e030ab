----------------------------- MODULE ApiCallsMC -----------------------------
EXTENDS ApiCalls

\* The text with the characters of a sequence.
AsText(s) == [n \in 0..Len(s) |-> IF n = Len(s) THEN Nul ELSE s[n + 1]]

Short == {AsText(s) : s \in UNION {[1..n -> {Blank, BadChar, 10, 3}] : n \in 0..3}}
Gaps  == {AsText(<<Blank, 1, Blank, Blank, 2, 3, Blank, 4>>), AsText(<<1, Blank, 2, Blank, 3, 4, 5, 6>>)}

\* Around the width of the counters, with blanks and without.
Long == {AsText([k \in 1..n |-> k % 16]) : n \in {12, 14, 16, 18}}
        \cup {AsText([k \in 1..16 |-> IF k \in 7..10 THEN Blank ELSE k % 16])}

SomeTexts == Short \cup Gaps \cup Long
=============================================================================
