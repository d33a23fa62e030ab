----------------------------- MODULE DataLemmas -----------------------------
(***************************************************************************)
(* Facts about data that the proofs about the components cite: induction   *)
(* and recursion over the naturals, stated for sets and functions, and     *)
(* what the queue operators return for every queue without repetitions.    *)
(***************************************************************************)
EXTENDS QueueOps, WellFoundedInduction, TLAPS

\* A set of naturals with an element has a least one.
LEMMA LeastNat ==
  ASSUME NEW T, T \subseteq Nat, T # {}
  PROVE  \E m \in T : \A k \in T : m <= k
<1>1. PICK m \in T : \A k \in T : <<k, m>> \notin OpToRel(<, Nat)
  BY WFMin, NatLessThanWellFounded, Zenon
<1>2. ASSUME NEW k \in T  PROVE m <= k
  <2>1. k \in Nat /\ m \in Nat  OBVIOUS
  <2>2. <<k, m>> \in Nat \X Nat /\ <<k, m>>[1] = k /\ <<k, m>>[2] = m  BY <2>1
  <2>3. k < m => <<k, m>> \in OpToRel(<, Nat)  BY <2>2, Zenon DEF OpToRel
  <2>4. ~(k < m)  BY <2>3, <1>1, Zenon
  <2>5. QED  BY <2>1, <2>4
<1>3. QED  BY <1>2

\* Induction: a set that has 0, and with a number the next one, has them all.
LEMMA AllNats ==
  ASSUME NEW S, 0 \in S, \A n \in Nat : n \in S => n + 1 \in S
  PROVE  \A n \in Nat : n \in S
<1> SUFFICES ASSUME Nat \ S # {} PROVE FALSE  OBVIOUS
<1>1. PICK m \in Nat \ S : \A k \in Nat \ S : m <= k  BY LeastNat
<1>2. m - 1 \in Nat /\ m - 1 \in S  BY <1>1
<1>3. QED  BY <1>1, <1>2

\* f has the value a at 0 and after that what step makes of the value before.
Recursive(f, a, step) == \A n \in DOMAIN f : f[n] = IF n = 0 THEN a ELSE step[n][f[n - 1]]

\* Recursion: a function of the naturals is given by its value at 0 and by what
\* follows from the value before.
LEMMA Recursion ==
  ASSUME NEW S, NEW a \in S, NEW step \in [Nat -> [S -> S]]
  PROVE  \E g : g \in [Nat -> S] /\ Recursive(g, a, step)
<1> DEFINE Upto(n) == {g \in [0..n -> S] : g[0] = a /\ \A i \in 1..n : g[i] = step[i][g[i - 1]]}
           Some == {n \in Nat : Upto(n) # {}}
<1>1. \A n \in Nat : n \in Some
  <2>1. 0 \in Some
    <3>1. [i \in 0..0 |-> a] \in Upto(0)  OBVIOUS
    <3>2. QED  BY <3>1
  <2>2. ASSUME NEW n \in Nat, n \in Some  PROVE n + 1 \in Some
    <3>1. PICK g : g \in Upto(n)  BY <2>2
    <3> DEFINE h == [i \in 0..(n + 1) |-> IF i = n + 1 THEN step[n + 1][g[n]] ELSE g[i]]
    <3>2. g \in [0..n -> S] /\ g[0] = a /\ \A i \in 1..n : g[i] = step[i][g[i - 1]]  BY <3>1
    <3>3. step[n + 1][g[n]] \in S  BY <3>2
    <3>4. h \in [0..(n + 1) -> S] /\ h[0] = a  BY <3>2, <3>3
    <3>5. \A i \in 1..(n + 1) : h[i] = step[i][h[i - 1]]  BY <3>2
    <3>6. h \in Upto(n + 1)  BY <3>4, <3>5
    <3> HIDE DEF Upto, h
    <3>7. n + 1 \in Nat /\ Upto(n + 1) # {}  BY <3>6
    <3>8. QED  BY <3>7
  <2> HIDE DEF Some
  <2>3. QED  BY <2>1, <2>2, AllNats
<1>2. ASSUME NEW m \in Nat, NEW g \in Upto(m), NEW n \in Nat, NEW h \in Upto(n), NEW i \in Nat, i <= n, i <= m
      PROVE  h[i] = g[i]
  <2> DEFINE Agree == {k \in Nat : k <= n /\ k <= m => h[k] = g[k]}
  <2>1. 0 \in Agree  OBVIOUS
  <2>2. ASSUME NEW k \in Nat, k \in Agree  PROVE k + 1 \in Agree
    <3>1. SUFFICES ASSUME k + 1 <= n, k + 1 <= m  PROVE h[k + 1] = g[k + 1]  OBVIOUS
    <3>2. h[k] = g[k] /\ k + 1 \in 1..n /\ k + 1 \in 1..m /\ (k + 1) - 1 = k  BY <2>2, <3>1
    <3>3. QED  BY <3>2
  <2> HIDE DEF Agree
  <2>3. i \in Agree  BY <2>1, <2>2, AllNats
  <2>4. QED  BY <2>3, <1>2 DEF Agree
<1> DEFINE pick == [n \in Nat |-> CHOOSE g : g \in Upto(n)]
           f == [n \in Nat |-> pick[n][n]]
<1>3. \A n \in Nat : pick[n] \in Upto(n)  BY <1>1
<1> HIDE DEF pick, Some
<1>4. f \in [Nat -> S]  BY <1>3
<1>5. f[0] = a  BY <1>3
<1>6. ASSUME NEW n \in Nat \ {0}  PROVE f[n] = step[n][f[n - 1]]
  <2>1. n - 1 \in Nat /\ n \in 1..n /\ n - 1 <= n  OBVIOUS
  <2>2. pick[n] \in Upto(n) /\ pick[n - 1] \in Upto(n - 1)  BY <2>1, <1>3
  <2>3. pick[n][n] = step[n][pick[n][n - 1]]  BY <2>1, <2>2
  <2>4. pick[n][n - 1] = pick[n - 1][n - 1]
    <3> HIDE DEF Upto
    <3>1. n - 1 <= n - 1 /\ n \in Nat  OBVIOUS
    <3>2. QED  BY <3>1, <2>1, <2>2, <1>2
  <2>5. QED  BY <2>1, <2>3, <2>4
<1>7. Recursive(f, a, step)  BY <1>4, <1>5, <1>6 DEF Recursive
<1>8. QED  BY <1>4, <1>7

\* The same for a function of the first numbers only.
LEMMA RecursionUpto ==
  ASSUME NEW m \in Nat, NEW S, NEW a \in S, NEW step \in [Nat -> [S -> S]]
  PROVE  \E f : f \in [0..m -> S] /\ Recursive(f, a, step)
<1>1. PICK g : g \in [Nat -> S] /\ Recursive(g, a, step)  BY Recursion
<1> DEFINE f == [n \in 0..m |-> g[n]]
<1>2. f \in [0..m -> S]  BY <1>1
<1>3. ASSUME NEW n \in 0..m  PROVE f[n] = IF n = 0 THEN a ELSE step[n][f[n - 1]]
  <2>1. g[n] = IF n = 0 THEN a ELSE step[n][g[n - 1]]  BY <1>1 DEF Recursive
  <2>2. n # 0 => n - 1 \in 0..m  OBVIOUS
  <2>3. QED  BY <2>1, <2>2
<1>4. QED  BY <1>2, <1>3 DEF Recursive
-----------------------------------------------------------------------------
(* Queues. *)

\* A queue of S: a sequence in which no element occurs twice.
Queues(S) == {q \in Seq(S) : IsInjective(q)}

\* The position of an element: where it occurs, and nowhere else.
LEMMA PositionUnique ==
  ASSUME NEW S, NEW q \in Queues(S), NEW c \in Range(q)
  PROVE  /\ Position(q, c) \in 1..Len(q)
         /\ q[Position(q, c)] = c
         /\ \A i \in 1..Len(q) : q[i] = c => i = Position(q, c)
<1>1. PICK i \in DOMAIN q : q[i] = c  BY DEF Range
<1>2. DOMAIN q = 1..Len(q)  BY DEF Queues
<1>3. Position(q, c) \in DOMAIN q /\ q[Position(q, c)] = c  BY <1>1 DEF Position
<1>4. QED  BY <1>2, <1>3 DEF Queues, IsInjective

\* Deleting c shifts the elements after it down by one.
LEMMA DeleteElemAt ==
  ASSUME NEW S, NEW q \in Queues(S), NEW c \in Range(q)
  PROVE  /\ DeleteElem(q, c) \in Seq(S)
         /\ Len(DeleteElem(q, c)) = Len(q) - 1
         /\ \A j \in 1..(Len(q) - 1) :
              DeleteElem(q, c)[j] = IF j < Position(q, c) THEN q[j] ELSE q[j + 1]
<1> DEFINE p == Position(q, c)
<1>1. p \in 1..Len(q) /\ q \in Seq(S) /\ Len(q) \in Nat  BY PositionUnique DEF Queues
<1> HIDE DEF p
<1>2. DeleteElem(q, c) = SubSeq(q, 1, p - 1) \o SubSeq(q, p + 1, Len(q))  BY DEF DeleteElem, RemoveAt, p
<1> DEFINE a == SubSeq(q, 1, p - 1)
           b == SubSeq(q, p + 1, Len(q))
<1>3. a \in Seq(S) /\ Len(a) = p - 1 /\ \A j \in 1..(p - 1) : a[j] = q[j]  BY <1>1
<1>4. b \in Seq(S) /\ Len(b) = Len(q) - p /\ \A j \in 1..(Len(q) - p) : b[j] = q[p + j]  BY <1>1
<1> HIDE DEF a, b
<1>5. a \o b \in Seq(S) /\ Len(a \o b) = Len(q) - 1
  <2>1. a \o b \in Seq(S) /\ Len(a \o b) = Len(a) + Len(b)  BY <1>3, <1>4
  <2>2. Len(a) + Len(b) = Len(q) - 1  BY <1>1, <1>3, <1>4
  <2>3. QED  BY <2>1, <2>2
<1>6. ASSUME NEW j \in 1..(Len(q) - 1)
      PROVE  (a \o b)[j] = IF j < p THEN q[j] ELSE q[j + 1]
  <2>1. CASE j < p  BY <2>1, <1>1, <1>3, <1>4
  <2>2. CASE ~(j < p)
    <3>1. (a \o b)[j] = b[j - (p - 1)]  BY <2>2, <1>1, <1>3, <1>4
    <3>2. j - (p - 1) \in 1..(Len(q) - p) /\ p + (j - (p - 1)) = j + 1  BY <2>2, <1>1
    <3>3. QED  BY <3>1, <3>2, <1>4, <2>2
  <2>3. QED  BY <2>1, <2>2
<1>7. QED  BY <1>2, <1>5, <1>6 DEF a, b, p

\* Deleting c leaves a queue of exactly the other elements.
LEMMA DeleteElemQueue ==
  ASSUME NEW S, NEW q \in Queues(S), NEW c \in Range(q)
  PROVE  /\ DeleteElem(q, c) \in Queues(S)
         /\ Len(DeleteElem(q, c)) = Len(q) - 1
         /\ Range(DeleteElem(q, c)) = Range(q) \ {c}
<1> DEFINE r == DeleteElem(q, c)
           p == Position(q, c)
<1>1. /\ r \in Seq(S) /\ Len(r) = Len(q) - 1 /\ Len(q) \in Nat
      /\ \A j \in 1..(Len(q) - 1) : r[j] = IF j < p THEN q[j] ELSE q[j + 1]
  BY DeleteElemAt DEF Queues
<1>2. /\ p \in 1..Len(q) /\ q[p] = c
      /\ \A i \in 1..Len(q) : q[i] = c => i = p
  BY PositionUnique
<1>3. DOMAIN q = 1..Len(q) /\ DOMAIN r = 1..(Len(q) - 1)  BY <1>1 DEF Queues
<1>4. \A i, j \in 1..Len(q) : q[i] = q[j] => i = j  BY <1>3 DEF Queues, IsInjective
<1> HIDE DEF r, p
<1>5. ASSUME NEW i \in 1..(Len(q) - 1), NEW j \in 1..(Len(q) - 1), r[i] = r[j]
      PROVE  i = j
  <2>1. i \in 1..Len(q) /\ i + 1 \in 1..Len(q) /\ j \in 1..Len(q) /\ j + 1 \in 1..Len(q)  BY <1>1
  <2>2. CASE i < p /\ j < p  BY <2>1, <2>2, <1>1, <1>4, <1>5
  <2>3. CASE i < p /\ ~(j < p)
    <3>1. q[i] = q[j + 1]  BY <2>3, <1>1, <1>5
    <3>2. i = j + 1  BY <3>1, <2>1, <1>4
    <3>3. QED  BY <3>2, <2>3, <1>2, <2>1
  <2>4. CASE ~(i < p) /\ j < p
    <3>1. q[i + 1] = q[j]  BY <2>4, <1>1, <1>5
    <3>2. i + 1 = j  BY <3>1, <2>1, <1>4
    <3>3. QED  BY <3>2, <2>4, <1>2, <2>1
  <2>5. CASE ~(i < p) /\ ~(j < p)
    <3>1. q[i + 1] = q[j + 1]  BY <2>5, <1>1, <1>5
    <3>2. i + 1 = j + 1  BY <3>1, <2>1, <1>4
    <3>3. QED  BY <3>2, <2>1
  <2>6. QED  BY <2>2, <2>3, <2>4, <2>5
<1>6. r \in Queues(S)  BY <1>1, <1>3, <1>5 DEF Queues, IsInjective
<1>7. Range(r) \subseteq Range(q) \ {c}
  <2>1. SUFFICES ASSUME NEW j \in 1..(Len(q) - 1)  PROVE r[j] \in Range(q) /\ r[j] # c
    BY <1>3 DEF Range
  <2>2. j \in 1..Len(q) /\ j + 1 \in 1..Len(q)  BY <1>1
  <2>3. CASE j < p  BY <2>2, <2>3, <1>1, <1>2, <1>3 DEF Range
  <2>4. CASE ~(j < p)
    <3>1. r[j] = q[j + 1] /\ j + 1 # p  BY <2>4, <1>1, <1>2, <2>2
    <3>2. QED  BY <3>1, <2>2, <1>2, <1>3 DEF Range
  <2>5. QED  BY <2>3, <2>4
<1>8. Range(q) \ {c} \subseteq Range(r)
  <2>1. SUFFICES ASSUME NEW i \in 1..Len(q), q[i] # c  PROVE \E j \in 1..(Len(q) - 1) : r[j] = q[i]
    BY <1>3 DEF Range
  <2>2. CASE i < p
    <3>1. i \in 1..(Len(q) - 1) /\ r[i] = q[i]  BY <2>2, <1>1, <1>2
    <3>2. QED  BY <3>1
  <2>3. CASE ~(i < p)
    <3>1. i - 1 \in 1..(Len(q) - 1) /\ ~(i - 1 < p) /\ (i - 1) + 1 = i  BY <2>1, <2>3, <1>1, <1>2
    <3>2. r[i - 1] = q[i]  BY <3>1, <1>1
    <3>3. QED  BY <3>1, <3>2
  <2>4. QED  BY <2>2, <2>3
<1>9. QED  BY <1>1, <1>6, <1>7, <1>8 DEF r

\* Appending an element that is not yet queued.
LEMMA NewElemQueue ==
  ASSUME NEW S, NEW q \in Queues(S), NEW c \in S, c \notin Range(q)
  PROVE  /\ NewElem(q, c) \in Queues(S)
         /\ Len(NewElem(q, c)) = Len(q) + 1
         /\ Range(NewElem(q, c)) = Range(q) \cup {c}
<1> DEFINE r == NewElem(q, c)
<1>1. /\ r \in Seq(S) /\ Len(r) = Len(q) + 1 /\ Len(q) \in Nat
      /\ \A j \in 1..Len(q) : r[j] = q[j]
      /\ r[Len(q) + 1] = c
  BY DEF NewElem, Queues
<1>2. DOMAIN q = 1..Len(q) /\ DOMAIN r = 1..(Len(q) + 1)  BY <1>1 DEF Queues
<1>3. \A i, j \in 1..Len(q) : q[i] = q[j] => i = j  BY <1>2 DEF Queues, IsInjective
<1>4. \A i \in 1..Len(q) : q[i] # c  BY <1>2 DEF Range
<1>5. \A i \in 1..(Len(q) + 1) : i \in 1..Len(q) \/ i = Len(q) + 1  BY <1>1
<1> HIDE DEF r
<1>6. r \in Queues(S)  BY <1>1, <1>2, <1>3, <1>4, <1>5 DEF Queues, IsInjective
<1>7. Range(r) = Range(q) \cup {c}
  <2>1. Range(r) \subseteq Range(q) \cup {c}  BY <1>1, <1>2, <1>5 DEF Range
  <2>2. ASSUME NEW i \in 1..Len(q)  PROVE q[i] \in Range(r)
    <3>1. i \in 1..(Len(q) + 1)  BY <1>1
    <3>2. QED  BY <3>1, <1>1, <1>2 DEF Range
  <2>3. c \in Range(r)
    <3>1. Len(q) + 1 \in 1..(Len(q) + 1)  BY <1>1
    <3>2. QED  BY <3>1, <1>1, <1>2 DEF Range
  <2>4. QED  BY <2>1, <2>2, <2>3, <1>2 DEF Range
<1>8. QED  BY <1>1, <1>6, <1>7 DEF r

\* The element after the one at i is the one at i + 1.
LEMMA NextElemAt ==
  ASSUME NEW S, NEW q \in Queues(S), NEW i \in 1..(Len(q) - 1)
  PROVE  NextElem(q, q[i]) = q[i + 1]
<1>1. i \in 1..Len(q) /\ i # Len(q) /\ DOMAIN q = 1..Len(q)  BY DEF Queues
<1>2. q[i] \in Range(q)  BY <1>1 DEF Range
<1>3. Position(q, q[i]) = i  BY <1>1, <1>2, PositionUnique
<1>4. QED  BY <1>1, <1>3 DEF NextElem

\* The element after c is queued, and is c itself only when c is alone.
LEMMA NextElemQueue ==
  ASSUME NEW S, NEW q \in Queues(S), NEW c \in Range(q)
  PROVE  /\ NextElem(q, c) \in Range(q)
         /\ NextElem(q, c) = c => Len(q) = 1
<1> DEFINE p == Position(q, c)
<1>1. /\ p \in 1..Len(q) /\ q[p] = c /\ Len(q) \in Nat
      /\ \A i \in 1..Len(q) : q[i] = c => i = p
  BY PositionUnique DEF Queues
<1>2. DOMAIN q = 1..Len(q) /\ Head(q) = q[1]  BY <1>1 DEF Queues
<1> HIDE DEF p
<1>3. CASE p = Len(q)
  <2>1. NextElem(q, c) = q[1]  BY <1>2, <1>3 DEF NextElem, p
  <2>2. 1 \in 1..Len(q)  BY <1>1
  <2>3. NextElem(q, c) \in Range(q)  BY <2>1, <2>2, <1>2 DEF Range
  <2>4. QED  BY <2>1, <2>2, <2>3, <1>1, <1>3
<1>4. CASE p # Len(q)
  <2>1. NextElem(q, c) = q[p + 1]  BY <1>4 DEF NextElem, p
  <2>2. p + 1 \in 1..Len(q) /\ p + 1 # p  BY <1>1, <1>4
  <2>3. NextElem(q, c) \in Range(q)  BY <2>1, <2>2, <1>2 DEF Range
  <2>4. NextElem(q, c) # c  BY <2>1, <2>2, <1>1
  <2>5. QED  BY <2>3, <2>4
<1>5. QED  BY <1>3, <1>4

\* The head of a queue that is not empty is queued; so is every element, as a member of S.
LEMMA HeadQueue ==
  ASSUME NEW S, NEW q \in Queues(S)
  PROVE  /\ Range(q) \subseteq S
         /\ q # <<>> => Len(q) > 0 /\ Head(q) \in Range(q)
<1>1. DOMAIN q = 1..Len(q) /\ Len(q) \in Nat  BY DEF Queues
<1>2. Range(q) \subseteq S  BY <1>1 DEF Range, Queues
<1>3. ASSUME q # <<>>  PROVE Len(q) > 0 /\ Head(q) \in Range(q)
  <2>1. Len(q) > 0  BY <1>1, <1>3 DEF Queues
  <2>2. Head(q) = q[1] /\ 1 \in DOMAIN q  BY <1>1, <2>1
  <2>3. QED  BY <2>1, <2>2 DEF Range
<1>4. QED  BY <1>2, <1>3
=============================================================================
