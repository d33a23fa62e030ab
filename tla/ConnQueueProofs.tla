--------------------------- MODULE ConnQueueProofs ---------------------------
(***************************************************************************)
(* Proofs about the linked list, for any set of addresses: the links are   *)
(* those of a sequence without repetitions, through every append and       *)
(* delete, and the list implements ConnSeq.  The sequence is what the loop *)
(* finds by following next from beg; that it is found is an induction.     *)
(***************************************************************************)
EXTENDS ConnQueue, DataLemmas, FiniteSetTheorems

\* The list holds the elements of q in their order.
Represents(q) ==
  /\ q \in Queues(Node)
  /\ live = Range(q) /\ len = Len(q)
  /\ q = <<>> => beg = Null /\ end = Null
  /\ q # <<>> => beg = q[1] /\ end = q[Len(q)]
  /\ \A i \in 1..Len(q) :
       /\ next[q[i]] = IF i = Len(q) THEN Null ELSE q[i + 1]
       /\ prev[q[i]] = IF i = 1 THEN Null ELSE q[i - 1]

\* The inductive invariant: the chain is such a sequence.
ListInv == TypeOK /\ Represents(Chain)

\* What Represents says, in the form the provers take.
LEMMA RepFacts ==
  ASSUME NEW q, Represents(q)
  PROVE  /\ q \in Queues(Node) /\ Len(q) \in Nat /\ DOMAIN q = 1..Len(q)
         /\ len = Len(q) /\ live = Range(q)
         /\ \A i \in 1..Len(q) : q[i] \in Node /\ q[i] \in live /\ q[i] # Null
         /\ \A i, j \in 1..Len(q) : q[i] = q[j] => i = j
         /\ \A n \in live : \E i \in 1..Len(q) : q[i] = n
<1>1. q \in Queues(Node) /\ len = Len(q) /\ live = Range(q)  BY DEF Represents
<1>2. Len(q) \in Nat /\ DOMAIN q = 1..Len(q) /\ \A i \in 1..Len(q) : q[i] \in Node
  BY <1>1 DEF Queues
<1>3. \A i, j \in 1..Len(q) : q[i] = q[j] => i = j  BY <1>1, <1>2 DEF Queues, IsInjective
<1>4. \A i \in 1..Len(q) : q[i] \in live  BY <1>1, <1>2 DEF Range
<1>5. \A n \in live : \E i \in 1..Len(q) : q[i] = n  BY <1>1, <1>2 DEF Range
<1>6. \A i \in 1..Len(q) : q[i] # Null  BY <1>2, NodeAssumption
<1>7. QED  BY <1>1, <1>2, <1>3, <1>4, <1>5, <1>6

\* Following next from beg finds the elements in their order.
LEMMA ChainFollows ==
  ASSUME NEW q, Represents(q)
  PROVE  Chain = q
<1> DEFINE node == CHOOSE f : f = [i \in 1..len |-> IF i = 1 THEN beg ELSE next[f[i - 1]]]
<1>1. Len(q) \in Nat /\ DOMAIN q = 1..Len(q) /\ len = Len(q)  BY RepFacts
<1>2. \A i \in 1..len : q[i] = IF i = 1 THEN beg ELSE next[q[i - 1]]
  <2>1. SUFFICES ASSUME NEW i \in 1..Len(q)  PROVE q[i] = IF i = 1 THEN beg ELSE next[q[i - 1]]
    BY <1>1
  <2>2. CASE i = 1
    <3>1. q # <<>>  BY <1>1, <2>2
    <3>2. QED  BY <3>1, <2>2 DEF Represents
  <2>3. CASE i # 1
    <3>1. i - 1 \in 1..Len(q) /\ i - 1 # Len(q) /\ (i - 1) + 1 = i  BY <1>1, <2>3
    <3>2. next[q[i - 1]] = q[i]  BY <3>1 DEF Represents
    <3>3. QED  BY <3>2, <2>3
  <2>4. QED  BY <2>2, <2>3
<1>3. q = [i \in 1..len |-> q[i]]
  <2>1. q \in Seq(Node)  BY RepFacts DEF Queues
  <2>2. QED  BY <2>1, <1>1
<1>4. q = [i \in 1..len |-> IF i = 1 THEN beg ELSE next[q[i - 1]]]  BY <1>2, <1>3
<1>5. node = [i \in 1..len |-> IF i = 1 THEN beg ELSE next[node[i - 1]]]  BY <1>4
<1> DEFINE Found == {i \in Nat : i \in 1..len => node[i] = q[i]}
<1> HIDE DEF node
<1>6. \A i \in Nat : i \in Found
  <2>1. 0 \in Found  BY <1>1
  <2>2. ASSUME NEW i \in Nat, i \in Found  PROVE i + 1 \in Found
    <3>1. SUFFICES ASSUME i + 1 \in 1..len  PROVE node[i + 1] = q[i + 1]  OBVIOUS
    <3>2. node[i + 1] = IF i + 1 = 1 THEN beg ELSE next[node[(i + 1) - 1]]  BY <3>1, <1>5
    <3>3. q[i + 1] = IF i + 1 = 1 THEN beg ELSE next[q[(i + 1) - 1]]  BY <3>1, <1>2
    <3>4. (i + 1) - 1 = i /\ (i + 1 # 1 => i \in 1..len)  BY <3>1, <1>1
    <3>5. QED  BY <3>2, <3>3, <3>4, <2>2
  <2> HIDE DEF Found
  <2>3. QED  BY <2>1, <2>2, AllNats
<1>7. \A i \in 1..len : node[i] = q[i]  BY <1>6, <1>1
<1>8. Chain = [i \in 1..len |-> node[i]]  BY DEF Chain, node
<1>9. QED  BY <1>3, <1>7, <1>8
-----------------------------------------------------------------------------
(* The operations on the links. *)

\* queue_new_elem(): the element is linked behind the last one.
LEMMA AppendLinks ==
  ASSUME NEW q, Represents(q), TypeOK, NEW n \in Node \ live,
         next' = [m \in Node |-> IF m = n THEN Null ELSE IF m = end THEN n ELSE next[m]],
         prev' = [prev EXCEPT ![n] = end],
         beg' = (IF end = Null THEN n ELSE beg), end' = n,
         live' = live \cup {n}, len' = len + 1
  PROVE  Represents(NewElem(q, n))'
<1> DEFINE r == NewElem(q, n)
           L == Len(q)
<1>1. /\ q \in Queues(Node) /\ L \in Nat /\ len = L /\ live = Range(q)
      /\ \A i \in 1..L : q[i] \in Node /\ q[i] \in live /\ q[i] # Null
      /\ \A i, j \in 1..L : q[i] = q[j] => i = j
  BY RepFacts
<1>2. r \in Queues(Node) /\ Len(r) = L + 1 /\ Range(r) = live \cup {n}  BY <1>1, NewElemQueue
<1>3. (\A i \in 1..L : r[i] = q[i]) /\ r[L + 1] = n
  <2>1. q \in Seq(Node)  BY <1>1 DEF Queues
  <2>2. QED  BY <2>1 DEF NewElem
<1>4. r # <<>> /\ r[1] = beg' /\ r[L + 1] = end'
  <2>1. CASE q = <<>>
    <3>1. end = Null /\ L = 0  BY <2>1 DEF Represents
    <3>2. QED  BY <3>1, <1>2, <1>3
  <2>2. CASE q # <<>>
    <3>1. L > 0  BY <1>1, <2>2, HeadQueue
    <3>2. beg = q[1] /\ end = q[L]  BY <2>2 DEF Represents
    <3>3. end # Null /\ 1 \in 1..L  BY <3>1, <3>2, <1>1
    <3>4. QED  BY <3>2, <3>3, <1>1, <1>2, <1>3
  <2>3. QED  BY <2>1, <2>2
<1> HIDE DEF r
<1>5. ASSUME NEW i \in 1..(L + 1)
      PROVE  /\ next'[r[i]] = IF i = L + 1 THEN Null ELSE r[i + 1]
             /\ prev'[r[i]] = IF i = 1 THEN Null ELSE r[i - 1]
  <2>1. CASE i = L + 1
    <3>1. next'[n] = Null /\ prev'[n] = end  BY DEF TypeOK
    <3>2. i = 1 => end = Null
      <4>1. i = 1 => L = 0  BY <1>1, <2>1
      <4>2. L = 0 => q = <<>>  BY <1>1, HeadQueue
      <4>3. QED  BY <4>1, <4>2 DEF Represents
    <3>3. i # 1 => end = r[i - 1]
      <4>1. SUFFICES ASSUME i # 1 PROVE end = r[i - 1]  OBVIOUS
      <4>2. L \in 1..L /\ i - 1 = L /\ q # <<>>  BY <4>1, <2>1, <1>1
      <4>3. end = q[L]  BY <4>2 DEF Represents
      <4>4. QED  BY <4>2, <4>3, <1>3
    <3>4. QED  BY <3>1, <3>2, <3>3, <2>1, <1>3
  <2>2. CASE i # L + 1
    <3>1. i \in 1..L /\ r[i] = q[i] /\ q[i] \in Node /\ q[i] # n  BY <2>2, <1>1, <1>3
    <3>2. /\ next[q[i]] = IF i = L THEN Null ELSE q[i + 1]
          /\ prev[q[i]] = IF i = 1 THEN Null ELSE q[i - 1]
      BY <3>1 DEF Represents
    <3>3. end = q[L]
      <4>1. q # <<>>  BY <3>1, <1>1
      <4>2. QED  BY <4>1 DEF Represents
    <3>4. q[i] = end <=> i = L
      <4>1. L \in 1..L  BY <3>1, <1>1
      <4>2. QED  BY <4>1, <3>1, <3>3, <1>1
    <3>5. prev'[q[i]] = prev[q[i]]  BY <3>1 DEF TypeOK
    <3>6. next'[q[i]] = IF i = L THEN n ELSE next[q[i]]  BY <3>1, <3>4
    <3>7. i # L => q[i + 1] = r[i + 1]  BY <3>1, <1>1, <1>3
    <3>8. i # 1 => q[i - 1] = r[i - 1]  BY <3>1, <1>1, <1>3
    <3>9. QED  BY <3>1, <3>2, <3>5, <3>6, <3>7, <3>8, <2>2, <1>3
  <2>3. QED  BY <2>1, <2>2
<1>6. r \in Queues(Node) /\ live' = Range(r) /\ len' = Len(r)  BY <1>1, <1>2
<1>7. /\ r = <<>> => beg' = Null /\ end' = Null
      /\ r # <<>> => beg' = r[1] /\ end' = r[Len(r)]
  BY <1>2, <1>4
<1>8. \A i \in 1..Len(r) : /\ next'[r[i]] = IF i = Len(r) THEN Null ELSE r[i + 1]
                           /\ prev'[r[i]] = IF i = 1 THEN Null ELSE r[i - 1]
  BY <1>2, <1>5
<1>9. Represents(r)'  BY <1>6, <1>7, <1>8, Zenon DEF Represents
<1>10. QED  BY <1>9 DEF r

\* queue_delete_elem(): the neighbours of the element are linked to each other.
LEMMA DeleteLinks ==
  ASSUME NEW q, Represents(q), TypeOK, NEW c \in live, QueueDeleteElem(c)
  PROVE  /\ Represents(DeleteElem(q, c))'
         /\ q # <<>>
<1> DEFINE r == DeleteElem(q, c)
           p == Position(q, c)
           L == Len(q)
           from(j) == IF j < p THEN j ELSE j + 1
<1>1. /\ q \in Queues(Node) /\ L \in Nat /\ len = L /\ live = Range(q)
      /\ \A i \in 1..L : q[i] \in Node /\ q[i] \in live /\ q[i] # Null
      /\ \A i, j \in 1..L : q[i] = q[j] => i = j
  BY RepFacts
<1>2. p \in 1..L /\ q[p] = c /\ c # Null  BY <1>1, PositionUnique
<1>3. r \in Queues(Node) /\ Len(r) = L - 1 /\ Range(r) = live \ {c}  BY <1>1, DeleteElemQueue
<1>4. \A j \in 1..(L - 1) : r[j] = q[from(j)]
  BY <1>1, DeleteElemAt
<1> HIDE DEF r, p
<1>5. q # <<>>  BY <1>1, <1>2
<1>6. /\ next[c] = IF p = L THEN Null ELSE q[p + 1]
      /\ prev[c] = IF p = 1 THEN Null ELSE q[p - 1]
  BY <1>2 DEF Represents
<1>7. beg = q[1] /\ end = q[L]  BY <1>5 DEF Represents
<1>8. (prev[c] = Null <=> p = 1) /\ (next[c] = Null <=> p = L)  BY <1>1, <1>2, <1>6
<1>9. ASSUME NEW k \in 1..L, k # p
      PROVE  /\ next'[q[k]] = IF k = p - 1 THEN next[c] ELSE next[q[k]]
             /\ prev'[q[k]] = IF k = p + 1 THEN prev[c] ELSE prev[q[k]]
  <2>1. q[k] \in Node /\ q[k] # Null /\ q[k] # c  BY <1>1, <1>2, <1>9
  <2>2. q[k] = prev[c] <=> k = p - 1  BY <2>1, <1>1, <1>2, <1>6
  <2>3. q[k] = next[c] <=> k = p + 1  BY <2>1, <1>1, <1>2, <1>6
  <2>4. QED  BY <2>1, <2>2, <2>3 DEF QueueDeleteElem
<1>10. ASSUME NEW j \in 1..(L - 1)
       PROVE  /\ next'[r[j]] = IF j = L - 1 THEN Null ELSE r[j + 1]
              /\ prev'[r[j]] = IF j = 1 THEN Null ELSE r[j - 1]
  <2> DEFINE k == from(j)
  <2>1. k \in 1..L /\ k # p /\ r[j] = q[k]  BY <1>1, <1>2, <1>4
  <2>2. /\ next[q[k]] = IF k = L THEN Null ELSE q[k + 1]
        /\ prev[q[k]] = IF k = 1 THEN Null ELSE q[k - 1]
    BY <2>1 DEF Represents
  <2>3. j # L - 1 => j + 1 \in 1..(L - 1) /\ r[j + 1] = q[from(j + 1)]  BY <1>1, <1>4
  <2>4. j # 1 => j - 1 \in 1..(L - 1) /\ r[j - 1] = q[from(j - 1)]  BY <1>1, <1>4
  <2>5. next'[r[j]] = IF j = L - 1 THEN Null ELSE r[j + 1]
    <3>1. CASE k = p - 1
      <4>1. j = p - 1 /\ (j = L - 1 <=> p = L)  BY <3>1, <1>1, <1>2
      <4>2. j # L - 1 => from(j + 1) = p + 1  BY <4>1, <1>1, <1>2
      <4>3. QED  BY <3>1, <4>1, <4>2, <2>1, <2>3, <1>6, <1>9
    <3>2. CASE k # p - 1
      <4>1. next'[r[j]] = next[q[k]]  BY <3>2, <2>1, <1>9
      <4>2. (k = L <=> j = L - 1) /\ (j # L - 1 => from(j + 1) = k + 1)  BY <3>2, <1>1, <1>2
      <4>3. QED  BY <4>1, <4>2, <2>2, <2>3
    <3>3. QED  BY <3>1, <3>2
  <2>6. prev'[r[j]] = IF j = 1 THEN Null ELSE r[j - 1]
    <3>1. CASE k = p + 1
      <4>1. j = p  BY <3>1, <1>1, <1>2
      <4>2. j # 1 => from(j - 1) = p - 1  BY <4>1, <1>1, <1>2
      <4>3. QED  BY <3>1, <4>1, <4>2, <2>1, <2>4, <1>6, <1>9
    <3>2. CASE k # p + 1
      <4>1. prev'[r[j]] = prev[q[k]]  BY <3>2, <2>1, <1>9
      <4>2. (k = 1 <=> j = 1) /\ (j # 1 => from(j - 1) = k - 1)  BY <3>2, <1>1, <1>2
      <4>3. QED  BY <4>1, <4>2, <2>2, <2>4
    <3>3. QED  BY <3>1, <3>2
  <2>7. QED  BY <2>5, <2>6
<1>11. /\ r = <<>> => beg' = Null /\ end' = Null
       /\ r # <<>> => beg' = r[1] /\ end' = r[L - 1]
  <2>1. beg' = (IF p = 1 THEN next[c] ELSE beg) /\ end' = (IF p = L THEN prev[c] ELSE end)
    BY <1>2, <1>7, <1>8 DEF QueueDeleteElem
  <2>2. CASE r = <<>>
    <3>1. L = 1 /\ p = 1
      <4>1. Len(r) = 0  BY <2>2
      <4>2. Len(r) = L - 1 /\ p \in 1..L /\ L \in Nat  BY <1>1, <1>2, <1>3
      <4> HIDE DEF L
      <4>3. QED  BY <4>1, <4>2
    <3>2. QED  BY <3>1, <2>1, <2>2, <1>6
  <2>3. CASE r # <<>>
    <3>1. L - 1 > 0  BY <2>3, <1>3, HeadQueue
    <3>2. 1 \in 1..(L - 1) /\ L - 1 \in 1..(L - 1)  BY <3>1, <1>1
    <3>3. r[1] = q[from(1)] /\ r[L - 1] = q[from(L - 1)]  BY <3>2, <1>4
    <3>4. beg' = r[1]  BY <3>1, <3>3, <2>1, <1>1, <1>2, <1>6, <1>7
    <3>5. end' = r[L - 1]  BY <3>1, <3>3, <2>1, <1>1, <1>2, <1>6, <1>7
    <3>6. QED  BY <3>4, <3>5, <2>3
  <2>4. QED  BY <2>2, <2>3
<1>12. live' = live \ {c} /\ len' = L - 1  BY <1>1 DEF QueueDeleteElem
<1>13. Represents(r)'  BY <1>3, <1>10, <1>11, <1>12 DEF Represents
<1>14. QED  BY <1>5, <1>13 DEF r

\* queue_next_elem() gives the next element, and wraps.
LEMMA NextLinks ==
  ASSUME NEW q, Represents(q), NEW c \in live
  PROVE  QueueNextElem(c) = NextElem(q, c) /\ QueueNextElem(c) \in live
<1> DEFINE p == Position(q, c)
           L == Len(q)
<1>1. /\ q \in Queues(Node) /\ L \in Nat /\ DOMAIN q = 1..L /\ live = Range(q)
      /\ \A i \in 1..L : q[i] \in Node /\ q[i] \in live /\ q[i] # Null
  BY RepFacts
<1>2. p \in 1..L /\ q[p] = c  BY <1>1, PositionUnique
<1>3. NextElem(q, c) = (IF p = L THEN Head(q) ELSE q[p + 1])  BY DEF NextElem
<1>4. NextElem(q, c) \in live  BY <1>1, NextElemQueue
<1> HIDE DEF p
<1>5. next[c] = IF p = L THEN Null ELSE q[p + 1]  BY <1>2 DEF Represents
<1>6. p # L => q[p + 1] # Null
  <2>1. p \in 1..L /\ L \in Nat  BY <1>1, <1>2
  <2> HIDE DEF L
  <2>2. p # L => p + 1 \in 1..L  BY <2>1
  <2>3. QED  BY <2>2, <1>1
<1>7. q # <<>>  BY <1>1, <1>2
<1>8. beg = q[1] /\ Head(q) = q[1]  BY <1>7 DEF Represents
<1>9. QueueNextElem(c) = NextElem(q, c)  BY <1>3, <1>5, <1>6, <1>8 DEF QueueNextElem
<1>10. QED  BY <1>4, <1>9
-----------------------------------------------------------------------------
(* The steps. *)

LEMMA ListInit == Init => TypeOK /\ Represents(<<>>)
<1> SUFFICES ASSUME Init PROVE TypeOK /\ Represents(<<>>)  OBVIOUS
<1>1. TypeOK  BY DEF Init, TypeOK
<1>2. <<>> \in Queues(Node) /\ Len(<<>>) = 0 /\ Range(<<>>) = {}
  BY DEF Queues, IsInjective, Range
<1>3. QED  BY <1>1, <1>2 DEF Init, Represents

\* An append.
LEMMA NewElemStep ==
  ASSUME TypeOK, NEW q, Represents(q), QueueNewElem
  PROVE  TypeOK' /\ \E n \in Node \ Range(q) : Represents(NewElem(q, n))'
<1>1. PICK n \in Node \ live :
        /\ next' = [m \in Node |-> IF m = n THEN Null ELSE IF m = end THEN n ELSE next[m]]
        /\ prev' = [prev EXCEPT ![n] = end]
        /\ beg' = IF end = Null THEN n ELSE beg
        /\ end' = n
        /\ live' = live \cup {n}
  BY DEF QueueNewElem
<1>2. len' = len + 1 /\ cur' = cur  BY DEF QueueNewElem
<1>3. TypeOK'  BY <1>1, <1>2 DEF TypeOK
<1>4. Represents(NewElem(q, n))'  BY <1>1, <1>2, AppendLinks
<1>5. n \in Node \ Range(q)  BY RepFacts
<1>6. QED  BY <1>3, <1>4, <1>5

\* A delete.
LEMMA CloseStep ==
  ASSUME TypeOK, NEW q, Represents(q), ConnClose, NEW c, c = cur
  PROVE  /\ TypeOK' /\ Represents(DeleteElem(q, c))'
         /\ c \in Range(q) /\ cur' = NextElem(q, c)
         /\ cur' \in live' \/ DeleteElem(q, c) = <<>>
<1>1. c \in live /\ QueueDeleteElem(c) /\ cur' = QueueNextElem(c)  BY DEF ConnClose
<1>2. Represents(DeleteElem(q, c))' /\ q # <<>>  BY <1>1, DeleteLinks
<1>3. cur' = NextElem(q, c) /\ cur' \in live  BY <1>1, NextLinks
<1>4. q \in Queues(Node) /\ live = Range(q) /\ len = Len(q) /\ Len(q) \in Nat  BY RepFacts
<1>5. cur' = c => Len(q) = 1  BY <1>1, <1>3, <1>4, NextElemQueue
<1>6. live' = live \ {c} /\ len' = len - 1  BY <1>1 DEF QueueDeleteElem
<1>7. Len(q) = 1 => DeleteElem(q, c) = <<>>
  <2>1. DeleteElem(q, c) \in Queues(Node) /\ Len(DeleteElem(q, c)) = Len(q) - 1
    BY <1>1, <1>4, DeleteElemQueue
  <2>2. QED  BY <2>1, HeadQueue
<1>8. cur' \in live' \/ DeleteElem(q, c) = <<>>  BY <1>3, <1>5, <1>6, <1>7
<1>9. TypeOK'
  <2>1. len' \in Nat
    <3>1. Len(q) > 0  BY <1>2, <1>4, HeadQueue
    <3>2. QED  BY <3>1, <1>4, <1>6
  <2>2. beg \in Node /\ end \in Node
    <3>1. 1 \in 1..Len(q) /\ Len(q) \in 1..Len(q) /\ beg = q[1] /\ end = q[Len(q)]
      BY <1>2, <1>4, HeadQueue DEF Represents
    <3>2. QED  BY <3>1, RepFacts
  <2>3. {beg', end', cur'} \subseteq Node \cup {Null}
    BY <1>1, <1>3, <2>2 DEF QueueDeleteElem, TypeOK
  <2>4. /\ next' \in [Node -> Node \cup {Null}] /\ prev' \in [Node -> Node \cup {Null}]
        /\ live' \subseteq Node
    BY <1>1 DEF QueueDeleteElem, TypeOK
  <2>5. QED  BY <2>1, <2>3, <2>4 DEF TypeOK
<1>10. QED  BY <1>1, <1>2, <1>3, <1>4, <1>8, <1>9

\* A walk leaves the list alone.
LEMMA WalkStep ==
  ASSUME TypeOK, NEW q, Represents(q), BeginWalk \/ StepWalk \/ EndWalk \/ UNCHANGED vars
  PROVE  TypeOK' /\ Represents(q)'
<1>1. UNCHANGED listVars  BY DEF BeginWalk, StepWalk, EndWalk, vars
<1>2. Represents(q)'  BY <1>1 DEF Represents, listVars
<1>3. cur' \in Node \cup {Null}
  <2>1. CASE BeginWalk  BY <2>1 DEF BeginWalk, TypeOK
  <2>2. CASE StepWalk  BY <2>2, NextLinks DEF StepWalk, TypeOK
  <2>3. CASE EndWalk \/ UNCHANGED vars  BY <2>3 DEF EndWalk, vars, TypeOK
  <2>4. QED  BY <2>1, <2>2, <2>3
<1>4. QED  BY <1>1, <1>2, <1>3 DEF TypeOK, listVars

\* Whatever sequence the list holds, it is the chain.
LEMMA ChainHolds == (\E r : Represents(r)) => Represents(Chain)
  BY ChainFollows

LEMMA ListNext == ListInv /\ [Next]_vars => ListInv'
<1>1. (\E r : Represents(r))' => Represents(Chain)'  BY ChainHolds, PTL
<1> SUFFICES ASSUME ListInv, [Next]_vars PROVE ListInv'  OBVIOUS
<1>2. TypeOK /\ \E q : Represents(q)  BY DEF ListInv
<1>3. PICK q : Represents(q)  BY <1>2
<1>4. TypeOK' /\ \E r : Represents(r)'
  <2>1. CASE QueueNewElem  BY <2>1, <1>2, <1>3, NewElemStep
  <2>2. CASE ConnClose  BY <2>2, <1>2, <1>3, CloseStep
  <2>3. CASE BeginWalk \/ StepWalk \/ EndWalk \/ UNCHANGED vars  BY <2>3, <1>2, <1>3, WalkStep
  <2>4. QED  BY <2>1, <2>2, <2>3 DEF Next
<1>5. QED  BY <1>1, <1>4 DEF ListInv
-----------------------------------------------------------------------------
(* The theorems. *)

\* The inductive invariant holds.
LEMMA Invariance == Spec => []ListInv
<1>1. Init => ListInv  BY ListInit, ChainFollows DEF ListInv
<1>2. QED  BY <1>1, ListNext, PTL DEF Spec

\* Every pointer of the list and of the walk is an address or Null, for any set of addresses.
THEOREM TypeCorrect == Spec => []TypeOK
<1>1. ListInv => TypeOK  BY DEF ListInv
<1>2. QED  BY <1>1, Invariance, PTL

\* The elements of a queue are as many as it is long.
LEMMA QueueCardinality ==
  ASSUME NEW S, NEW q \in Queues(S)
  PROVE  Cardinality(Range(q)) = Len(q)
<1>1. Len(q) \in Nat /\ DOMAIN q = 1..Len(q)  BY DEF Queues
<1>2. q \in Bijection(1..Len(q), Range(q))
  <2>1. q \in [1..Len(q) -> Range(q)]  BY <1>1 DEF Queues, Range
  <2>2. IsInjective(q)  BY DEF Queues
  <2>3. \A n \in Range(q) : \E i \in 1..Len(q) : q[i] = n  BY <1>1 DEF Range
  <2>4. QED  BY <2>1, <2>2, <2>3 DEF Bijection, Injection, Surjection
<1>3. ExistsBijection(1..Len(q), Range(q))  BY <1>2 DEF ExistsBijection
<1>4. QED  BY <1>1, <1>3, FS_CountingElements

\* Links agree in both directions and end at beg and end, only live nodes are linked, and
\* len is their number, after any history of appends and deletes (queue.c:25-31, 46-59).
THEOREM LinksAgree == Spec => []Linked
<1>1. ASSUME NEW q, Represents(q)  PROVE Linked
  <2> DEFINE L == Len(q)
  <2>1. /\ q \in Queues(Node) /\ L \in Nat /\ len = L /\ live = Range(q)
        /\ \A i \in 1..L : q[i] \in live /\ q[i] # Null
        /\ \A i, j \in 1..L : q[i] = q[j] => i = j
        /\ \A n \in live : \E i \in 1..L : q[i] = n
    BY <1>1, RepFacts
  <2>2. \A i \in 1..L : /\ next[q[i]] = IF i = L THEN Null ELSE q[i + 1]
                        /\ prev[q[i]] = IF i = 1 THEN Null ELSE q[i - 1]
    BY <1>1 DEF Represents
  <2>3. q # <<>> => beg = q[1] /\ end = q[L] /\ 1 \in 1..L /\ L \in 1..L
    BY <1>1, <2>1, HeadQueue DEF Represents
  <2>4. q = <<>> => beg = Null /\ end = Null /\ live = {}
    <3>1. q = <<>> => L = 0  OBVIOUS
    <3>2. QED  BY <1>1, <2>1, <3>1 DEF Represents
  <2> HIDE DEF L
  <2>5. \A i \in 1..L : (i # L => i + 1 \in 1..L) /\ (i # 1 => i - 1 \in 1..L)  BY <2>1
  <2>6. len = Cardinality(live)  BY <2>1, QueueCardinality DEF L
  <2>7. ASSUME NEW n \in live, NEW m \in live  PROVE next[n] = m <=> prev[m] = n
    <3>1. PICK i \in 1..L : q[i] = n  BY <2>1
    <3>2. PICK j \in 1..L : q[j] = m  BY <2>1
    <3>3. next[n] = m <=> i # L /\ j = i + 1  BY <3>1, <3>2, <2>1, <2>2, <2>5
    <3>4. prev[m] = n <=> j # 1 /\ i = j - 1  BY <3>1, <3>2, <2>1, <2>2, <2>5
    <3>5. QED  BY <3>3, <3>4, <2>1
  <2>8. ASSUME NEW n \in live
        PROVE  (prev[n] = Null <=> n = beg) /\ (next[n] = Null <=> n = end)
    <3>1. PICK i \in 1..L : q[i] = n  BY <2>1
    <3>2. q # <<>>  BY <2>4
    <3>3. beg = q[1] /\ end = q[L] /\ 1 \in 1..L /\ L \in 1..L  BY <3>2, <2>3
    <3>4. prev[n] = Null <=> i = 1
      <4>1. i # 1 => q[i - 1] # Null  BY <2>1, <2>5
      <4>2. QED  BY <3>1, <4>1, <2>2
    <3>5. next[n] = Null <=> i = L
      <4>1. i # L => q[i + 1] # Null  BY <2>1, <2>5
      <4>2. QED  BY <3>1, <4>1, <2>2
    <3>6. (n = beg <=> i = 1) /\ (n = end <=> i = L)
      BY <3>1, <3>3, <2>1, Zenon
    <3>7. QED  BY <3>4, <3>5, <3>6
  <2>9. {beg, end} \cup {next[n] : n \in live} \cup {prev[n] : n \in live} \subseteq live \cup {Null}
    <3>1. ASSUME NEW n \in live  PROVE next[n] \in live \cup {Null} /\ prev[n] \in live \cup {Null}
      BY <2>1, <2>2, <2>5
    <3>2. beg \in live \cup {Null} /\ end \in live \cup {Null}  BY <2>1, <2>3, <2>4
    <3>3. QED  BY <3>1, <3>2
  <2>10. QED  BY <2>6, <2>7, <2>8, <2>9 DEF Linked
<1>2. ListInv => Linked  BY <1>1 DEF ListInv
<1>3. QED  BY <1>2, Invariance, PTL
-----------------------------------------------------------------------------
(* The refinement. *)

\* Where the walk is, as ConnSeq sees it.
Walk == IF cur \in live THEN cur ELSE Null

\* ConnSeq's queue operators are those of this module.
LEMMA SameOps ==
  ASSUME NEW q, NEW c
  PROVE  /\ Abstract!Range(q) = Range(q) /\ Abstract!NewElem(q, c) = NewElem(q, c)
         /\ Abstract!NextElem(q, c) = NextElem(q, c)
         /\ Abstract!DeleteElem(q, c) = DeleteElem(q, c)
<1>1. Abstract!Range(q) = Range(q)  BY DEF Abstract!Range, Range
<1>2. Abstract!NewElem(q, c) = NewElem(q, c)  BY DEF Abstract!NewElem, NewElem
<1>3. Abstract!Position(q, c) = Position(q, c)  BY DEF Abstract!Position, Position
<1>4. Abstract!NextElem(q, c) = NextElem(q, c)  BY <1>3 DEF Abstract!NextElem, NextElem
<1>5. Abstract!DeleteElem(q, c) = DeleteElem(q, c)
  BY <1>3 DEF Abstract!DeleteElem, DeleteElem, Abstract!RemoveAt, RemoveAt
<1>6. QED  BY <1>1, <1>2, <1>4, <1>5

\* One step of the list is one of the sequence, or a stutter.
LEMMA StepSequence == ListInv /\ ListInv' /\ [Next]_vars => [Abstract!Next]_(Abstract!vars)
<1>1. \A r : Represents(r) => Chain = r  BY ChainFollows
<1>2. (\A r : Represents(r) => Chain = r)'  BY <1>1, PTL
<1> SUFFICES ASSUME ListInv, ListInv', [Next]_vars  PROVE [Abstract!Next]_(Abstract!vars)
  OBVIOUS
<1>3. TypeOK /\ TypeOK' /\ Null \notin Node  BY NodeAssumption DEF ListInv
<1>4. PICK q : Represents(q) /\ Chain = q  BY DEF ListInv
<1>5. live = Range(q) /\ len = Len(q) /\ q \in Queues(Node)  BY <1>4 DEF Represents
<1>6. CASE QueueNewElem
  <2>1. PICK n \in Node \ Range(q) : Represents(NewElem(q, n))'  BY <1>3, <1>4, <1>6, NewElemStep
  <2>2. Chain' = NewElem(Chain, n)  BY <2>1, <1>2, <1>4
  <2>3. Walk = Null /\ Walk' = Null  BY <1>3, <1>6 DEF QueueNewElem, Walk, TypeOK
  <2>4. Abstract!New  BY <2>1, <2>2, <2>3, <1>4, SameOps DEF Abstract!New, Walk
  <2>5. QED  BY <2>4 DEF Abstract!Next
<1>7. CASE ConnClose
  <2>1. PICK c : c = cur  OBVIOUS
  <2>2. /\ Represents(DeleteElem(q, c))' /\ c \in Range(q) /\ cur' = NextElem(q, c)
        /\ cur' \in live' \/ DeleteElem(q, c) = <<>>
    BY <2>1, <1>3, <1>4, <1>7, CloseStep
  <2>3. Chain' = DeleteElem(q, c)  BY <2>2, <1>2
  <2>4. Walk = c /\ c # Null  BY <2>1, <2>2, <1>3, <1>5 DEF Walk, TypeOK
  <2>5. Walk' = IF Chain' = <<>> THEN Null ELSE NextElem(q, c)
    <3>1. CASE DeleteElem(q, c) = <<>>
      <4>1. live' = {}
        <5>1. live' = Range(DeleteElem(q, c))  BY <2>2 DEF Represents
        <5>2. QED  BY <5>1, <3>1 DEF Range
      <4>2. QED  BY <4>1, <3>1, <2>3 DEF Walk
    <3>2. CASE DeleteElem(q, c) # <<>>  BY <3>2, <2>2, <2>3 DEF Walk
    <3>3. QED  BY <3>1, <3>2
  <2>6. Abstract!Close  BY <2>3, <2>4, <2>5, <1>4, SameOps DEF Abstract!Close, Walk
  <2>7. QED  BY <2>6 DEF Abstract!Next
<1>8. CASE BeginWalk \/ StepWalk \/ EndWalk \/ UNCHANGED vars
  <2>1. Represents(q)'  BY <1>3, <1>4, <1>8, WalkStep
  <2>2. Chain' = Chain /\ live' = live  BY <2>1, <1>2, <1>4, <1>5 DEF Represents
  <2>3. CASE BeginWalk
    <3>1. q # <<>> /\ cur' = beg
      <4>1. len > 0 /\ cur' = beg  BY <2>3 DEF BeginWalk
      <4>2. q = <<>> => Len(q) = 0  OBVIOUS
      <4>3. QED  BY <4>1, <4>2, <1>5
    <3>2. beg = q[1]  BY <3>1, <1>4 DEF Represents
    <3>3. Head(q) = q[1] /\ Head(q) \in live  BY <3>1, <1>5, HeadQueue
    <3>4. Walk' = Head(Chain)  BY <3>1, <3>2, <3>3, <1>4, <2>2 DEF Walk
    <3>5. Abstract!Begin  BY <3>1, <3>4, <2>2, <1>4 DEF Abstract!Begin, Walk
    <3>6. QED  BY <3>5 DEF Abstract!Next
  <2>4. CASE StepWalk
    <3>1. cur \in live /\ cur' = QueueNextElem(cur)  BY <2>4 DEF StepWalk
    <3>2. cur' = NextElem(q, cur) /\ cur' \in live  BY <3>1, <1>4, NextLinks
    <3>3. Walk = cur /\ Walk # Null /\ Walk' = NextElem(Chain, cur)
      BY <3>1, <3>2, <2>2, <1>3, <1>4 DEF Walk, TypeOK
    <3>4. Abstract!Step  BY <3>3, <2>2, SameOps DEF Abstract!Step, Walk
    <3>5. QED  BY <3>4 DEF Abstract!Next
  <2>5. CASE EndWalk
    <3>1. Walk' = Null  BY <2>5 DEF EndWalk, Walk
    <3>2. Abstract!End  BY <3>1, <2>2 DEF Abstract!End, Walk
    <3>3. QED  BY <3>2 DEF Abstract!Next
  <2>6. CASE UNCHANGED vars
    <3>1. Walk' = Walk  BY <2>6, <2>2 DEF vars, Walk
    <3>2. QED  BY <3>1, <2>2 DEF Abstract!vars, Walk
  <2>7. QED  BY <1>8, <2>3, <2>4, <2>5, <2>6
<1>9. QED  BY <1>6, <1>7, <1>8 DEF Next

\* The pointer code implements the sequence conn_loop() relies on: order of arrival, a
\* wrapping walk, the next of the others after a close (queue.c:16-72, conn.c:144-156).
THEOREM ImplementsSequence == Spec => ImplementsConnSeq
<1>1. Init => Abstract!Init
  <2>1. SUFFICES ASSUME Init PROVE Abstract!Init  OBVIOUS
  <2>2. Represents(<<>>)  BY <2>1, ListInit
  <2>3. Chain = <<>>  BY <2>2, ChainFollows
  <2>4. QED  BY <2>1, <2>3 DEF Init, Abstract!Init
<1>2. QED  BY <1>1, StepSequence, Invariance, PTL DEF Spec, ImplementsConnSeq, Abstract!Spec
=============================================================================
