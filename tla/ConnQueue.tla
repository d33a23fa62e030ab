----------------------------- MODULE ConnQueue -----------------------------
(***************************************************************************)
(* The doubly linked list of src/src/queue.c, pointer by pointer, under    *)
(* the calls conn.c makes of it: append on accept, walk, and delete of the *)
(* walk's element.  It implements ConnSeq.                                 *)
(*                                                                         *)
(* An address is a node; malloc() gives any address that is not in use.    *)
(* What a freed node holds is not kept: the one read of it, by the loop    *)
(* after the only connection was closed, is in ConnLoop (AdvanceClosed).   *)
(***************************************************************************)
EXTENDS Integers, FiniteSets, QueueOps

CONSTANTS
  Node,  \* the addresses malloc() may return
  Null

ASSUME NodeAssumption == Null \notin Node

VARIABLES
  beg, end, len,  \* queue_t
  next, prev,     \* conn_t: the links of each node
  live,           \* the nodes malloc() has given out
  cur             \* curconn of the walk

listVars == <<beg, end, len, next, prev, live>>
vars == <<listVars, cur>>

Init ==
  /\ beg = Null /\ end = Null /\ len = 0
  /\ next = [n \in Node |-> Null] /\ prev = [n \in Node |-> Null]
  /\ live = {} /\ cur = Null

\* queue_new_elem() of conn_open(); no walk is under way then.
QueueNewElem ==
  /\ cur = Null
  /\ \E n \in Node \ live :
       /\ next' = [m \in Node |-> IF m = n THEN Null ELSE IF m = end THEN n ELSE next[m]]
       /\ prev' = [prev EXCEPT ![n] = end]
       /\ beg' = IF end = Null THEN n ELSE beg
       /\ end' = n
       /\ live' = live \cup {n}
  /\ len' = len + 1
  /\ UNCHANGED cur

\* queue_next_elem()
QueueNextElem(n) == IF next[n] = Null THEN beg ELSE next[n]

\* Mutants of queue_delete_elem(): the back link is not moved, len is counted
\* down in both branches.
MutNoBackLink(n) ==
  /\ beg' = IF prev[n] = Null THEN next[beg] ELSE beg
  /\ end' = IF next[n] = Null THEN prev[end] ELSE end
  /\ next' = [m \in Node |-> IF m = n THEN Null
                             ELSE IF m = prev[n] THEN next[n] ELSE next[m]]
  /\ prev' = [m \in Node |-> IF m = n THEN Null ELSE prev[m]]
  /\ len' = len - 1
  /\ live' = live \ {n}

MutCountTwice(n) ==
  /\ beg' = IF prev[n] = Null THEN next[beg] ELSE beg
  /\ end' = IF next[n] = Null THEN prev[end] ELSE end
  /\ next' = [m \in Node |-> IF m = n THEN Null
                             ELSE IF m = prev[n] THEN next[n] ELSE next[m]]
  /\ prev' = [m \in Node |-> IF m = n THEN Null
                             ELSE IF m = next[n] THEN prev[n] ELSE prev[m]]
  /\ len' = len - 2
  /\ live' = live \ {n}

\* queue_delete_elem(): n is unlinked at either end or in the middle, and freed.
QueueDeleteElem(n) ==
  /\ beg' = IF prev[n] = Null THEN next[beg] ELSE beg
  /\ end' = IF next[n] = Null THEN prev[end] ELSE end
  /\ next' = [m \in Node |-> IF m = n THEN Null
                             ELSE IF m = prev[n] THEN next[n] ELSE next[m]]
  /\ prev' = [m \in Node |-> IF m = n THEN Null
                             ELSE IF m = next[n] THEN prev[n] ELSE prev[m]]
  /\ len' = len - 1
  /\ live' = live \ {n}

\* Mutant: the element after is looked up once the queue has changed.
MutConnClose ==
  /\ cur \in live /\ len > 0
  /\ QueueDeleteElem(cur)
  /\ cur' = beg'

\* conn_close() of the walk's element: the next one is looked up first.
ConnClose ==
  /\ cur \in live /\ len > 0
  /\ cur' = QueueNextElem(cur)
  /\ QueueDeleteElem(cur)

BeginWalk == len > 0 /\ cur' = beg /\ UNCHANGED listVars

StepWalk == cur \in live /\ cur' = QueueNextElem(cur) /\ UNCHANGED listVars

\* len-- has reached 0: curconn is set anew before it is used again.
EndWalk == cur # Null /\ cur' = Null /\ UNCHANGED listVars

Next == QueueNewElem \/ ConnClose \/ BeginWalk \/ StepWalk \/ EndWalk

Spec == Init /\ [][Next]_vars
-----------------------------------------------------------------------------
\* The nodes met by following next from beg, len of them.
Chain ==
  LET node[i \in 1..len] == IF i = 1 THEN beg ELSE next[node[i - 1]] IN
    [i \in 1..len |-> node[i]]

\* A pointer to a freed node points nowhere.
Abstract == INSTANCE ConnSeq WITH
  Elem <- Node, NoElem <- Null,
  queue <- Chain, cur <- IF cur \in live THEN cur ELSE Null

\* The type invariant.
TypeOK ==
  /\ {beg, end, cur} \subseteq Node \cup {Null} /\ len \in Nat
  /\ next \in [Node -> Node \cup {Null}] /\ prev \in [Node -> Node \cup {Null}]
  /\ live \subseteq Node

\* Links agree in both directions and end at beg and end, only live nodes are linked, and
\* len is their number, whatever was deleted where (queue.c:25-31, 46-59).
Linked ==
  /\ len = Cardinality(live)
  /\ \A n, m \in live : next[n] = m <=> prev[m] = n
  /\ \A n \in live : (prev[n] = Null <=> n = beg) /\ (next[n] = Null <=> n = end)
  /\ {beg, end} \cup {next[n] : n \in live} \cup {prev[n] : n \in live} \subseteq live \cup {Null}

\* The list is the sequence that conn_loop() relies on: order of arrival, a wrapping walk,
\* the next of the others after a close (queue.c:16-72, conn.c:144-156).
ImplementsConnSeq == Abstract!Spec
=============================================================================
