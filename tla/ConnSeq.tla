------------------------------ MODULE ConnSeq ------------------------------
(***************************************************************************)
(* What the connection queue promises its user, conn_loop(): connections   *)
(* are walked oldest first, a walk steps from each to the next and wraps,  *)
(* and closing one hands back the next of the others.                      *)
(***************************************************************************)
EXTENDS QueueOps

CONSTANTS Elem, NoElem

VARIABLES
  queue,  \* the connections, oldest first
  cur     \* where the walk is, NoElem when it is nowhere

vars == <<queue, cur>>

Init == queue = <<>> /\ cur = NoElem

New ==
  /\ cur = NoElem
  /\ \E c \in Elem \ Range(queue) : queue' = NewElem(queue, c)
  /\ UNCHANGED cur

Begin ==
  /\ queue # <<>> /\ cur' = Head(queue)
  /\ UNCHANGED queue

Step ==
  /\ cur # NoElem /\ cur' = NextElem(queue, cur)
  /\ UNCHANGED queue

End == cur' = NoElem /\ UNCHANGED queue

Close ==
  /\ cur # NoElem
  /\ queue' = DeleteElem(queue, cur)
  /\ cur' = IF queue' = <<>> THEN NoElem ELSE NextElem(queue, cur)

Next == New \/ Begin \/ Step \/ End \/ Close

Spec == Init /\ [][Next]_vars
=============================================================================
