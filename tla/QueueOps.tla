------------------------------ MODULE QueueOps ------------------------------
(***************************************************************************)
(* The connection queue of src/src/queue.c as a sequence without           *)
(* repetitions, oldest element first.  ConnQueue.tla models the doubly     *)
(* linked list itself and shows that it implements these operators.        *)
(***************************************************************************)
EXTENDS Integers, SequencesExt

\* Where c stands in q; defined when c occurs in q.
Position(q, c) == CHOOSE i \in DOMAIN q : q[i] = c

\* queue_new_elem(): the new element becomes queue->end.
NewElem(q, c) == Append(q, c)

\* queue_delete_elem(): the element is unlinked, the others keep their order.
DeleteElem(q, c) == RemoveAt(q, Position(q, c))

\* queue_next_elem(): the element after c, and after the last one the first.
NextElem(q, c) == IF Position(q, c) = Len(q) THEN Head(q)
                                             ELSE q[Position(q, c) + 1]
=============================================================================
