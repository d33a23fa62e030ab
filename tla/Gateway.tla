------------------------------- MODULE Gateway -------------------------------
(***************************************************************************)
(* What a bridge promises to those who send it requests: it handles them   *)
(* one after the other in the order they came, answers each at most once,  *)
(* and with a reply that fits the request.  Requests may be lost, but a    *)
(* lost one is never answered later.                                       *)
(***************************************************************************)
EXTENDS Naturals, Sequences

CONSTANTS
  Request,  \* what may be asked, each at most once
  Replies   \* for each request the replies that fit it

VARIABLES
  sent,     \* the requests that were accepted
  pending,  \* those neither answered nor lost, oldest first
  answers   \* what was answered so far

vars == <<sent, pending, answers>>

Init == sent = {} /\ pending = <<>> /\ answers = <<>>

Accept ==
  /\ \E r \in Request \ sent : sent' = sent \cup {r} /\ pending' = Append(pending, r)
  /\ UNCHANGED answers

Answer ==
  /\ pending # <<>> /\ pending' = Tail(pending)
  /\ \E x \in Replies[Head(pending)] :
       answers' = Append(answers, [request |-> Head(pending), reply |-> x])
  /\ UNCHANGED sent

\* The oldest request is lost, or all of them with the session.
Lose ==
  /\ pending # <<>> /\ pending' \in {Tail(pending), <<>>}
  /\ UNCHANGED <<sent, answers>>

Next == Accept \/ Answer \/ Lose

Spec == Init /\ [][Next]_vars
=============================================================================
