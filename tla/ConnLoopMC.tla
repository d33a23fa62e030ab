----------------------------- MODULE ConnLoopMC -----------------------------
(* Instances of ConnLoop for TLC. *)
EXTENDS ConnLoop

CONSTANTS c1, c2, c3

OneClient == {c1}
TwoClients == {c1, c2}
ThreeClients == {c1, c2, c3}
ClientSymmetry == Permutations(Conn)

\* Two answer lengths that differ from each other and from the error texts.
TwoLengths == {1, 2}
OneLength == {1}

\* The answer lengths are written and compared but decide no step: instances whose
\* properties do not mention them tell states apart by everything else.
ControlView == <<pc, queue, sd, state, timeout, tout, rd, wr, cur, left, fdtab, locked,
                 oneTime, idle, envVars>>
=============================================================================
