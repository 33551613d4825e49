---------------------------- MODULE MCServerPool ----------------------------
(* Small pools; and what a comment of Server.cpp says that a run refutes. *)
EXTENDS ServerPool, TLC

CONSTANTS u1, u2, c1, c2, c3, w1, w2

\* u1 may connect twice, one after the other or at the same time.
MCOwner == (c1 :> u1) @@ (c2 :> u1) @@ (c3 :> u2)

\* Two users with a connection each, for the liveness.
MCOneEach == (c1 :> u1) @@ (c2 :> u2)

Symmetry == Permutations(Workers)

-----------------------------------------------------------------------------

\* "Every 2 seconds select will go on timeout to check if new connections
\* are free again" (Server.cpp:55): run() keeps coming back to select.
SelectGoesOn == []<>(run.pc \in {"select", "killed"})
=============================================================================
