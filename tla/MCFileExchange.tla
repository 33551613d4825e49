--------------------------- MODULE MCFileExchange ---------------------------
(* A directory and a path inside it; files of no unit, of less than a block *)
(* of two, of one block, and of a block and a rest.  And what comments of   *)
(* the code say of an exchange that a run refutes.                          *)
EXTENDS FileExchange

CONSTANTS d, f, a, b

MCAbove == [p \in {d, f} |-> IF p = f THEN {d} ELSE {}]

MCContents == {<<>>, <<a>>, <<a, b, b>>}

\* The contents for the liveness, the refinement and the claim: no turn of the
\* loop, one, and two.
MCBlockContents == {<<>>, <<a, b>>, <<a, b, b>>}

-----------------------------------------------------------------------------

\* "Send ACK to indicate operation success" (Exchanger.cpp:136), which the
\* sender is "waiting" for (195): the final acknowledgement always comes.
FinalAckArrives == snd.pc = "final" ~> snd.pc # "final"
=============================================================================
