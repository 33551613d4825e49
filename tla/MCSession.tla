------------------------------ MODULE MCSession ------------------------------
(* Two files; and what comments say that runs of Session refute.             *)
EXTENDS Session

CONSTANTS p, q

\* Claim of Exchanger.cpp:136, "Send ACK to indicate operation success": when
\* a request MODIFY ends, the server has what the client sent.
StoredWhenAcknowledged ==
    [][pc[Client] = "send.end" /\ pc'[Client] = "idle" /\ cur[Client].status = "modified" =>
         LET file == cur[Client].path
         IN  dir[Server][file] = dir[Client][file]]_vars

\* Claim of Client.cpp:261, that the synchronisation is tried again after an
\* error, or the process closed: on a connection that stays open and in step,
\* a counted error leads to one or the other.
RepairEnds ==
    cont_error > 0 /\ pc[Client] = "start" ~>
      \/ ~first_syncrinize \/ pc[Client] = "exited"
      \/ conn # "open" \/ \E x \in Side : pc[x] = "lost"
=============================================================================
