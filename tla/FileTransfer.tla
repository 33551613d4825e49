---------------------------- MODULE FileTransfer ----------------------------
(***************************************************************************)
(* What an exchange of FileExchanger promises to its caller when the path  *)
(* is left alone meanwhile: the receiver's folder changes in one step, to  *)
(* Outcome.  FileExchange is shown to implement this.                      *)
(***************************************************************************)
EXTENDS Folder

CONSTANTS Contents

VARIABLES src, dst, job, phase

vars == <<src, dst, job, phase>>

Statuses == {"created", "modified", "erased"}

UserNodes == {Absent, Directory, Other} \cup {File(c) : c \in Contents}

Init ==
    /\ src \in {f \in [Paths -> UserNodes] : WellFormed(f)}
    /\ dst \in {f \in [Paths -> UserNodes \ {Other}] : WellFormed(f)}
    /\ job = <<>>
    /\ phase = "none"

Begin(p, s) ==
    /\ phase = "none"
    /\ s = "erased" => ~Exists(src, p)
    /\ job' = <<p, s>>
    /\ phase' = "asked"
    /\ UNCHANGED <<src, dst>>

Do ==
    /\ phase = "asked"
    /\ src[job[1]].kind # "other"
    /\ dst' = Outcome(dst, src[job[1]], job[1], job[2])
    /\ phase' = "done"
    /\ UNCHANGED <<src, job>>

\* Only what is neither a file nor a directory cannot be sent.
Fail ==
    /\ phase = "asked"
    /\ src[job[1]].kind = "other"
    /\ phase' = "failed"
    /\ UNCHANGED <<src, dst, job>>

Finish ==
    /\ phase = "done"
    /\ phase' = "none"
    /\ job' = <<>>
    /\ UNCHANGED <<src, dst>>

Edit(p, node) ==
    /\ CanPut(src, p, node)
    /\ job = <<>> \/ (p # job[1] /\ p \notin Above[job[1]])
    /\ src' = Put(src, p, node)
    /\ UNCHANGED <<dst, job, phase>>

Next ==
    \/ \E p \in Paths, s \in Statuses : Begin(p, s)
    \/ Do \/ Fail \/ Finish
    \/ \E p \in Paths, node \in UserNodes : Edit(p, node)

Spec == Init /\ [][Next]_vars
=============================================================================
