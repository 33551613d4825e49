--------------------------- MODULE MCFolderMonitor ---------------------------
(* A directory with a file in it.                                           *)
EXTENDS FolderMonitor

CONSTANTS d, f, a, b

MCAbove == [p \in Paths |-> IF p = f THEN {d} ELSE {}]

MCHolds ==
    [p \in Paths |->
       IF p = d THEN {Absent, Directory, File(<<a>>)}
                ELSE {Absent, File(<<>>), File(<<a>>), File(<<b>>)}]

\* One kind of entry at each path, for the liveness.
MCOneContent ==
    [p \in Paths |-> IF p = d THEN {Absent, Directory} ELSE {Absent, File(<<a>>)}]
=============================================================================
