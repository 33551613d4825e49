------------------------------- MODULE Folder -------------------------------
(***************************************************************************)
(* The operations of shared/Folder.cpp on one folder: the directory tree   *)
(* below folderPath, as a function from relative paths to nodes.           *)
(*                                                                         *)
(* A path is an opaque value.  Above[p] is the set of the strict prefixes  *)
(* of p, folderPath itself left out (it always exists: the constructor and *)
(* wipeFolder create it).  A file's data is a sequence of units; a unit    *)
(* stands for a run of bytes no read or write of the program splits.  Junk *)
(* is the unit a receiver stores when it takes the bytes of a protocol     *)
(* message for file data.                                                  *)
(***************************************************************************)
EXTENDS Integers, Sequences

CONSTANTS Paths, Above, Data, Junk

ASSUME FolderAssumption ==
    /\ Above \in [Paths -> SUBSET Paths]
    /\ \A p \in Paths : p \notin Above[p]
    /\ \A p \in Paths : \A q \in Above[p] : Above[q] \subseteq Above[p]
    /\ Junk \notin Data

Units == Data \cup {Junk}

Kinds == {"absent", "directory", "file", "other"}
Nodes == [kind : Kinds, data : Seq(Units)]

Absent    == [kind |-> "absent",    data |-> <<>>]
Directory == [kind |-> "directory", data |-> <<>>]
Other     == [kind |-> "other",     data |-> <<>>]   \* a fifo, a socket, a device
File(data) == [kind |-> "file", data |-> data]

Folders == [Paths -> Nodes]

EmptyFolder == [p \in Paths |-> Absent]

Exists(f, p)        == f[p].kind # "absent"
IsDirectory(f, p)   == f[p].kind = "directory"
IsRegularFile(f, p) == f[p].kind = "file"

HasParents(f, p) == \A q \in Above[p] : IsDirectory(f, q)

\* Whatever exists sits in directories that exist.
WellFormed(f) == \A p \in Paths : Exists(f, p) => HasParents(f, p)

-----------------------------------------------------------------------------

\* getFileSize of a missing file; of a directory or a special file
\* filesystem::file_size throws.
GetFileSize(f, p) == IF Exists(f, p) THEN Len(f[p].data) ELSE -1

\* writeFile without ios::app: every block replaces the previous ones.
WriteFileTruncating(f, p, unit) ==
    IF HasParents(f, p) /\ f[p].kind \in {"absent", "file"}
      THEN [f EXCEPT ![p] = File(<<unit>>)] ELSE f

(***************************************************************************)
(* writeFile: one block appended (ios::app).  When the parent directory is *)
(* missing the code creates folderPath, which exists, and not the parent;  *)
(* the stream then fails to open, its state is not looked at, and nothing  *)
(* is written.  The same happens when p is a directory.                    *)
(***************************************************************************)
WriteFile(f, p, unit) ==
    IF HasParents(f, p) /\ f[p].kind \in {"absent", "file"}
      THEN [f EXCEPT ![p] = File(Append(f[p].data, unit))] ELSE f

\* writeDirectory: create_directories makes the whole chain, and fails
\* without an effect (the exception is caught) when a file is in the way.
WriteDirectory(f, p) ==
    LET chain == Above[p] \cup {p}
    IN  IF \A q \in chain : f[q].kind \in {"absent", "directory"}
          THEN [q \in Paths |-> IF q \in chain THEN Directory ELSE f[q]] ELSE f

\* deleteFile calling filesystem::remove: what is below p stays.
DeleteOnlyEntry(f, p) == [f EXCEPT ![p] = Absent]

\* deleteFile: remove_all takes p and everything below it.
DeleteFile(f, p) ==
    [q \in Paths |-> IF q = p \/ p \in Above[q] THEN Absent ELSE f[q]]

\* The user of the machine replaces, creates or removes the entry p of the
\* folder, whatever else was below it going with it.
CanPut(f, p, node) ==
    /\ node # f[p]
    /\ node # Absent => HasParents(f, p)

Put(f, p, node) == [DeleteFile(f, p) EXCEPT ![p] = node]

-----------------------------------------------------------------------------

(***************************************************************************)
(* The receiver's folder after a transfer of node, at path p.  A path that *)
(* is "created" and exists is left as it is.  A directory is made unless a *)
(* file is in the way.  A file replaces what was there, except that one    *)
(* that is empty, or whose directory is missing, is not made at all.       *)
(***************************************************************************)
Outcome(f, node, p, s) ==
    CASE Exists(f, p) /\ s = "created" -> f
      [] node.kind = "directory" /\ ~(Exists(f, p) /\ s = "created") ->
            WriteDirectory(f, p)
      [] node.kind = "absent" /\ ~(Exists(f, p) /\ s = "created") ->
            DeleteFile(f, p)
      [] node.kind = "file" /\ ~(Exists(f, p) /\ s = "created") ->
            IF HasParents(f, p) /\ node.data # <<>>
              THEN [DeleteFile(f, p) EXCEPT ![p] = node] ELSE DeleteFile(f, p)
=============================================================================
