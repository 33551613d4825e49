--------------------------- MODULE FolderTheorems ---------------------------
(* Every operation on a folder yields a folder, and leaves it well formed:  *)
(* whatever exists still sits in directories that exist.                    *)
EXTENDS Folder, SequenceTheorems, TLAPS

\* writeFile (Folder.cpp:34) never puts a file where its directory is not,
\* nor a file in the place of a directory that has something in it.
LEMMA WriteFileType ==
    ASSUME NEW f \in Folders, WellFormed(f), NEW p \in Paths, NEW unit \in Units
    PROVE  WriteFile(f, p, unit) \in Folders /\ WellFormed(WriteFile(f, p, unit))
<1> DEFINE g == WriteFile(f, p, unit)
<1>1. CASE HasParents(f, p) /\ f[p].kind \in {"absent", "file"}
  <2>1. File(Append(f[p].data, unit)) \in Nodes
    <3>1. f[p].data \in Seq(Units)
      BY DEF Folders, Nodes
    <3>2. Append(f[p].data, unit) \in Seq(Units)
      BY <3>1, AppendProperties
    <3> QED  BY <3>2 DEF File, Nodes, Kinds
  <2>2. g = [f EXCEPT ![p] = File(Append(f[p].data, unit))]
    BY <1>1 DEF WriteFile
  <2>3. g \in Folders
    BY <2>1, <2>2 DEF Folders
  <2>4. \A q \in Paths : q # p => g[q] = f[q]
    BY <2>2 DEF Folders
  <2>5. g[p].kind = "file"
    BY <2>2 DEF Folders, File
  <2>6. ASSUME NEW q \in Paths, Exists(g, q), NEW r \in Above[q]
        PROVE  IsDirectory(g, r)
    <3>0. r \in Paths
      BY FolderAssumption
    <3>1. CASE q = p
      <4>1. r # p
        BY <3>1, FolderAssumption
      <4>2. IsDirectory(f, r)
        BY <1>1, <3>1 DEF HasParents
      <4> QED  BY <4>1, <4>2, <3>0, <2>4 DEF IsDirectory
    <3>2. CASE q # p
      <4>1. IsDirectory(f, r)
        BY <3>2, <2>4, <2>6 DEF Exists, WellFormed, HasParents
      <4>2. r # p
        BY <4>1, <1>1 DEF IsDirectory
      <4> QED  BY <4>1, <4>2, <3>0, <2>4 DEF IsDirectory
    <3> QED  BY <3>1, <3>2
  <2> QED  BY <2>3, <2>6 DEF WellFormed, HasParents
<1>2. CASE ~(HasParents(f, p) /\ f[p].kind \in {"absent", "file"})
  BY <1>2 DEF WriteFile
<1> QED  BY <1>1, <1>2

\* writeDirectory (Folder.cpp:65) makes the whole chain or nothing.
LEMMA WriteDirectoryType ==
    ASSUME NEW f \in Folders, WellFormed(f), NEW p \in Paths
    PROVE  WriteDirectory(f, p) \in Folders /\ WellFormed(WriteDirectory(f, p))
<1> DEFINE chain == Above[p] \cup {p}
           g == WriteDirectory(f, p)
<1>1. CASE \A q \in chain : f[q].kind \in {"absent", "directory"}
  <2>1. g = [q \in Paths |-> IF q \in chain THEN Directory ELSE f[q]]
    BY <1>1 DEF WriteDirectory
  <2>2. Directory \in Nodes
    BY EmptySeq DEF Directory, Nodes, Kinds
  <2>3. g \in Folders
    BY <2>1, <2>2 DEF Folders
  <2>4. ASSUME NEW q \in Paths, Exists(g, q), NEW r \in Above[q]
        PROVE  IsDirectory(g, r)
    <3>0. r \in Paths
      BY FolderAssumption
    <3>1. CASE r \in chain
      BY <3>0, <3>1, <2>1 DEF IsDirectory, Directory
    <3>2. CASE r \notin chain
      <4>1. q \notin chain
        BY <3>2, FolderAssumption
      <4>2. Exists(f, q)
        BY <4>1, <2>1, <2>4 DEF Exists
      <4>3. IsDirectory(f, r)
        BY <4>2 DEF WellFormed, HasParents
      <4> QED  BY <4>3, <3>0, <3>2, <2>1 DEF IsDirectory
    <3> QED  BY <3>1, <3>2
  <2> QED  BY <2>3, <2>4 DEF WellFormed, HasParents
<1>2. CASE ~ \A q \in chain : f[q].kind \in {"absent", "directory"}
  BY <1>2 DEF WriteDirectory
<1> QED  BY <1>1, <1>2

\* deleteFile (Folder.cpp:120) orphans nothing: what is below p goes too.
LEMMA DeleteFileType ==
    ASSUME NEW f \in Folders, WellFormed(f), NEW p \in Paths
    PROVE  DeleteFile(f, p) \in Folders /\ WellFormed(DeleteFile(f, p))
<1> DEFINE g == DeleteFile(f, p)
<1>1. Absent \in Nodes
  BY EmptySeq DEF Absent, Nodes, Kinds
<1>2. g \in Folders
  BY <1>1 DEF DeleteFile, Folders
<1>3. ASSUME NEW q \in Paths, Exists(g, q), NEW r \in Above[q]
      PROVE  IsDirectory(g, r)
  <2>0. r \in Paths
    BY FolderAssumption
  <2>1. q # p /\ p \notin Above[q]
    BY <1>3 DEF Exists, DeleteFile, Absent
  <2>2. Exists(f, q)
    BY <1>3, <2>1 DEF Exists, DeleteFile
  <2>3. IsDirectory(f, r)
    BY <2>2 DEF WellFormed, HasParents
  <2>4. r # p /\ p \notin Above[r]
    BY <2>1, FolderAssumption
  <2> QED  BY <2>0, <2>3, <2>4 DEF IsDirectory, DeleteFile
<1> QED  BY <1>2, <1>3 DEF WellFormed, HasParents

\* An edit of the user, or a file received, leaves a folder that can be on a
\* disk.
LEMMA PutWellFormed ==
    ASSUME NEW f \in Folders, WellFormed(f), NEW p \in Paths, NEW node,
           node # Absent => HasParents(f, p)
    PROVE  WellFormed(Put(f, p, node))
<1> DEFINE h == DeleteFile(f, p)
           g == Put(f, p, node)
<1>1. h \in Folders /\ WellFormed(h)
  BY DeleteFileType
<1>2. g = [h EXCEPT ![p] = node]
  BY DEF Put
<1>3. \A q \in Paths : q # p => g[q] = h[q]
  BY <1>1, <1>2 DEF Folders
<1>4. h[p] = Absent
  BY DEF DeleteFile
<1>5. ASSUME NEW q \in Paths, Exists(g, q), NEW r \in Above[q]
      PROVE  IsDirectory(g, r)
  <2>0. r \in Paths
    BY FolderAssumption
  <2>1. CASE q = p
    <3>1. node # Absent
      <4>1. g[p] = node
        BY <1>1, <1>2 DEF Folders
      <4> QED  BY <4>1, <1>5, <2>1 DEF Exists, Absent
    <3>2. IsDirectory(f, r)
      BY <2>1, <3>1 DEF HasParents
    <3>3. r # p /\ p \notin Above[r]
      BY <2>1, FolderAssumption
    <3> QED  BY <2>0, <3>2, <3>3, <1>3 DEF IsDirectory, DeleteFile
  <2>2. CASE q # p
    <3>1. IsDirectory(h, r)
      BY <2>2, <1>1, <1>3, <1>5 DEF Exists, WellFormed, HasParents
    <3>2. r # p
      BY <3>1, <1>4 DEF IsDirectory, Absent
    <3> QED  BY <2>0, <3>1, <3>2, <1>3 DEF IsDirectory
  <2> QED  BY <2>1, <2>2
<1> QED  BY <1>5 DEF WellFormed, HasParents
=============================================================================
