------------------------------- MODULE Names -------------------------------
(***************************************************************************)
(* Folder::removeFolderPath (shared/Folder.cpp 174-181), which makes a     *)
(* path relative again that the directory iterator or operator/ has made   *)
(* of folderPath and a name.  A path is a string, whose characters may be  *)
(* anything; Slash is one of them.                                         *)
(***************************************************************************)
EXTENDS Integers, Sequences

CONSTANT Slash

EndsInSlash(folder) == folder[Len(folder)] = Slash

\* filesystem::operator/, of a folder and a relative path, neither empty.
Join(folder, path) ==
    IF EndsInSlash(folder) THEN folder \o path ELSE folder \o <<Slash>> \o path

\* path.find(folder) != npos
Found(path, folder) ==
    \E i \in 0 .. (Len(path) - Len(folder)) :
      \A j \in 1 .. Len(folder) : path[i + j] = folder[j]

\* The folder cut off, and not the slash after it.
CutFolder(folder, path) ==
    IF Found(path, folder)
      THEN SubSeq(path, Len(folder) + 1, Len(path)) ELSE path

\* As many characters as the folder has, wherever it is found, and one more.
RemoveFolderPath(folder, path) ==
    IF Found(path, folder)
      THEN SubSeq(path, Len(folder) + 2, Len(path)) ELSE path
=============================================================================
