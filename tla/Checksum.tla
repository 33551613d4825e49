------------------------------ MODULE Checksum ------------------------------
(***************************************************************************)
(* shared/Checksum.cpp and Folder::getChecksum (shared/Folder.cpp          *)
(* 127-156), as functions of strings of characters.  A byte has Byte       *)
(* values, a shift by a byte multiplies by it, and a char is signed; the   *)
(* sum has NBYTES bytes, and wraps around as an unsigned integer of that   *)
(* width.                                                                  *)
(***************************************************************************)
EXTENDS Integers, Sequences, FiniteSetsExt

CONSTANTS
    Byte,        \* 256: how many values a byte has
    Chars,       \* the characters strings are made of
    BlockSize    \* SIZE_MESSAGE_TEXT

NBYTES == 4

ASSUME ChecksumAssumption ==
    /\ Byte \in Nat \ {0} /\ Byte % 2 = 0
    /\ Chars \subseteq -(Byte \div 2) .. (Byte \div 2 - 1)
    /\ BlockSize \in Nat /\ NBYTES <= BlockSize

Modulus == Byte * Byte * Byte * Byte    \* bitmask + 1

Ceiling(n, d) == (n + d - 1) \div d

\* One bit to the right; the bit that falls out comes in on the left.
RotateRight(sum) == sum \div 2 + (sum % 2) * (Modulus \div 2)

\* How many characters the turn for offset i looks at.
Remaining(len, i) == IF (len - i) % 4 = 0 THEN 4 ELSE (len - i) % 4

\* What the turn for offset i looks at: always the first characters.
Seen(str, i) == [j \in 0 .. (Remaining(Len(str), i) - 1) |-> str[j + 1]]

\* What a turn adds: each character shifted by as many bytes as its place.
Digit(piece, j) == IF j \in DOMAIN piece THEN piece[j] ELSE 0
ValueUnshifted(piece) ==
    Digit(piece, 0) + Digit(piece, 1) + Digit(piece, 2) + Digit(piece, 3)
Value(piece) ==
    Digit(piece, 0)
      + Byte * (Digit(piece, 1) + Byte * (Digit(piece, 2) + Byte * Digit(piece, 3)))

\* The turns of the loop, as many as there are pieces.
Turns(sum, pieces) ==
    LET after[k \in 0 .. Len(pieces)] ==
          IF k = 0 THEN sum
          ELSE (RotateRight(after[k - 1]) + Value(pieces[k])) % Modulus
    IN  after[Len(pieces)]

\* Checksum::add.
Add(sum, str) ==
    Turns(sum, [k \in 1 .. Ceiling(Len(str), NBYTES) |-> Seen(str, NBYTES * (k - 1))])

\* std::string(buf): up to the first NUL, which may lie beyond the buffer.
CString(buf, beyond) ==
    LET all == buf \o beyond \o <<0>>
    IN  SubSeq(all, 1, Min({i \in DOMAIN all : all[i] = 0}) - 1)

\* The k-th block of a file.
Block(data, k) ==
    SubSeq(data, BlockSize * (k - 1) + 1, Min({BlockSize * k, Len(data)}))

\* An entry of the folder: a file's data, then its path; a directory's path.
AddEntry(sum, entry, beyond) ==
    LET after[k \in 0 .. Ceiling(Len(entry.data), BlockSize)] ==
          IF k = 0 THEN sum
                   ELSE Add(after[k - 1], CString(Block(entry.data, k), beyond))
    IN  Add(after[Ceiling(Len(entry.data), BlockSize)], entry.path)

\* Folder::getChecksum of the entries in the order of the listing; a
\* directory is an entry without data.
GetChecksum(entries, beyond) ==
    LET after[k \in 0 .. Len(entries)] ==
          IF k = 0 THEN 0 ELSE AddEntry(after[k - 1], entries[k], beyond)
    IN  after[Len(entries)]
=============================================================================
