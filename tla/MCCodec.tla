------------------------------ MODULE MCCodec ------------------------------
(***************************************************************************)
(* The pure functions of Checksum, Credentials and Names, on every pair of *)
(* strings up to MaxLen: the state is the pair, grown by a character at a  *)
(* time.  The pair is two names for Checksum; two passwords, or a user     *)
(* with one, for Credentials; a folder with a path below it for Names.     *)
(* LOGIN stands for a symbol of its own.                                   *)
(***************************************************************************)
EXTENDS Checksum, Credentials, Names

CONSTANTS
    MaxLen,    \* bound: length of a string
    Code       \* the bits of each character

ASSUME CodecAssumption ==
    /\ MaxLen \in Nat
    /\ Code \in [Chars -> Char]
    /\ \A c, d \in Chars : Code[c] = Code[d] => c = d
    /\ Slash \in Chars

MCChars == {-1, 0, 1}

VARIABLES one, other

vars == <<one, other>>

\* The bits of a character, the lowest first.
MCBit == {b \in 0 .. Byte : 2 ^ b < Byte}
BitsOf(c) == [b \in MCBit |-> ((c % Byte) \div 2 ^ b) % 2 = 1]

MCCode == [c \in Chars |-> BitsOf(c)]
MCKey == <<BitsOf(1), BitsOf(-2), BitsOf(-1)>>
MCUnderscore == BitsOf(1)
MCLogin == <<>>
MCSlash == -1

Init == one = <<>> /\ other = <<>>

Grow(s) == IF Len(s) < MaxLen THEN {Append(s, c) : c \in Chars} ELSE {}

Next ==
    \/ one' \in Grow(one) /\ UNCHANGED other
    \/ other' \in Grow(other) /\ UNCHANGED one

Spec == Init /\ [][Next]_vars

-----------------------------------------------------------------------------

\* A folder with a directory of this name and another one.
TwoDirectories(name) == <<[path |-> name, data |-> <<>>], [path |-> <<1>>, data |-> <<>>]>>

\* Two folders that differ in the name of a directory, the names having one
\* length of at most NBYTES characters, have different checksums: no two
\* characters overlap or cancel in the sum, and the turn of the next path does
\* not bring two sums together (Checksum.cpp:13-22, Folder.cpp:131-132).
\* Longer names may agree, as every turn looks at the first characters again
\* (Checksum.cpp:19); and contents, as the memory behind the buffer may be
\* added to them (Folder.cpp:141-145).
ShortNamesDiffer ==
    Len(one) = Len(other) /\ Len(one) <= NBYTES /\ one # other
      => GetChecksum(TwoDirectories(one), <<>>) # GetChecksum(TwoDirectories(other), <<>>)

Text(s) == [i \in DOMAIN s |-> Code[s[i]]]

\* The character equals the key's at its place, and is encrypted to NUL.
IsKeys(s, i) == s[i] = key[((i - 1) % Len(key)) + 1]

\* With the encryption of a password as the row of the database, that password
\* is accepted and no other one, unless one of its characters equals the key's:
\* then what stands before the first of these is accepted, and the password
\* itself is not (AuthManager.cpp:15-18, SimpleCrypt.cpp:5-10).
OwnPasswordOnly ==
    TryLogin(<<Encrypt(Text(one))>>, Text(other)) <=>
      \E n \in 0 .. Len(one) :
        /\ Text(other) = SubSeq(Text(one), 1, n)
        /\ \A i \in 1 .. n : ~IsKeys(Text(one), i)
        /\ n < Len(one) => IsKeys(Text(one), n + 1)

\* The server reads the user and the password the client wrote, unless there
\* is an underscore in the user's name (Client.cpp:87, Server.cpp:192-196).
ParsedAsSent ==
    (\A i \in DOMAIN one : Text(one)[i] # Underscore)
      => ParseLogin(LoginMessage(Text(one), Text(other)))
           = [user |-> Text(one), pass |-> Text(other)]

\* A path below the folder is sent under its relative name; but without its
\* first character when the folder was given with a slash at its end
\* (Folder.cpp:177, main.cpp:21).
SentUnderItsName ==
    one # <<>> /\ other # <<>>
      => RemoveFolderPath(one, Join(one, other))
           = IF EndsInSlash(one) THEN Tail(other) ELSE other
=============================================================================
