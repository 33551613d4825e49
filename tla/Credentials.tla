---------------------------- MODULE Credentials ----------------------------
(***************************************************************************)
(* The login: the client's message (client/Client.cpp 87), its parsing     *)
(* (server/Server.cpp 184-197), and the comparison with the encrypted      *)
(* password of the database (server/AuthManager.cpp,                       *)
(* shared/SimpleCrypt.cpp).  A character is a function from its bits to    *)
(* BOOLEAN; LOGIN is one symbol.                                           *)
(***************************************************************************)
EXTENDS Integers, Sequences, FiniteSetsExt

CONSTANTS
    Bit,          \* the bits of a character
    key,          \* key, 7 characters
    Underscore,   \* the character _
    LOGIN         \* the word at the head of a login message

Char == [Bit -> BOOLEAN]

ASSUME CredentialsAssumption ==
    /\ Len(key) \in Nat \ {0}
    /\ key \in [1 .. Len(key) -> Char]
    /\ Underscore \in Char
    /\ LOGIN \notin Char

Xor(c, k) == [b \in Bit |-> c[b] # k[b]]

\* As much of a password as the key is long.
EncryptHead(s) ==
    [i \in 1 .. Len(s) |-> IF i <= Len(key) THEN Xor(s[i], key[i]) ELSE key[1]]

\* Both functions of SimpleCrypt.
Encrypt(s) == [i \in 1 .. Len(s) |-> Xor(s[i], key[((i - 1) % Len(key)) + 1])]
Decrypt(s) == [i \in 1 .. Len(s) |-> Xor(s[i], key[((i - 1) % Len(key)) + 1])]

\* The character 0, which ends a C string.
NUL == [b \in Bit |-> FALSE]

\* queryHash(argv[0]): a row of the database up to the first NUL.
QueryHash(row) ==
    SubSeq(row, 1, Min({n \in 0 .. Len(row) : n = Len(row) \/ row[n + 1] = NUL}))

\* callback, for the rows of the query: the last one decides.
TryLogin(rows, pass) == rows # <<>> /\ Encrypt(pass) = QueryHash(rows[Len(rows)])

\* doLogin's message.
LoginMessage(user, pass) == <<LOGIN, Underscore>> \o user \o <<Underscore>> \o pass

\* msg.find('_', from), for a message that has one.
Find(msg, from) ==
    CHOOSE i \in from .. Len(msg) :
      /\ msg[i] = Underscore
      /\ \A j \in from .. (i - 1) : msg[j] # Underscore

\* Up to the last underscore.
ParseGreedily(msg) ==
    LET first  == Find(msg, 1) + 1
        second == CHOOSE i \in first .. Len(msg) :
                    /\ msg[i] = Underscore
                    /\ \A j \in (i + 1) .. Len(msg) : msg[j] # Underscore
    IN  [user |-> SubSeq(msg, first, second - 1),
         pass |-> SubSeq(msg, second + 1, Len(msg))]

ParseLogin(msg) ==
    LET first  == Find(msg, 1) + 1
        second == Find(msg, first)
    IN  [user |-> SubSeq(msg, first, second - 1),
         pass |-> SubSeq(msg, second + 1, Len(msg))]
=============================================================================
