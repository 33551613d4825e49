---------------------------- MODULE CodecProofs ----------------------------
(***************************************************************************)
(* What Checksum, Credentials and Names compute, for every key, password,  *)
(* user, path and name: what the checksum looks at and what it tells       *)
(* apart, encryption is inverted by decryption, which passwords fit a row  *)
(* of the database, the login message is parsed as it was put together,    *)
(* and what is sent of a path below the folder.  The properties of MCCodec *)
(* follow, without a bound on the length of the strings or the width of a  *)
(* byte.                                                                   *)
(***************************************************************************)
EXTENDS MCCodec, SequenceTheorems, WellFoundedInduction, TLAPS

-----------------------------------------------------------------------------
(* SimpleCrypt *)

\* Exclusive or with the same character twice does nothing (SimpleCrypt.cpp:8).
LEMMA XorTwice ==
    ASSUME NEW c \in Char, NEW k \in Char
    PROVE  /\ Xor(c, k) \in Char
           /\ Xor(Xor(c, k), k) = c
<1>1. Xor(c, k) \in Char
  BY DEF Xor, Char
<1>2. Xor(Xor(c, k), k) \in Char
  BY DEF Xor, Char
<1>3. \A b \in Bit : c[b] \in BOOLEAN /\ k[b] \in BOOLEAN
  BY DEF Char
<1>4. \A b \in Bit : Xor(Xor(c, k), k)[b] = c[b]
  BY <1>3 DEF Xor
<1> QED
  BY <1>1, <1>2, <1>4 DEF Char

\* The character of the key for the i-th one of a string.
LEMMA KeyCharacter ==
    ASSUME NEW i \in Nat \ {0}
    PROVE  key[((i - 1) % Len(key)) + 1] \in Char
<1>1. /\ Len(key) \in Nat \ {0}
      /\ key \in [1 .. Len(key) -> Char]
  BY CredentialsAssumption
<1>2. (i - 1) % Len(key) \in 0 .. (Len(key) - 1)
  BY <1>1
<1> QED
  BY <1>1, <1>2

\* Encryption keeps the length, and yields characters.
LEMMA EncryptType ==
    ASSUME NEW s \in Seq(Char)
    PROVE  /\ Encrypt(s) \in Seq(Char)
           /\ Len(Encrypt(s)) = Len(s)
           /\ \A i \in 1 .. Len(s) :
                Encrypt(s)[i] = Xor(s[i], key[((i - 1) % Len(key)) + 1])
<1>1. \A i \in 1 .. Len(s) : Xor(s[i], key[((i - 1) % Len(key)) + 1]) \in Char
  <2> SUFFICES ASSUME NEW i \in 1 .. Len(s)
               PROVE  Xor(s[i], key[((i - 1) % Len(key)) + 1]) \in Char
    OBVIOUS
  <2> QED
    BY XorTwice, KeyCharacter
<1>2. Len(s) \in Nat
  OBVIOUS
<1>3. Encrypt(s) \in [1 .. Len(s) -> Char]
  BY <1>1 DEF Encrypt
<1>4. Encrypt(s) \in Seq(Char)
  BY <1>2, <1>3
<1>5. Len(Encrypt(s)) = Len(s)
  BY <1>2, <1>3
<1> QED
  BY <1>4, <1>5 DEF Encrypt

\* Decrypting what was encrypted gives it back (SimpleCrypt.cpp:5-17).
THEOREM DecryptInverts ==
    ASSUME NEW s \in Seq(Char)
    PROVE  Decrypt(Encrypt(s)) = s
<1> DEFINE e == Encrypt(s)
<1>1. /\ e \in Seq(Char)
      /\ Len(e) = Len(s)
      /\ \A i \in 1 .. Len(s) :
           e[i] = Xor(s[i], key[((i - 1) % Len(key)) + 1])
  BY EncryptType
<1> HIDE DEF e
<1>2. \A i \in 1 .. Len(s) :
        Xor(e[i], key[((i - 1) % Len(key)) + 1]) = s[i]
  <2> SUFFICES ASSUME NEW i \in 1 .. Len(s)
               PROVE  Xor(e[i], key[((i - 1) % Len(key)) + 1]) = s[i]
    OBVIOUS
  <2> QED
    BY <1>1, XorTwice, KeyCharacter
<1>3. Decrypt(e) = [i \in 1 .. Len(s) |-> s[i]]
  BY <1>1, <1>2 DEF Decrypt
<1>4. [i \in 1 .. Len(s) |-> s[i]] = s
  OBVIOUS
<1> QED
  BY <1>3, <1>4 DEF e

\* A character is encrypted to NUL where it equals the key's
\* (SimpleCrypt.cpp:8).
LEMMA XorIsNul ==
    ASSUME NEW c \in Char, NEW k \in Char
    PROVE  Xor(c, k) = NUL <=> c = k
<1>1. \A b \in Bit : c[b] \in BOOLEAN /\ k[b] \in BOOLEAN
  BY DEF Char
<1>2. Xor(c, k) = NUL <=> \A b \in Bit : c[b] = k[b]
  BY <1>1 DEF Xor, NUL
<1> QED  BY <1>2 DEF Char

\* A set of natural numbers has a least one.
LEMMA LeastExists ==
    ASSUME NEW S, S \subseteq Nat, S # {}
    PROVE  \E n \in S : \A m \in S : n <= m
<1> DEFINE R == {pair \in Nat \X Nat : pair[1] < pair[2]}
<1>1. IsWellFoundedOn(R, Nat)
  BY NatLessThanWellFounded DEF OpToRel
<1>2. PICK n \in S : \A m \in S : ~(<<m, n>> \in R)
  <2> HIDE DEF R
  <2> QED  BY <1>1, WFMin
<1>3. ASSUME NEW m \in S PROVE n <= m
  <2>1. ~(<<m, n>> \in R)
    BY <1>2
  <2>2. m \in Nat /\ n \in Nat
    OBVIOUS
  <2> QED  BY <2>1, <2>2
<1> QED  BY <1>3

\* The row is read up to its first NUL, or whole (AuthManager.cpp:17).
LEMMA ReadsUpToNul ==
    ASSUME NEW row \in Seq(Char)
    PROVE  \E n \in 0 .. Len(row) :
             /\ QueryHash(row) = SubSeq(row, 1, n)
             /\ \A i \in 1 .. n : row[i] # NUL
             /\ n < Len(row) => row[n + 1] = NUL
<1> DEFINE IsEnd(n) == n = Len(row) \/ row[n + 1] = NUL
           ends == {n \in 0 .. Len(row) : IsEnd(n)}
<1>1. Len(row) \in Nat
  OBVIOUS
<1>2. ends \subseteq Nat /\ Len(row) \in ends
  BY <1>1
<1>3. PICK n \in ends : \A m \in ends : n <= m
  <2>1. ends \subseteq Nat /\ ends # {}
    BY <1>2
  <2> HIDE DEF ends
  <2> QED  BY <2>1, LeastExists
<1>4. Min(ends) = n
  <2> HIDE DEF ends
  <2>1. \A x \in ends : (\A y \in ends : x =< y) => x = n
    BY <1>2, <1>3
  <2> QED  BY <1>3, <2>1 DEF Min
<1>5. QueryHash(row) = SubSeq(row, 1, n)
  BY <1>4 DEF QueryHash
<1>6. n \in 0 .. Len(row) /\ (n < Len(row) => row[n + 1] = NUL)
  BY <1>1
<1>7. ASSUME NEW i \in 1 .. n PROVE row[i] # NUL
  <2>1. i - 1 \in 0 .. Len(row) /\ i - 1 < n /\ (i - 1) + 1 = i
    BY <1>1, <1>6
  <2>2. i - 1 \notin ends
    <3> HIDE DEF ends
    <3> QED  BY <1>2, <1>3, <2>1
  <2> QED  BY <2>1, <2>2
<1> QED  BY <1>5, <1>6, <1>7

\* A row of the database lets in the password it is the encryption of up to
\* the first character that equals the key's at its place, and no other one:
\* where there is no such character, exactly that password
\* (AuthManager.cpp:13-18).
THEOREM AcceptsUpToKeys ==
    ASSUME NEW s \in Seq(Char), NEW t \in Seq(Char)
    PROVE  TryLogin(<<Encrypt(s)>>, t) <=>
             \E n \in 0 .. Len(s) :
               /\ t = SubSeq(s, 1, n)
               /\ \A i \in 1 .. n : ~IsKeys(s, i)
               /\ n < Len(s) => IsKeys(s, n + 1)
<1> DEFINE e == Encrypt(s)
           Stops(n) == /\ \A i \in 1 .. n : ~IsKeys(s, i)
                       /\ n < Len(s) => IsKeys(s, n + 1)
<1>1. /\ e \in Seq(Char) /\ Len(e) = Len(s) /\ Len(s) \in Nat
      /\ \A i \in 1 .. Len(s) :
           e[i] = Xor(s[i], key[((i - 1) % Len(key)) + 1])
  BY EncryptType
<1>2. TryLogin(<<e>>, t) <=> Encrypt(t) = QueryHash(e)
  BY DEF TryLogin
<1> HIDE DEF e
<1>3. ASSUME NEW i \in 1 .. Len(s) PROVE e[i] = NUL <=> IsKeys(s, i)
  <2>1. s[i] \in Char /\ key[((i - 1) % Len(key)) + 1] \in Char
    BY <1>1, KeyCharacter
  <2> QED  BY <1>1, <2>1, XorIsNul DEF IsKeys
<1>4. PICK n \in 0 .. Len(s) :
        /\ QueryHash(e) = SubSeq(e, 1, n)
        /\ \A i \in 1 .. n : e[i] # NUL
        /\ n < Len(s) => e[n + 1] = NUL
  BY <1>1, ReadsUpToNul
<1>5. Stops(n)
  <2>1. \A i \in 1 .. n : i \in 1 .. Len(s)
    BY <1>1
  <2>2. n < Len(s) => n + 1 \in 1 .. Len(s)
    BY <1>1
  <2> QED  BY <1>3, <1>4, <2>1, <2>2
<1>6. ASSUME NEW m \in 0 .. Len(s), Stops(m) PROVE m = n
  <2>1. CASE m < n
    <3>1. m + 1 \in 1 .. n /\ m < Len(s)
      BY <1>1, <2>1
    <3> QED  BY <1>5, <1>6, <3>1
  <2>2. CASE n < m
    <3>1. n + 1 \in 1 .. m /\ n < Len(s)
      BY <1>1, <2>2
    <3> QED  BY <1>5, <1>6, <3>1
  <2> QED  BY <1>1, <2>1, <2>2
<1>7. Encrypt(SubSeq(s, 1, n)) = SubSeq(e, 1, n)
  <2> DEFINE head == SubSeq(s, 1, n)
             part == SubSeq(e, 1, n)
  <2>1. /\ head \in Seq(Char) /\ Len(head) = n /\ \A i \in 1 .. n : head[i] = s[i]
        /\ part \in Seq(Char) /\ Len(part) = n /\ \A i \in 1 .. n : part[i] = e[i]
    BY <1>1
  <2> HIDE DEF head, part
  <2>2. /\ Encrypt(head) \in Seq(Char) /\ Len(Encrypt(head)) = n
        /\ \A i \in 1 .. n :
             Encrypt(head)[i] = Xor(head[i], key[((i - 1) % Len(key)) + 1])
    BY <2>1, EncryptType
  <2>3. ASSUME NEW i \in 1 .. n PROVE Encrypt(head)[i] = part[i]
    <3>1. i \in 1 .. Len(s)
      BY <1>1
    <3>2. e[i] = Xor(s[i], key[((i - 1) % Len(key)) + 1])
      BY <1>1, <3>1
    <3>3. head[i] = s[i] /\ part[i] = e[i]
      BY <2>1
    <3> QED  BY <2>2, <3>2, <3>3
  <2>4. Encrypt(head) = part
    BY <2>1, <2>2, <2>3, SeqEqual
  <2> QED  BY <2>4 DEF head, part
<1>8. Encrypt(t) = Encrypt(SubSeq(s, 1, n)) <=> t = SubSeq(s, 1, n)
  <2> DEFINE head == SubSeq(s, 1, n)
  <2>1. head \in Seq(Char)
    BY <1>1
  <2> HIDE DEF head
  <2>2. Encrypt(t) = Encrypt(head) => t = head
    BY <2>1, DecryptInverts
  <2> QED  BY <2>2 DEF head
<1>9. TryLogin(<<e>>, t) <=> t = SubSeq(s, 1, n)
  BY <1>2, <1>4, <1>7, <1>8
<1>10. (\E m \in 0 .. Len(s) : t = SubSeq(s, 1, m) /\ Stops(m)) <=> t = SubSeq(s, 1, n)
  <2> HIDE DEF Stops
  <2> QED  BY <1>5, <1>6
<1> QED  BY <1>9, <1>10 DEF e

-----------------------------------------------------------------------------
(* The login message *)

\* Where the characters of two strings put together are.
LEMMA Joined ==
    ASSUME NEW C, NEW s \in Seq(C), NEW t \in Seq(C)
    PROVE  /\ s \o t \in Seq(C)
           /\ Len(s \o t) = Len(s) + Len(t)
           /\ \A i \in 1 .. Len(s) : (s \o t)[i] = s[i]
           /\ \A i \in 1 .. Len(t) : (s \o t)[Len(s) + i] = t[i]
<1>1. Len(s) \in Nat /\ Len(t) \in Nat
  OBVIOUS
<1>2. /\ s \o t \in Seq(C)
      /\ Len(s \o t) = Len(s) + Len(t)
      /\ \A i \in 1 .. Len(s) + Len(t) :
           (s \o t)[i] = IF i <= Len(s) THEN s[i] ELSE t[i - Len(s)]
  BY ConcatProperties
<1>3. ASSUME NEW i \in 1 .. Len(s)
      PROVE  (s \o t)[i] = s[i]
  BY <1>1, <1>2
<1>4. ASSUME NEW i \in 1 .. Len(t)
      PROVE  (s \o t)[Len(s) + i] = t[i]
  <2>1. /\ Len(s) + i \in 1 .. Len(s) + Len(t)
        /\ ~(Len(s) + i <= Len(s))
        /\ (Len(s) + i) - Len(s) = i
    BY <1>1
  <2> QED
    BY <1>2, <2>1
<1> QED
  BY <1>2, <1>3, <1>4

\* Where the characters of the message are.
LEMMA Characters ==
    ASSUME NEW user \in Seq(Char), NEW pass \in Seq(Char)
    PROVE  LET msg == LoginMessage(user, pass) IN
           /\ Len(msg) = Len(user) + 3 + Len(pass)
           /\ msg \in Seq(Char \cup {LOGIN})
           /\ msg[1] = LOGIN
           /\ msg[2] = Underscore
           /\ \A i \in 1 .. Len(user) : msg[2 + i] = user[i]
           /\ msg[Len(user) + 3] = Underscore
           /\ \A i \in 1 .. Len(pass) : msg[Len(user) + 3 + i] = pass[i]
<1> DEFINE C == Char \cup {LOGIN}
           head == <<LOGIN, Underscore>>
           front == head \o user
           name == front \o <<Underscore>>
           msg == name \o pass
<1>1. /\ user \in Seq(C) /\ pass \in Seq(C)
      /\ Len(user) \in Nat /\ Len(pass) \in Nat
  OBVIOUS
<1>2. <<Underscore>> \in Seq(C) /\ head \in Seq(C)
  BY CredentialsAssumption
<1>3. Len(head) = 2 /\ head[1] = LOGIN /\ head[2] = Underscore
  OBVIOUS
<1> HIDE DEF C, head
<1>4. /\ front \in Seq(C) /\ Len(front) = 2 + Len(user)
      /\ \A i \in 1 .. 2 : front[i] = head[i]
      /\ \A i \in 1 .. Len(user) : front[2 + i] = user[i]
  <2>1. /\ head \o user \in Seq(C)
        /\ Len(head \o user) = Len(head) + Len(user)
        /\ \A i \in 1 .. Len(head) : (head \o user)[i] = head[i]
        /\ \A i \in 1 .. Len(user) : (head \o user)[Len(head) + i] = user[i]
    BY <1>1, <1>2, Joined
  <2> QED
    BY <1>1, <1>3, <2>1 DEF front
<1> HIDE DEF front
<1>5. /\ name \in Seq(C) /\ Len(name) = Len(front) + 1
      /\ \A i \in 1 .. Len(front) : name[i] = front[i]
      /\ name[Len(front) + 1] = Underscore
  <2>1. /\ Len(<<Underscore>>) = 1 /\ <<Underscore>>[1] = Underscore
        /\ 1 \in 1 .. 1
    OBVIOUS
  <2> DEFINE single == <<Underscore>>
  <2> HIDE DEF single
  <2>2. single \in Seq(C) /\ Len(single) = 1 /\ single[1] = Underscore
    BY <1>2, <2>1 DEF single
  <2>3. /\ front \o single \in Seq(C)
        /\ Len(front \o single) = Len(front) + Len(single)
        /\ \A i \in 1 .. Len(front) : (front \o single)[i] = front[i]
        /\ \A i \in 1 .. Len(single) : (front \o single)[Len(front) + i] = single[i]
    <3>1. front \in Seq(C) /\ single \in Seq(C)
      BY <1>4, <2>2
    <3> QED
      BY <3>1, Joined
  <2>4. front \o single = name
    BY DEF single, name
  <2> QED
    BY <2>1, <2>2, <2>3, <2>4
<1> HIDE DEF name
<1>6. /\ msg \in Seq(C) /\ Len(msg) = Len(name) + Len(pass)
      /\ \A i \in 1 .. Len(name) : msg[i] = name[i]
      /\ \A i \in 1 .. Len(pass) : msg[Len(name) + i] = pass[i]
  <2>1. /\ name \o pass \in Seq(C)
        /\ Len(name \o pass) = Len(name) + Len(pass)
        /\ \A i \in 1 .. Len(name) : (name \o pass)[i] = name[i]
        /\ \A i \in 1 .. Len(pass) : (name \o pass)[Len(name) + i] = pass[i]
    <3>1. name \in Seq(C) /\ pass \in Seq(C)
      BY <1>1, <1>5
    <3> QED
      BY <3>1, Joined
  <2> QED
    BY <2>1 DEF msg
<1>7. msg = LoginMessage(user, pass)
  BY DEF name, front, head, LoginMessage
<1> HIDE DEF msg
<1>8. Len(front) = 2 + Len(user) /\ Len(name) = Len(user) + 3
  BY <1>1, <1>4, <1>5
<1>9. /\ msg[1] = LOGIN /\ msg[2] = Underscore
      /\ msg[Len(user) + 3] = Underscore
  BY <1>1, <1>3, <1>4, <1>5, <1>6, <1>8
<1>10. ASSUME NEW i \in 1 .. Len(user)
       PROVE  msg[2 + i] = user[i]
  <2>1. 2 + i \in 1 .. Len(front) /\ 2 + i \in 1 .. Len(name)
    BY <1>1, <1>8
  <2> QED
    BY <1>4, <1>5, <1>6, <2>1
<1>11. \A i \in 1 .. Len(pass) : msg[Len(user) + 3 + i] = pass[i]
  BY <1>6, <1>8
<1>12. Len(msg) = Len(user) + 3 + Len(pass)
  BY <1>6, <1>8
<1> QED
  BY <1>6, <1>7, <1>9, <1>10, <1>11, <1>12 DEF C

\* find stops at the first underscore.
LEMMA FindStops ==
    ASSUME NEW msg, NEW from \in Nat, NEW at \in from .. Len(msg),
           Len(msg) \in Nat,
           msg[at] = Underscore,
           \A j \in from .. (at - 1) : msg[j] # Underscore
    PROVE  Find(msg, from) = at
<1> DEFINE Stop(i) == /\ msg[i] = Underscore
                      /\ \A j \in from .. (i - 1) : msg[j] # Underscore
<1>1. Stop(at)
  OBVIOUS
<1>2. ASSUME NEW i \in from .. Len(msg), Stop(i)
      PROVE  i = at
  <2>1. ~(i < at)
    BY <1>2
  <2>2. ~(at < i)
    BY <1>2
  <2> QED
    BY <2>1, <2>2
<1> HIDE DEF Stop
<1>3. (CHOOSE i \in from .. Len(msg) : Stop(i)) = at
  BY <1>1, <1>2
<1> QED
  BY <1>3 DEF Find, Stop

\* The server reads the user and the password the client wrote, when there is
\* no underscore in the user's name (Client.cpp:87, Server.cpp:192-196).
THEOREM LoginIsParsedAsSent ==
    ASSUME NEW user \in Seq(Char), NEW pass \in Seq(Char),
           \A i \in 1 .. Len(user) : user[i] # Underscore
    PROVE  ParseLogin(LoginMessage(user, pass)) = [user |-> user, pass |-> pass]
<1> DEFINE msg == LoginMessage(user, pass)
           C == Char \cup {LOGIN}
<1>1. /\ Len(msg) = Len(user) + 3 + Len(pass)
      /\ msg \in Seq(C)
      /\ msg[1] = LOGIN
      /\ msg[2] = Underscore
      /\ \A i \in 1 .. Len(user) : msg[2 + i] = user[i]
      /\ msg[Len(user) + 3] = Underscore
      /\ \A i \in 1 .. Len(pass) : msg[Len(user) + 3 + i] = pass[i]
  BY Characters
<1>2. LOGIN # Underscore
  BY CredentialsAssumption
<1>3. Len(user) \in Nat /\ Len(pass) \in Nat
  OBVIOUS
<1> HIDE DEF msg, C
<1>4. Find(msg, 1) = 2
  <2>1. Len(msg) \in Nat /\ 2 \in 1 .. Len(msg)
    BY <1>1, <1>3
  <2>2. \A j \in 1 .. (2 - 1) : msg[j] # Underscore
    BY <1>1, <1>2
  <2> QED
    BY <1>1, <2>1, <2>2, FindStops
<1>5. Find(msg, 3) = Len(user) + 3
  <2> DEFINE end == Len(user) + 3
  <2>1. Len(msg) \in Nat /\ end \in 3 .. Len(msg)
    BY <1>1, <1>3
  <2>2. ASSUME NEW j \in 3 .. (end - 1)
        PROVE  msg[j] # Underscore
    <3>1. /\ j - 2 \in 1 .. Len(user)
          /\ 2 + (j - 2) = j
      BY <1>3
    <3>2. msg[2 + (j - 2)] = user[j - 2]
      BY <1>1, <3>1
    <3>3. user[j - 2] # Underscore
      BY <3>1
    <3> QED
      BY <3>1, <3>2, <3>3
  <2>3. msg[end] = Underscore
    BY <1>1
  <2> HIDE DEF end
  <2>4. Find(msg, 3) = end
    BY <2>1, <2>2, <2>3, FindStops
  <2> QED
    BY <2>4 DEF end
<1>6. SubSeq(msg, 3, Len(user) + 2) = user
  <2> DEFINE part == SubSeq(msg, 3, Len(user) + 2)
  <2>1. /\ part \in Seq(C) /\ Len(part) = Len(user)
        /\ \A i \in 1 .. Len(user) : part[i] = msg[2 + i]
    BY <1>1, <1>3
  <2>2. ASSUME NEW i \in 1 .. Len(part)
        PROVE  part[i] = user[i]
    <3>1. i \in 1 .. Len(user)
      BY <2>1
    <3>2. part[i] = msg[2 + i] /\ msg[2 + i] = user[i]
      BY <1>1, <2>1, <3>1
    <3> QED
      BY <3>2
  <2>3. user \in Seq(C)
    BY DEF C
  <2> HIDE DEF part
  <2>4. part = user
    BY <2>1, <2>2, <2>3, SeqEqual
  <2> QED
    BY <2>4 DEF part
<1>7. SubSeq(msg, Len(user) + 4, Len(msg)) = pass
  <2> DEFINE part == SubSeq(msg, Len(user) + 4, Len(msg))
  <2>1. /\ part \in Seq(C) /\ Len(part) = Len(pass)
        /\ \A i \in 1 .. Len(pass) : part[i] = msg[Len(user) + 3 + i]
    BY <1>1, <1>3
  <2>2. ASSUME NEW i \in 1 .. Len(part)
        PROVE  part[i] = pass[i]
    <3>1. i \in 1 .. Len(pass)
      BY <2>1
    <3>2. part[i] = msg[Len(user) + 3 + i]
      BY <2>1, <3>1
    <3>3. msg[Len(user) + 3 + i] = pass[i]
      BY <1>1, <3>1
    <3> QED
      BY <3>2, <3>3
  <2>3. pass \in Seq(C)
    BY DEF C
  <2> HIDE DEF part
  <2>4. part = pass
    BY <2>1, <2>2, <2>3, SeqEqual
  <2> QED
    BY <2>4 DEF part
<1>8. ParseLogin(msg) = [user |-> SubSeq(msg, 3, (Len(user) + 3) - 1),
                         pass |-> SubSeq(msg, (Len(user) + 3) + 1, Len(msg))]
  <2>1. Find(msg, 1) + 1 = 3
    BY <1>4
  <2>2. Find(msg, Find(msg, 1) + 1) = Len(user) + 3
    BY <1>5, <2>1
  <2> QED
    BY <2>1, <2>2 DEF ParseLogin
<1>9. (Len(user) + 3) - 1 = Len(user) + 2 /\ (Len(user) + 3) + 1 = Len(user) + 4
  BY <1>3
<1> QED
  BY <1>6, <1>7, <1>8, <1>9 DEF msg

-----------------------------------------------------------------------------
(* Names *)

\* A path below the folder comes back as it was, but for its first character
\* when the folder's name ends in a slash (Folder.cpp:177).
THEOREM RelativeAgain ==
    ASSUME NEW C, Slash \in C,
           NEW folder \in Seq(C), folder # <<>>,
           NEW path \in Seq(C), path # <<>>
    PROVE  RemoveFolderPath(folder, Join(folder, path)) =
             IF EndsInSlash(folder) THEN Tail(path) ELSE path
<1> DEFINE all == Join(folder, path)
           rest == IF EndsInSlash(folder) THEN path ELSE <<Slash>> \o path
<1>1. Len(folder) \in Nat /\ Len(path) \in Nat \ {0}
  BY EmptySeq
<1>2. /\ rest \in Seq(C)
      /\ Tail(rest) = IF EndsInSlash(folder) THEN Tail(path) ELSE path
      /\ rest # <<>>
  <2>1. CASE EndsInSlash(folder)
    BY <2>1
  <2>2. CASE ~EndsInSlash(folder)
    <3>1. <<Slash>> \in Seq(C) /\ Len(<<Slash>>) = 1
      OBVIOUS
    <3> DEFINE single == <<Slash>>
               two == single \o path
    <3>2. single \in Seq(C) /\ Len(single) = 1
      BY <3>1
    <3> HIDE DEF single
    <3>3. /\ two \in Seq(C)
          /\ Len(two) = Len(single) + Len(path)
          /\ \A i \in 1 .. Len(path) : two[Len(single) + i] = path[i]
      <4>1. single \in Seq(C) /\ path \in Seq(C)
        BY <3>2
      <4> QED  BY <4>1, Joined
    <3> HIDE DEF two
    <3>4. Len(two) = 1 + Len(path) /\ two # <<>>
      BY <1>1, <3>2, <3>3, EmptySeq
    <3>5. /\ Tail(two) \in Seq(C)
          /\ Len(Tail(two)) = Len(two) - 1
          /\ \A i \in 1 .. Len(Tail(two)) : Tail(two)[i] = two[i + 1]
      BY <3>3, <3>4, HeadTailProperties
    <3>6. Len(Tail(two)) = Len(path)
      BY <1>1, <3>4, <3>5
    <3>7. ASSUME NEW i \in 1 .. Len(Tail(two))
          PROVE  Tail(two)[i] = path[i]
      <4>1. i + 1 = Len(single) + i
        BY <3>2, <3>6, <1>1
      <4> QED
        BY <3>3, <3>5, <3>6, <4>1
    <3>8. Tail(two) = path
      BY <3>5, <3>6, <3>7, SeqEqual
    <3>9. rest = two
      BY <2>2 DEF single, two
    <3> QED
      BY <2>2, <3>3, <3>4, <3>8, <3>9
  <2> QED
    BY <2>1, <2>2
<1>3. all = folder \o rest
  <2>1. CASE EndsInSlash(folder)
    BY <2>1 DEF Join
  <2>2. CASE ~EndsInSlash(folder)
    <3>1. <<Slash>> \in Seq(C)
      OBVIOUS
    <3>2. (folder \o <<Slash>>) \o path = folder \o (<<Slash>> \o path)
      BY <3>1, ConcatAssociative
    <3> QED
      BY <2>2, <3>2 DEF Join
  <2> QED
    BY <2>1, <2>2
<1> HIDE DEF all, rest
<1>4. /\ all \in Seq(C)
      /\ Len(all) = Len(folder) + Len(rest)
      /\ \A i \in 1 .. Len(folder) : all[i] = folder[i]
      /\ \A i \in 1 .. Len(rest) : all[Len(folder) + i] = rest[i]
  BY <1>2, <1>3, Joined
<1>5. Len(rest) \in Nat \ {0}
  BY <1>2, EmptySeq
<1>6. Found(all, folder)
  <2>1. 0 \in 0 .. (Len(all) - Len(folder))
    BY <1>1, <1>4, <1>5
  <2>2. \A j \in 1 .. Len(folder) : all[0 + j] = folder[j]
    BY <1>1, <1>4
  <2> QED
    BY <2>1, <2>2 DEF Found
<1>7. RemoveFolderPath(folder, all) = SubSeq(all, Len(folder) + 2, Len(all))
  BY <1>6 DEF RemoveFolderPath
<1>8. SubSeq(all, Len(folder) + 2, Len(all)) = Tail(rest)
  <2> DEFINE part == SubSeq(all, Len(folder) + 2, Len(all))
             tail == Tail(rest)
             m == Len(folder) + 2
             n == Len(all)
  <2>1. /\ tail \in Seq(C)
        /\ Len(tail) = Len(rest) - 1
        /\ \A i \in 1 .. Len(tail) : tail[i] = rest[i + 1]
    BY <1>2, HeadTailProperties
  <2>2. m \in Int /\ n \in Int /\ n - m + 1 = Len(rest) - 1
    BY <1>1, <1>4, <1>5
  <2>3. \A i \in m .. n : all[i] \in C
    <3>1. \A i \in 1 .. n : all[i] \in C
      BY <1>4, ElementOfSeq
    <3> QED
      BY <1>1, <3>1
  <2>4. part = SubSeq(all, m, n)
    OBVIOUS
  <2> HIDE DEF m, n, part, tail
  <2>5. /\ part \in Seq(C)
        /\ Len(part) = IF m <= n THEN n - m + 1 ELSE 0
        /\ \A i \in 1 .. n - m + 1 : part[i] = all[m + i - 1]
    BY <2>2, <2>3, <2>4, SubSeqProperties
  <2>6. Len(part) = Len(tail)
    BY <1>5, <2>1, <2>2, <2>5
  <2>7. ASSUME NEW i \in 1 .. Len(part)
        PROVE  part[i] = tail[i]
    <3>1. /\ i \in 1 .. n - m + 1
          /\ i + 1 \in 1 .. Len(rest)
          /\ i \in 1 .. Len(tail)
      BY <1>5, <2>1, <2>2, <2>6
    <3>2. m + i - 1 = Len(folder) + (i + 1)
      BY <1>1, <3>1 DEF m
    <3>3. all[Len(folder) + (i + 1)] = rest[i + 1]
      BY <1>4, <3>1
    <3> QED
      BY <2>1, <2>5, <3>1, <3>2, <3>3
  <2>8. part = tail
    BY <2>1, <2>5, <2>6, <2>7, SeqEqual
  <2> QED
    BY <2>8 DEF part, tail
<1> QED
  BY <1>2, <1>7, <1>8 DEF all

-----------------------------------------------------------------------------
(* Checksum *)

\* Every turn looks at as many characters as the first one, and at no others
\* (Checksum.cpp:16-19).
LEMMA SeesTheSame ==
    ASSUME NEW C, NEW s \in Seq(C), NEW k \in 1 .. Ceiling(Len(s), NBYTES)
    PROVE  /\ Remaining(Len(s), NBYTES * (k - 1)) = Remaining(Len(s), 0)
           /\ Remaining(Len(s), 0) \in 1 .. Len(s)
<1>1. Len(s) \in Nat /\ Len(s) # 0
  BY DEF Ceiling, NBYTES
<1>2. (Len(s) - 4 * (k - 1)) % 4 = Len(s) % 4
  BY <1>1 DEF Ceiling, NBYTES
<1>3. Len(s) % 4 \in 0 .. 3 /\ Len(s) % 4 <= Len(s) /\ (Len(s) % 4 = 0 => 4 <= Len(s))
  BY <1>1
<1> QED  BY <1>1, <1>2, <1>3 DEF Remaining, NBYTES

\* Two strings of one length that agree on those characters add the same.
THEOREM AddSeesHead ==
    ASSUME NEW C, NEW s \in Seq(C), NEW t \in Seq(C), Len(s) = Len(t),
           \A i \in (1 .. Remaining(Len(s), 0)) \cap DOMAIN s : s[i] = t[i],
           NEW sum
    PROVE  Add(sum, s) = Add(sum, t)
<1> DEFINE turns == 1 .. Ceiling(Len(s), NBYTES)
<1>1. ASSUME NEW k \in turns
      PROVE  Seen(s, NBYTES * (k - 1)) = Seen(t, NBYTES * (k - 1))
  <2>1. /\ Remaining(Len(s), NBYTES * (k - 1)) = Remaining(Len(s), 0)
        /\ Remaining(Len(s), 0) \in 1 .. Len(s) /\ Len(s) \in Nat
    BY SeesTheSame
  <2>2. ASSUME NEW j \in 0 .. (Remaining(Len(s), 0) - 1)
        PROVE  s[j + 1] = t[j + 1]
    <3>1. j + 1 \in (1 .. Remaining(Len(s), 0)) \cap DOMAIN s
      BY <2>1
    <3> QED  BY <3>1
  <2> QED  BY <2>1, <2>2 DEF Seen
<1>2. [k \in turns |-> Seen(s, NBYTES * (k - 1))] = [k \in turns |-> Seen(t, NBYTES * (k - 1))]
  BY <1>1
<1> QED  BY <1>2 DEF Add

\* The sum after the modulus is one of NBYTES bytes, and sums that are equal
\* after it differ by a multiple of it.
LEMMA ModulusIsEven ==
    /\ Modulus \in Nat \ {0} /\ Modulus % 2 = 0
    /\ 2 * (Modulus \div 2) = Modulus
    /\ Modulus = Byte * (Byte * (Byte * Byte))
<1> USE ChecksumAssumption
<1>1. PICK half \in Nat : Byte = 2 * half
  <2>1. Byte \div 2 \in Nat /\ Byte = 2 * (Byte \div 2)
    OBVIOUS
  <2> QED  BY <2>1
<1>2. Byte * Byte \in Nat \ {0}
  OBVIOUS
<1>3. Byte * (Byte * Byte) \in Nat \ {0}
  BY <1>2
<1>4. Byte * (Byte * (Byte * Byte)) \in Nat \ {0}
  BY <1>3
<1>5. Modulus = Byte * (Byte * (Byte * Byte))
  BY DEF Modulus
<1> DEFINE cube == Byte * (Byte * Byte)
<1>6. /\ cube \in Nat /\ Modulus = (2 * half) * cube
  BY <1>1, <1>3, <1>5
<1> HIDE DEF cube
<1>7. half * cube \in Nat /\ Modulus = 2 * (half * cube)
  BY <1>6
<1>8. ASSUME NEW n \in Nat PROVE (2 * n) % 2 = 0 /\ (2 * n) \div 2 = n
  OBVIOUS
<1>9. Modulus % 2 = 0 /\ Modulus \div 2 = half * cube
  BY <1>7, <1>8
<1> QED  BY <1>4, <1>5, <1>7, <1>9

LEMMA ModulusSplits ==
    ASSUME NEW a \in Int
    PROVE  /\ a % Modulus \in 0 .. (Modulus - 1)
           /\ \E q \in Int : a = q * Modulus + (a % Modulus)
<1> DEFINE M == Modulus
<1>1. M \in Nat \ {0}
  BY ModulusIsEven
<1> HIDE DEF M
<1>2. a % M \in 0 .. (M - 1)
  BY <1>1
<1>3. a \div M \in Int /\ a = (a \div M) * M + (a % M)
  BY <1>1
<1> QED  BY <1>2, <1>3 DEF M

LEMMA SameModulus ==
    ASSUME NEW a \in Int, NEW b \in Int, a % Modulus = b % Modulus
    PROVE  \E q \in Int : a - b = q * Modulus
<1> DEFINE M == Modulus
<1>1. M \in Int
  BY ModulusIsEven
<1>2. PICK p \in Int : a = p * M + (a % M)
  BY ModulusSplits
<1>3. PICK q \in Int : b = q * M + (b % M)
  BY ModulusSplits
<1>4. a % M = b % M /\ a % M \in Int
  BY <1>1, ModulusSplits
<1> HIDE DEF M
<1>5. a - b = (p - q) * M
  BY <1>1, <1>2, <1>3, <1>4
<1> QED  BY <1>5 DEF M

\* A multiple of a number that is nearer to zero than the number is zero.
LEMMA SmallMultiple ==
    ASSUME NEW m \in Nat \ {0}, NEW q \in Int, NEW d \in Int,
           d = q * m, -m < d, d < m
    PROVE  d = 0 /\ q = 0
<1>1. CASE q >= 1
  <2>1. q * m >= m
    BY <1>1
  <2> QED  BY <2>1
<1>2. CASE q <= -1
  <2>1. q * m <= -m
    BY <1>2
  <2> QED  BY <2>1
<1>3. CASE q = 0
  BY <1>3
<1> QED  BY <1>1, <1>2, <1>3

\* Rotating loses nothing (Checksum.cpp:15).
LEMMA RotateKeeps ==
    ASSUME NEW s \in 0 .. (Modulus - 1), NEW t \in 0 .. (Modulus - 1)
    PROVE  /\ RotateRight(s) \in 0 .. (Modulus - 1)
           /\ RotateRight(s) = RotateRight(t) => s = t
<1> DEFINE half == Modulus \div 2
<1>1. half \in Nat /\ Modulus = 2 * half
  BY ModulusIsEven
<1>2. ASSUME NEW r \in 0 .. (Modulus - 1)
      PROVE  /\ r \div 2 \in 0 .. (half - 1) /\ r % 2 \in {0, 1}
             /\ r = 2 * (r \div 2) + (r % 2)
             /\ RotateRight(r) = IF r % 2 = 1 THEN r \div 2 + half ELSE r \div 2
  <2> HIDE DEF half
  <2>1. r \div 2 \in 0 .. (half - 1) /\ r % 2 \in {0, 1} /\ r = 2 * (r \div 2) + (r % 2)
    BY <1>1
  <2>2. RotateRight(r) = r \div 2 + (r % 2) * half
    BY DEF RotateRight, half
  <2> QED  BY <1>1, <2>1, <2>2
<1> HIDE DEF half
<1>3. /\ s \div 2 \in 0 .. (half - 1) /\ s % 2 \in {0, 1}
      /\ s = 2 * (s \div 2) + (s % 2)
      /\ RotateRight(s) = IF s % 2 = 1 THEN s \div 2 + half ELSE s \div 2
  BY <1>2
<1>4. /\ t \div 2 \in 0 .. (half - 1) /\ t % 2 \in {0, 1}
      /\ t = 2 * (t \div 2) + (t % 2)
      /\ RotateRight(t) = IF t % 2 = 1 THEN t \div 2 + half ELSE t \div 2
  BY <1>2
<1> QED  BY <1>1, <1>3, <1>4

\* The first digit of two numbers that differ by a multiple of Byte, and the
\* rest of them.
LEMMA FirstDigit ==
    ASSUME NEW d \in Int, -Byte < d, d < Byte, NEW rest \in Int, NEW n \in Int,
           d + Byte * rest = Byte * n
    PROVE  d = 0 /\ rest = n
<1>1. Byte \in Nat \ {0}
  BY ChecksumAssumption
<1>2. n - rest \in Int /\ d = (n - rest) * Byte
  BY <1>1
<1>3. d = 0 /\ n - rest = 0
  BY <1>1, <1>2, SmallMultiple
<1> QED  BY <1>3

\* A character, or nothing, is a number of a byte's width, whose sign is part
\* of it: two of them differ by less than Byte.
Signed == -(Byte \div 2) .. (Byte \div 2 - 1)

LEMMA SignedDiffer ==
    ASSUME NEW c \in Signed, NEW d \in Signed
    PROVE  /\ c \in Int /\ c - d \in Int
           /\ -Byte < c - d /\ c - d < Byte
<1>1. Byte \div 2 \in Nat /\ Byte = 2 * (Byte \div 2)
  BY ChecksumAssumption
<1> QED  BY <1>1 DEF Signed

LEMMA DigitType ==
    ASSUME NEW p, \A j \in DOMAIN p : p[j] \in Chars, NEW j
    PROVE  Digit(p, j) \in Signed
<1>1. Byte \div 2 \in Nat /\ Byte \div 2 > 0
  BY ChecksumAssumption
<1>2. 0 \in Signed /\ Chars \subseteq Signed
  BY <1>1, ChecksumAssumption DEF Signed
<1> QED  BY <1>2 DEF Digit

\* What a turn adds tells its characters apart, whatever their signs, up to
\* the width of the sum (Checksum.cpp:18-20).
LEMMA ValueTells ==
    ASSUME NEW p, NEW r,
           \A j \in DOMAIN p : p[j] \in Chars, \A j \in DOMAIN r : r[j] \in Chars
    PROVE  /\ Value(p) \in Int
           /\ Value(p) % Modulus = Value(r) % Modulus
                => \A j \in 0 .. 3 : Digit(p, j) = Digit(r, j)
<1> DEFINE x(j) == Digit(p, j)
           y(j) == Digit(r, j)
           d(j) == x(j) - y(j)
<1>1. ASSUME NEW j
      PROVE  /\ x(j) \in Int /\ y(j) \in Int /\ d(j) \in Int
             /\ -Byte < d(j) /\ d(j) < Byte
  <2>1. x(j) \in Signed /\ y(j) \in Signed
    BY DigitType
  <2> QED  BY <2>1, SignedDiffer
<1>2. Byte \in Int
  BY ChecksumAssumption
<1>3. /\ Value(p) = x(0) + Byte * (x(1) + Byte * (x(2) + Byte * x(3)))
      /\ Value(r) = y(0) + Byte * (y(1) + Byte * (y(2) + Byte * y(3)))
  BY DEF Value
<1> HIDE DEF x, y
<1>4. Value(p) \in Int /\ Value(r) \in Int
  <2>1. x(2) + Byte * x(3) \in Int /\ y(2) + Byte * y(3) \in Int
    BY <1>1, <1>2
  <2>2. /\ x(1) + Byte * (x(2) + Byte * x(3)) \in Int
        /\ y(1) + Byte * (y(2) + Byte * y(3)) \in Int
    BY <1>1, <1>2, <2>1
  <2> QED  BY <1>1, <1>2, <1>3, <2>2
<1>5. ASSUME Value(p) % Modulus = Value(r) % Modulus
      PROVE  \A j \in 0 .. 3 : x(j) = y(j)
  <2>1. PICK q \in Int : Value(p) - Value(r) = q * Modulus
    BY <1>4, <1>5, SameModulus
  <2> DEFINE e3 == d(3)
             e2 == d(2) + Byte * e3
             e1 == d(1) + Byte * e2
             e0 == d(0) + Byte * e1
             n2 == q * Byte
             n1 == Byte * n2
             n0 == Byte * n1
  <2>2. /\ e3 \in Int /\ e2 \in Int /\ e1 \in Int /\ e0 \in Int
        /\ n2 \in Int /\ n1 \in Int /\ n0 \in Int
    <3>1. e3 \in Int
      BY <1>1
    <3>2. e2 \in Int
      <4> HIDE DEF e3
      <4> QED  BY <1>1, <1>2, <3>1
    <3>3. e1 \in Int
      <4> HIDE DEF e2
      <4> QED  BY <1>1, <1>2, <3>2
    <3>4. e0 \in Int
      <4> HIDE DEF e1
      <4> QED  BY <1>1, <1>2, <3>3
    <3>5. n2 \in Int
      BY <1>2
    <3>6. n1 \in Int
      <4> HIDE DEF n2
      <4> QED  BY <1>2, <3>5
    <3>7. n0 \in Int
      <4> HIDE DEF n1
      <4> QED  BY <1>2, <3>6
    <3> QED  BY <3>1, <3>2, <3>3, <3>4, <3>5, <3>6, <3>7
  <2>3. e0 = Value(p) - Value(r)
    <3> DEFINE xx == x(2) + Byte * x(3)
               yy == y(2) + Byte * y(3)
    <3>1. e2 = xx - yy /\ xx \in Int /\ yy \in Int
      BY <1>1, <1>2
    <3>2. Value(p) - Value(r) = (x(0) + Byte * (x(1) + Byte * xx)) - (y(0) + Byte * (y(1) + Byte * yy))
      BY <1>3
    <3> HIDE DEF xx, yy, e2
    <3> DEFINE xxx == x(1) + Byte * xx
               yyy == y(1) + Byte * yy
    <3>3. e1 = xxx - yyy /\ xxx \in Int /\ yyy \in Int
      BY <1>1, <1>2, <3>1
    <3>4. Value(p) - Value(r) = (x(0) + Byte * xxx) - (y(0) + Byte * yyy)
      BY <3>2
    <3> HIDE DEF xxx, yyy, e1
    <3> QED  BY <1>1, <1>2, <3>3, <3>4
  <2>4. q * Modulus = Byte * n0
    <3>1. Modulus = Byte * (Byte * (Byte * Byte))
      BY ModulusIsEven
    <3>2. q * (Byte * (Byte * (Byte * Byte))) = Byte * (Byte * (Byte * (q * Byte)))
      BY <1>2
    <3> QED  BY <3>1, <3>2
  <2>5. e0 = Byte * n0
    BY <2>1, <2>3, <2>4
  <2>6. d(0) = 0 /\ e1 = n0
    <3> HIDE DEF d, e1, n0
    <3> QED  BY <1>1, <2>2, <2>5, FirstDigit
  <2>7. d(1) = 0 /\ e2 = n1
    <3> HIDE DEF d, e2, n1
    <3> QED  BY <1>1, <2>2, <2>6, FirstDigit DEF e1, n0
  <2>8. d(2) = 0 /\ e3 = n2
    <3> HIDE DEF d, e3, n2
    <3> QED  BY <1>1, <2>2, <2>7, FirstDigit DEF e2, n1
  <2>9. d(3) = 0
    <3>1. d(3) = q * Byte
      BY <2>8
    <3> HIDE DEF d
    <3>2. Byte \in Nat \ {0}
      BY ChecksumAssumption
    <3> QED  BY <1>1, <3>1, <3>2, SmallMultiple
  <2>10. x(0) = y(0) /\ x(1) = y(1) /\ x(2) = y(2) /\ x(3) = y(3)
    BY <1>1, <2>6, <2>7, <2>8, <2>9
  <2> QED  BY <2>10
<1> QED  BY <1>4, <1>5 DEF x, y

\* A single turn.
LEMMA OneTurn ==
    ASSUME NEW sum, NEW pieces, Len(pieces) = 1
    PROVE  Turns(sum, pieces) = (RotateRight(sum) + Value(pieces[1])) % Modulus
<1> DEFINE Turn(before, k) == (RotateRight(before) + Value(pieces[k])) % Modulus
           Def(f) == f = [k \in 0 .. Len(pieces) |->
                            IF k = 0 THEN sum
                            ELSE (RotateRight(f[k - 1]) + Value(pieces[k])) % Modulus]
           g == [k \in 0 .. 1 |-> IF k = 0 THEN sum ELSE Turn(sum, 1)]
           after == CHOOSE f : Def(f)
<1>1. Turns(sum, pieces) = after[Len(pieces)]
  BY DEF Turns
<1>2. Def(g)
  <2>1. \A k \in 0 .. 1 : g[k] = IF k = 0 THEN sum ELSE Turn(g[k - 1], k)
    <3> HIDE DEF Turn
    <3> QED  OBVIOUS
  <2> QED  BY <2>1
<1>3. Def(after)
  <2> HIDE DEF Def
  <2> QED  BY <1>2
<1>4. after = [k \in 0 .. 1 |-> IF k = 0 THEN sum ELSE Turn(after[k - 1], k)]
  <2> HIDE DEF after
  <2> QED  BY <1>3
<1> HIDE DEF after, Turn
<1>5. after[0] = sum /\ after[1] = Turn(after[0], 1)
  BY <1>4
<1> QED  BY <1>1, <1>5 DEF Turn

\* A length that takes one turn.
LEMMA ShortLength ==
    ASSUME NEW n \in 1 .. 4
    PROVE  Ceiling(n, NBYTES) = 1 /\ Remaining(n, 0) = n
<1>1. CASE n = 1
  BY <1>1 DEF Ceiling, Remaining, NBYTES
<1>2. CASE n = 2
  BY <1>2 DEF Ceiling, Remaining, NBYTES
<1>3. CASE n = 3
  BY <1>3 DEF Ceiling, Remaining, NBYTES
<1>4. CASE n = 4
  BY <1>4 DEF Ceiling, Remaining, NBYTES
<1> QED  BY <1>1, <1>2, <1>3, <1>4

\* A string of one turn (Checksum.cpp:13-22).
LEMMA AddOnce ==
    ASSUME NEW sum, NEW C, NEW s \in Seq(C), Len(s) \in 1 .. 4
    PROVE  Add(sum, s) = (RotateRight(sum) + Value(Seen(s, 0))) % Modulus
<1> DEFINE pieces == [k \in 1 .. Ceiling(Len(s), NBYTES) |-> Seen(s, NBYTES * (k - 1))]
<1>1. Ceiling(Len(s), NBYTES) = 1
  BY ShortLength
<1>2. Len(pieces) = 1 /\ pieces[1] = Seen(s, 0)
  <2>1. pieces = [k \in 1 .. 1 |-> Seen(s, NBYTES * (k - 1))]
    BY <1>1
  <2> HIDE DEF pieces
  <2>2. pieces \in [1 .. 1 -> {pieces[1]}]
    BY <2>1
  <2>3. Len(pieces) = 1
    BY <2>2
  <2>4. pieces[1] = Seen(s, NBYTES * (1 - 1))
    BY <2>1
  <2>5. NBYTES * (1 - 1) = 0
    BY DEF NBYTES
  <2> QED  BY <2>3, <2>4, <2>5
<1> HIDE DEF pieces
<1>3. Turns(sum, pieces) = (RotateRight(sum) + Value(pieces[1])) % Modulus
  BY <1>2, OneTurn
<1> QED  BY <1>2, <1>3 DEF Add, pieces

\* What the turn of so short a string looks at is the string.
LEMMA SeesAll ==
    ASSUME NEW C, NEW s \in Seq(C), Len(s) \in 1 .. 4
    PROVE  /\ DOMAIN Seen(s, 0) = 0 .. (Len(s) - 1)
           /\ \A j \in 0 .. (Len(s) - 1) : Seen(s, 0)[j] = s[j + 1] /\ s[j + 1] \in C
<1>1. Remaining(Len(s), 0) = Len(s)
  BY ShortLength
<1>2. Seen(s, 0) = [j \in 0 .. (Len(s) - 1) |-> s[j + 1]]
  BY <1>1 DEF Seen
<1> QED  BY <1>2

\* Two such strings that add the same to a sum are the same string.
LEMMA AddTells ==
    ASSUME NEW s \in Seq(Chars), NEW t \in Seq(Chars),
           Len(s) = Len(t), Len(s) \in 1 .. 4
    PROVE  /\ Add(0, s) \in 0 .. (Modulus - 1)
           /\ Add(0, s) = Add(0, t) => s = t
<1>1. /\ DOMAIN Seen(s, 0) = 0 .. (Len(s) - 1)
      /\ \A j \in 0 .. (Len(s) - 1) : Seen(s, 0)[j] = s[j + 1] /\ s[j + 1] \in Chars
  BY SeesAll
<1>2. /\ DOMAIN Seen(t, 0) = 0 .. (Len(s) - 1)
      /\ \A j \in 0 .. (Len(s) - 1) : Seen(t, 0)[j] = t[j + 1] /\ t[j + 1] \in Chars
  BY SeesAll
<1>3. /\ \A j \in DOMAIN Seen(s, 0) : Seen(s, 0)[j] \in Chars
      /\ \A j \in DOMAIN Seen(t, 0) : Seen(t, 0)[j] \in Chars
  BY <1>1, <1>2
<1>4. /\ Value(Seen(s, 0)) \in Int
      /\ Value(Seen(s, 0)) % Modulus = Value(Seen(t, 0)) % Modulus
           => \A j \in 0 .. 3 : Digit(Seen(s, 0), j) = Digit(Seen(t, 0), j)
  BY <1>3, ValueTells
<1>5. /\ Add(0, s) = (RotateRight(0) + Value(Seen(s, 0))) % Modulus
      /\ Add(0, t) = (RotateRight(0) + Value(Seen(t, 0))) % Modulus
  BY AddOnce
<1>6. RotateRight(0) = 0
  BY ModulusIsEven DEF RotateRight
<1>7. Value(Seen(t, 0)) \in Int
  BY <1>3, ValueTells
<1>8. /\ Add(0, s) = Value(Seen(s, 0)) % Modulus
      /\ Add(0, t) = Value(Seen(t, 0)) % Modulus
  BY <1>4, <1>5, <1>6, <1>7
<1>9. ASSUME Add(0, s) = Add(0, t) PROVE s = t
  <2>1. \A j \in 0 .. 3 : Digit(Seen(s, 0), j) = Digit(Seen(t, 0), j)
    BY <1>4, <1>8, <1>9
  <2>2. ASSUME NEW i \in 1 .. Len(s) PROVE s[i] = t[i]
    <3>1. i - 1 \in 0 .. 3 /\ i - 1 \in 0 .. (Len(s) - 1) /\ (i - 1) + 1 = i
      OBVIOUS
    <3>2. Digit(Seen(s, 0), i - 1) = s[i] /\ Digit(Seen(t, 0), i - 1) = t[i]
      BY <1>1, <1>2, <3>1 DEF Digit
    <3> QED  BY <2>1, <3>1, <3>2
  <2> QED  BY <2>2, SeqEqual
<1> QED  BY <1>4, <1>8, <1>9, ModulusSplits

\* Sums that differ still do after the turn of a short string
\* (Checksum.cpp:15-20, Folder.cpp:150).
LEMMA AddKeepsApart ==
    ASSUME NEW a \in 0 .. (Modulus - 1), NEW b \in 0 .. (Modulus - 1),
           NEW s \in Seq(Int), Len(s) \in 1 .. 4, Add(a, s) = Add(b, s)
    PROVE  a = b
<1> DEFINE v == Value(Seen(s, 0))
           x == RotateRight(a)
           y == RotateRight(b)
<1>1. v \in Int
  <2> DEFINE d(j) == Digit(Seen(s, 0), j)
  <2>1. ASSUME NEW j PROVE d(j) \in Int
    BY SeesAll DEF Digit
  <2>2. Byte \in Int
    BY ChecksumAssumption
  <2>3. v = d(0) + Byte * (d(1) + Byte * (d(2) + Byte * d(3)))
    BY DEF Value
  <2> HIDE DEF d, v
  <2>4. d(2) + Byte * d(3) \in Int
    BY <2>1, <2>2
  <2>5. d(1) + Byte * (d(2) + Byte * d(3)) \in Int
    BY <2>1, <2>2, <2>4
  <2> QED  BY <2>1, <2>2, <2>3, <2>5
<1>2. /\ x \in 0 .. (Modulus - 1) /\ y \in 0 .. (Modulus - 1)
      /\ x = y => a = b
  BY RotateKeeps
<1>3. (x + v) % Modulus = (y + v) % Modulus
  BY AddOnce
<1> HIDE DEF v, x, y
<1>4. Modulus \in Nat \ {0}
  BY ModulusIsEven
<1>5. x + v \in Int /\ y + v \in Int /\ (x + v) - (y + v) = x - y /\ x - y \in Int
  <2>1. x \in Int /\ y \in Int
    <3> DEFINE top == Modulus - 1
    <3>1. x \in 0 .. top /\ y \in 0 .. top
      BY <1>2
    <3>2. top \in Int
      BY <1>4
    <3> HIDE DEF top
    <3> QED  BY <3>1, <3>2
  <2> QED  BY <1>1, <2>1
<1>6. PICK q \in Int : x - y = q * Modulus
  <2> DEFINE c == x + v
             d == y + v
  <2>1. c \in Int /\ d \in Int /\ c - d = x - y /\ c % Modulus = d % Modulus
    BY <1>3, <1>5
  <2> HIDE DEF c, d
  <2>2. \E q \in Int : c - d = q * Modulus
    BY <2>1, SameModulus
  <2> QED  BY <2>1, <2>2
<1> DEFINE M == Modulus
<1>7. x \in 0 .. (M - 1) /\ y \in 0 .. (M - 1) /\ M \in Nat \ {0}
  BY <1>2, <1>4
<1> HIDE DEF M
<1>8. -M < x - y /\ x - y < M
  BY <1>7
<1>9. x - y = q * M
  BY <1>6 DEF M
<1>10. x - y = 0
  BY <1>5, <1>7, <1>8, <1>9, SmallMultiple
<1>11. x = y
  BY <1>7, <1>10
<1> QED  BY <1>2, <1>11

\* An entry without data (Folder.cpp:131-132).
LEMMA NoData ==
    ASSUME NEW sum, NEW entry, NEW beyond, Ceiling(Len(entry.data), BlockSize) = 0
    PROVE  AddEntry(sum, entry, beyond) = Add(sum, entry.path)
<1> DEFINE Def(f) == f = [k \in 0 .. Ceiling(Len(entry.data), BlockSize) |->
                            IF k = 0 THEN sum
                            ELSE Add(f[k - 1], CString(Block(entry.data, k), beyond))]
           g == [k \in 0 .. 0 |-> sum]
           after == CHOOSE f : Def(f)
<1>1. AddEntry(sum, entry, beyond) = Add(after[0], entry.path)
  BY DEF AddEntry
<1>2. Def(g)
  OBVIOUS
<1>3. Def(after)
  <2> HIDE DEF Def
  <2> QED  BY <1>2
<1>4. after[0] = sum
  <2> HIDE DEF after
  <2> QED  BY <1>3
<1> QED  BY <1>1, <1>4

\* A folder with two entries (Folder.cpp:129).
LEMMA TwoEntries ==
    ASSUME NEW entries, Len(entries) = 2, NEW beyond
    PROVE  GetChecksum(entries, beyond)
             = AddEntry(AddEntry(0, entries[1], beyond), entries[2], beyond)
<1> DEFINE Turn(before, k) == AddEntry(before, entries[k], beyond)
           Def(f) == f = [k \in 0 .. Len(entries) |->
                            IF k = 0 THEN 0 ELSE AddEntry(f[k - 1], entries[k], beyond)]
           g == [k \in 0 .. 2 |-> IF k = 0 THEN 0
                                  ELSE IF k = 1 THEN Turn(0, 1) ELSE Turn(Turn(0, 1), 2)]
           after == CHOOSE f : Def(f)
<1>1. GetChecksum(entries, beyond) = after[Len(entries)]
  BY DEF GetChecksum
<1>2. Def(g)
  <2>1. \A k \in 0 .. 2 : g[k] = IF k = 0 THEN 0 ELSE Turn(g[k - 1], k)
    <3> HIDE DEF Turn
    <3> QED  OBVIOUS
  <2> QED  BY <2>1
<1>3. Def(after)
  <2> HIDE DEF Def
  <2> QED  BY <1>2
<1>4. after = [k \in 0 .. 2 |-> IF k = 0 THEN 0 ELSE Turn(after[k - 1], k)]
  <2> HIDE DEF after
  <2> QED  BY <1>3
<1> HIDE DEF after, Turn
<1>5. after[0] = 0 /\ after[1] = Turn(after[0], 1) /\ after[2] = Turn(after[1], 2)
  BY <1>4
<1> QED  BY <1>1, <1>5 DEF Turn

\* The checksum of a folder with two directories.
LEMMA DirectoriesChecksum ==
    ASSUME NEW name
    PROVE  GetChecksum(TwoDirectories(name), <<>>) = Add(Add(0, name), <<1>>)
<1> DEFINE first  == [path |-> name, data |-> <<>>]
           second == [path |-> <<1>>, data |-> <<>>]
<1>1. Ceiling(Len(<<>>), BlockSize) = 0
  <2>1. BlockSize \in Nat /\ 4 <= BlockSize
    BY ChecksumAssumption DEF NBYTES
  <2>2. (0 + BlockSize - 1) \div BlockSize = 0
    BY <2>1
  <2>3. Len(<<>>) = 0
    OBVIOUS
  <2> QED  BY <2>2, <2>3 DEF Ceiling
<1>2. first.data = <<>> /\ first.path = name
  OBVIOUS
<1>3. second.data = <<>> /\ second.path = <<1>>
  OBVIOUS
<1> HIDE DEF first, second
<1>4. \A sum : AddEntry(sum, first, <<>>) = Add(sum, name)
  BY <1>1, <1>2, NoData
<1>5. \A sum : AddEntry(sum, second, <<>>) = Add(sum, <<1>>)
  BY <1>1, <1>3, NoData
<1>6. TwoDirectories(name) = <<first, second>>
  BY DEF TwoDirectories, first, second
<1>7. /\ Len(<<first, second>>) = 2
      /\ <<first, second>>[1] = first /\ <<first, second>>[2] = second
  OBVIOUS
<1>8. GetChecksum(<<first, second>>, <<>>)
        = AddEntry(AddEntry(0, first, <<>>), second, <<>>)
  BY <1>7, TwoEntries
<1> QED  BY <1>4, <1>5, <1>6, <1>8

-----------------------------------------------------------------------------
(* The properties of the run *)

LEMMA CodecStrings == Spec => [](one \in Seq(Chars) /\ other \in Seq(Chars))
<1> DEFINE Strings == one \in Seq(Chars) /\ other \in Seq(Chars)
<1>1. Init => Strings
  BY DEF Init
<1>2. ASSUME NEW s \in Seq(Chars), NEW t \in Grow(s)
      PROVE  t \in Seq(Chars)
  <2>1. PICK c \in Chars : t = Append(s, c)
    BY <1>2 DEF Grow
  <2> QED  BY <2>1
<1>3. Strings /\ [Next]_vars => Strings'
  <2> SUFFICES ASSUME Strings, [Next]_vars PROVE Strings'
    OBVIOUS
  <2>1. CASE one' \in Grow(one) /\ UNCHANGED other
    BY <1>2, <2>1
  <2>2. CASE other' \in Grow(other) /\ UNCHANGED one
    BY <1>2, <2>2
  <2>3. CASE UNCHANGED vars
    BY <2>3 DEF vars
  <2> QED  BY <2>1, <2>2, <2>3 DEF Next
<1> QED  BY <1>1, <1>3, PTL DEF Spec

\* Each character of a string is coded.
LEMMA TextOf ==
    ASSUME NEW s \in Seq(Chars)
    PROVE  /\ Text(s) \in [1 .. Len(s) -> Char]
           /\ \A i \in 1 .. Len(s) : Text(s)[i] = Code[s[i]]
           /\ Text(s) \in Seq(Char) /\ Len(Text(s)) = Len(s)
<1> USE CodecAssumption
<1>1. Len(s) \in Nat /\ DOMAIN s = 1 .. Len(s)
  OBVIOUS
<1>2. \A i \in 1 .. Len(s) : s[i] \in Chars
  OBVIOUS
<1>3. \A i \in 1 .. Len(s) : Code[s[i]] \in Char
  BY <1>2
<1>4. /\ Text(s) \in [1 .. Len(s) -> Char]
      /\ \A i \in 1 .. Len(s) : Text(s)[i] = Code[s[i]]
  BY <1>1, <1>3 DEF Text
<1>5. Text(s) \in Seq(Char) /\ Len(Text(s)) = Len(s)
  BY <1>1, <1>4
<1> QED  BY <1>4, <1>5

\* A text is its characters.
LEMMA Texts ==
    ASSUME NEW s \in Seq(Chars), NEW t \in Seq(Chars)
    PROVE  /\ Text(s) \in Seq(Char) /\ Len(Text(s)) = Len(s)
           /\ Text(s) = Text(t) <=> s = t
<1>1. Len(s) \in Nat /\ \A i \in 1 .. Len(s) : s[i] \in Chars
  OBVIOUS
<1>2. Len(t) \in Nat /\ \A i \in 1 .. Len(t) : t[i] \in Chars
  OBVIOUS
<1>3. /\ Text(s) \in Seq(Char) /\ Len(Text(s)) = Len(s)
      /\ Text(t) \in Seq(Char) /\ Len(Text(t)) = Len(t)
  BY TextOf
<1>4. ASSUME Text(s) = Text(t) PROVE s = t
  <2>1. Len(s) = Len(t)
    BY <1>3, <1>4
  <2>2. ASSUME NEW i \in 1 .. Len(s) PROVE s[i] = t[i]
    <3>1. Code[s[i]] = Code[t[i]]
      BY <1>4, <2>1, TextOf
    <3> QED  BY <1>1, <1>2, <2>1, <3>1, CodecAssumption
  <2> QED  BY <2>1, <2>2, SeqEqual
<1> QED  BY <1>3, <1>4

\* Whatever the width of a byte, the short names of one length are told apart:
\* no two characters overlap or cancel in the sum, although they are signed and
\* the sum wraps around, and the turn of the next path does not bring two sums
\* together (Checksum.cpp:13-22, Folder.cpp:131-132).
THEOREM ShortNamesAreTold == Spec => []ShortNamesDiffer
<1>1. one \in Seq(Chars) /\ other \in Seq(Chars) => ShortNamesDiffer
  <2> SUFFICES ASSUME one \in Seq(Chars), other \in Seq(Chars),
                      Len(one) = Len(other), Len(one) <= NBYTES,
                      GetChecksum(TwoDirectories(one), <<>>)
                        = GetChecksum(TwoDirectories(other), <<>>)
               PROVE  one = other
    BY DEF ShortNamesDiffer
  <2>1. CASE Len(one) = 0
    <3>1. \A i \in 1 .. Len(one) : one[i] = other[i]
      BY <2>1
    <3> QED  BY <3>1, SeqEqual
  <2>2. CASE Len(one) # 0
    <3>1. Len(one) \in 1 .. 4
      BY <2>2 DEF NBYTES
    <3>2. Add(Add(0, one), <<1>>) = Add(Add(0, other), <<1>>)
      BY DirectoriesChecksum
    <3>3. <<1>> \in Seq(Int) /\ Len(<<1>>) \in 1 .. 4
      OBVIOUS
    <3>4. /\ Add(0, one) \in 0 .. (Modulus - 1)
          /\ Add(0, other) \in 0 .. (Modulus - 1)
      BY <3>1, AddTells
    <3>5. Add(0, one) = Add(0, other)
      BY <3>2, <3>3, <3>4, AddKeepsApart
    <3> QED  BY <3>1, <3>5, AddTells
  <2> QED  BY <2>1, <2>2
<1> QED  BY <1>1, CodecStrings, PTL

\* Whatever the key, a row lets in the password it encrypts and no other one,
\* unless one of its characters equals the key's (AuthManager.cpp:15-18).
THEOREM PasswordIsOwn == Spec => []OwnPasswordOnly
<1>1. one \in Seq(Chars) /\ other \in Seq(Chars) => OwnPasswordOnly
  BY Texts, AcceptsUpToKeys DEF OwnPasswordOnly
<1> QED  BY <1>1, CodecStrings, PTL

\* The server parses what the client put together, for a user's name without
\* an underscore (Client.cpp:87, Server.cpp:192-196).
THEOREM LoginArrives == Spec => []ParsedAsSent
<1>1. one \in Seq(Chars) /\ other \in Seq(Chars) => ParsedAsSent
  <2> SUFFICES ASSUME one \in Seq(Chars), other \in Seq(Chars),
                      \A i \in DOMAIN one : Text(one)[i] # Underscore
               PROVE  ParseLogin(LoginMessage(Text(one), Text(other)))
                        = [user |-> Text(one), pass |-> Text(other)]
    BY DEF ParsedAsSent
  <2>1. \A i \in 1 .. Len(Text(one)) : Text(one)[i] # Underscore
    BY Texts
  <2> QED  BY <2>1, Texts, LoginIsParsedAsSent
<1> QED  BY <1>1, CodecStrings, PTL

\* What is sent of a path below the folder is its relative name, but for the
\* first character when the folder was given with a slash at its end
\* (Folder.cpp:177).
THEOREM NameIsRelative == Spec => []SentUnderItsName
<1>1. one \in Seq(Chars) /\ other \in Seq(Chars) => SentUnderItsName
  BY RelativeAgain, CodecAssumption DEF SentUnderItsName
<1> QED  BY <1>1, CodecStrings, PTL
=============================================================================
