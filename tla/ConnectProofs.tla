--------------------------- MODULE ConnectProofs ---------------------------
(***************************************************************************)
(* Proofs about ProxyConfig::connect, for replies of any length, cut into  *)
(* segments anyhow, and a BufReader of any capacity.                       *)
(***************************************************************************)
EXTENDS ProxyConnect, WellFoundedInduction, TLAPS

-----------------------------------------------------------------------------
(* SOCKS5: what was said and how much was read.                            *)

\* The server's choice of a method is satisfied; so it was when the request
\* was written.
NoAuth == method = Socks5!METHOD_NO_AUTH /\ status = Socks5!Unread
Authenticated == has_auth /\ method = Socks5!METHOD_USER_PASS /\ status = Socks5!SUCCESS
Authenticating == has_auth /\ method = Socks5!METHOD_USER_PASS /\ status = Socks5!Unread

Satisfied ==
  \/ wrote = <<"greeting">> /\ NoAuth
  \/ wrote = <<"greeting", "credentials">> /\ Authenticated

Requested ==
  \/ wrote = <<"greeting", "request">> /\ NoAuth
  \/ wrote = <<"greeting", "credentials", "request">> /\ Authenticated

\* What has been written where connect stands.
Spoken ==
  /\ pc \in {"dial", "greet", "method", "credentials", "status", "request",
             "header", "namelen", "address", "ok", "err"}
  /\ pc \in {"dial", "greet", "method"} => method = Socks5!Unread /\ status = Socks5!Unread
  /\ pc \in {"dial", "greet"} => wrote = <<>>
  /\ pc = "method" => wrote = <<"greeting">>
  /\ pc = "credentials" => wrote = <<"greeting">> /\ Authenticating
  /\ pc = "status" => wrote = <<"greeting", "credentials">> /\ Authenticating
  /\ pc = "request" => Satisfied
  /\ pc \in {"header", "namelen", "address", "ok"} => Requested
  /\ MessagesInOrder

\* The bytes of the method's choice and of the authentication, and whether the
\* reply gives the length of its address.
Choice == 2 + (IF method = Socks5!METHOD_USER_PASS THEN 2 ELSE 0)
Complete ==
  /\ rep = Socks5!SUCCESS
  /\ atyp \in {Socks5!ATYP_IPV4, Socks5!ATYP_DOMAIN, Socks5!ATYP_IPV6}
  /\ Socks5!Known

\* How many bytes read_exact has taken where connect stands.
Measured ==
  /\ sent \in Nat /\ read \in Nat /\ read <= sent /\ namelen \in Nat
  /\ pc \in {"dial", "greet", "method"} => read = 0
  /\ pc \in {"credentials", "status"} => read = 2
  /\ pc \in {"request", "header"} => read = Choice
  /\ pc \in {"dial", "greet", "method", "credentials", "status", "request", "header"} =>
       rep = Socks5!Unread /\ namelen = Socks5!Unread
  /\ pc = "namelen" => /\ read = Choice + 4 /\ rep = Socks5!SUCCESS
                       /\ atyp = Socks5!ATYP_DOMAIN /\ namelen = Socks5!Unread
  /\ pc = "address" => Complete /\ read + Socks5!AddressLength = Socks5!HandshakeLength
  /\ pc = "ok" => Complete /\ read = Socks5!HandshakeLength

LEMMA Appended ==
  ASSUME NEW S, NEW s \in Seq(S), NEW x \in S, NEW t \in Seq(S), Len(t) = Len(s) + 1,
         \A i \in 1 .. Len(s) : t[i] = s[i], t[Len(s) + 1] = x
  PROVE  t = Append(s, x)
<1>1. Append(s, x) \in Seq(S) /\ Len(Append(s, x)) = Len(s) + 1 /\ Len(s) \in Nat
  OBVIOUS
<1>2. \A i \in 1 .. Len(s) + 1 : t[i] = Append(s, x)[i]
  OBVIOUS
<1> QED
  BY <1>1, <1>2

\* The messages of a handshake, and what MessagesInOrder says of each.
LEMMA Messages ==
  /\ Append(<<>>, "greeting") = <<"greeting">>
  /\ Append(<<"greeting">>, "credentials") = <<"greeting", "credentials">>
  /\ Append(<<"greeting">>, "request") = <<"greeting", "request">>
  /\ Append(<<"greeting", "credentials">>, "request") = <<"greeting", "credentials", "request">>
<1>1. Append(<<>>, "greeting") = <<"greeting">>
  OBVIOUS
<1>2. ASSUME NEW a, NEW b PROVE Append(<<a>>, b) = <<a, b>>
  <2> DEFINE s == <<a>>
             t == <<a, b>>
             S == {a, b}
  <2>1. s \in Seq(S) /\ Len(s) = 1 /\ s[1] = a
    OBVIOUS
  <2>2. t \in Seq(S) /\ Len(t) = 2 /\ t[1] = a /\ t[2] = b /\ b \in S
    OBVIOUS
  <2> HIDE DEF s, t, S
  <2>3. \A i \in 1 .. Len(s) : t[i] = s[i]
    BY <2>1, <2>2
  <2>4. Len(t) = Len(s) + 1 /\ t[Len(s) + 1] = b
    BY <2>1, <2>2
  <2>5. t = Append(s, b)
    BY <2>1, <2>2, <2>3, <2>4, Appended, Zenon
  <2> QED
    BY <2>5, Zenon DEF s, t
<1>3. ASSUME NEW a, NEW b, NEW c PROVE Append(<<a, b>>, c) = <<a, b, c>>
  <2> DEFINE s == <<a, b>>
             t == <<a, b, c>>
             S == {a, b, c}
  <2>1. s \in Seq(S) /\ Len(s) = 2 /\ s[1] = a /\ s[2] = b
    OBVIOUS
  <2>2. t \in Seq(S) /\ Len(t) = 3 /\ t[1] = a /\ t[2] = b /\ t[3] = c /\ c \in S
    OBVIOUS
  <2> HIDE DEF s, t, S
  <2>3. \A i \in 1 .. Len(s) : t[i] = s[i]
    BY <2>1, <2>2
  <2>4. Len(t) = Len(s) + 1 /\ t[Len(s) + 1] = c
    BY <2>1, <2>2
  <2>5. t = Append(s, c)
    BY <2>1, <2>2, <2>3, <2>4, Appended, Zenon
  <2> QED
    BY <2>5, Zenon DEF s, t
<1> QED
  BY <1>1, <1>2, <1>3, Zenon

ByMessages ==
  /\ wrote = <<>> => MessagesInOrder
  /\ wrote = <<"greeting">> => MessagesInOrder
  /\ wrote = <<"greeting", "credentials">> /\ (Authenticating \/ Authenticated) => MessagesInOrder
  /\ Requested => MessagesInOrder

LEMMA InOrder == ByMessages
<1> USE DEF MessagesInOrder, Socks5!MessagesInOrder
<1>1. wrote = <<>> => MessagesInOrder
  OBVIOUS
<1>2. wrote = <<"greeting">> => MessagesInOrder
  OBVIOUS
<1>3. wrote = <<"greeting", "credentials">> /\ has_auth /\ method = Socks5!METHOD_USER_PASS => MessagesInOrder
  OBVIOUS
<1>4. wrote = <<"greeting", "request">> /\ NoAuth => MessagesInOrder
  BY DEF NoAuth
<1>5. wrote = <<"greeting", "credentials", "request">> /\ Authenticated => MessagesInOrder
  BY DEF Authenticated
<1> QED
  BY <1>1, <1>2, <1>3, <1>4, <1>5, Zenon DEF ByMessages, Requested, Authenticating, Authenticated

-----------------------------------------------------------------------------
(* Places and prefixes.                                                    *)

LEMMA SameSeq ==
  ASSUME NEW S, NEW s \in Seq(S), NEW t \in Seq(S), Len(s) = Len(t), \A i \in 1 .. Len(s) : s[i] = t[i]
  PROVE  s = t
OBVIOUS

LEMMA Place ==
  ASSUME NEW a \in Nat, NEW n \in Nat, a <= n
  PROVE  /\ Socks5!Places(a, n) = Http!Places(a, n)
         /\ Http!Places(a, n) \in Seq(Nat) /\ Len(Http!Places(a, n)) = n - a
         /\ \A i \in 1 .. n - a : Http!Places(a, n)[i] = a + i
<1>1. n - a \in Nat
  OBVIOUS
<1>2. Http!Places(a, n) \in [1 .. n - a -> Nat]
  BY DEF Http!Places
<1>3. Http!Places(a, n) \in Seq(Nat) /\ Len(Http!Places(a, n)) = n - a
  BY <1>1, <1>2
<1> QED
  BY <1>3 DEF Http!Places, Socks5!Places

LEMMA NoPlace == ASSUME NEW a \in Nat PROVE Http!Places(a, a) = <<>> /\ Socks5!Places(a, a) = <<>>
<1>1. Http!Places(a, a) \in Seq(Nat) /\ Len(Http!Places(a, a)) = a - a /\ Socks5!Places(a, a) = Http!Places(a, a)
  BY Place
<1> QED
  BY <1>1

\* The places up to one end, then those up to a later one.
LEMMA PlacesJoined ==
  ASSUME NEW a \in Nat, NEW n \in Nat, NEW m \in Nat, a <= n, n <= m
  PROVE  Http!Places(a, n) \o Http!Places(n, m) = Http!Places(a, m)
<1> DEFINE s == Http!Places(a, n)
           t == Http!Places(n, m)
           u == Http!Places(a, m)
<1>1. /\ s \in Seq(Nat) /\ Len(s) = n - a /\ \A i \in 1 .. n - a : s[i] = a + i
      /\ t \in Seq(Nat) /\ Len(t) = m - n /\ \A i \in 1 .. m - n : t[i] = n + i
      /\ u \in Seq(Nat) /\ Len(u) = m - a /\ \A i \in 1 .. m - a : u[i] = a + i
  <2>1. a <= m
    OBVIOUS
  <2> QED
    BY <2>1, Place, Zenon
<1> HIDE DEF s, t, u
<1>2. s \o t \in Seq(Nat) /\ Len(s \o t) = m - a
  BY <1>1
<1>3. ASSUME NEW i \in 1 .. m - a PROVE (s \o t)[i] = u[i]
  <2>1. CASE i <= n - a
    BY <1>1, <2>1
  <2>2. CASE ~(i <= n - a)
    <3>1. PICK j \in 1 .. m - n : j = i - (n - a)
      BY <2>2
    <3>2. i = Len(s) + j /\ n + j = a + i /\ j \in 1 .. Len(t)
      BY <1>1, <3>1
    <3>3. (s \o t)[Len(s) + j] = t[j]
      <4>1. \A l \in 1 .. Len(t) : (s \o t)[Len(s) + l] = t[l]
        <5>1. s \in Seq(Nat) /\ t \in Seq(Nat)
          BY <1>1
        <5> QED
          BY <5>1
      <4> QED
        BY <3>2, <4>1, Zenon
    <3>4. t[j] = n + j /\ u[i] = a + i
      BY <1>1, Zenon
    <3> QED
      BY <3>2, <3>3, <3>4
  <2> QED
    BY <2>1, <2>2, Zenon
<1> QED
  BY <1>1, <1>2, <1>3, SameSeq, Zenon DEF s, t, u

LEMMA EmptyPrefix ==
  ASSUME NEW S, NEW t \in Seq(S)
  PROVE  Task!IsPrefix(<<>>, t)
<1>1. Len(<<>>) = 0 /\ Len(t) \in Nat /\ <<>> \in Seq(S)
  OBVIOUS
<1> QED
  BY <1>1 DEF Task!IsPrefix

LEMMA SelfPrefix ==
  ASSUME NEW t
  PROVE  Len(t) \in Int => Task!IsPrefix(t, t)
BY DEF Task!IsPrefix

LEMMA PlacesPrefix ==
  ASSUME NEW a \in Nat, NEW n \in Nat, NEW m \in Nat, a <= n, n <= m
  PROVE  Task!IsPrefix(Http!Places(a, n), Http!Places(a, m))
<1> DEFINE s == Http!Places(a, n)
           u == Http!Places(a, m)
           k == n - a
<1>1. /\ s \in Seq(Nat) /\ Len(s) = k /\ \A i \in 1 .. k : s[i] = a + i
      /\ u \in Seq(Nat) /\ Len(u) = m - a /\ \A i \in 1 .. m - a : u[i] = a + i
  <2>1. a <= m
    OBVIOUS
  <2> QED
    BY <2>1, Place, Zenon
<1>2. k \in Nat /\ k <= m - a
  OBVIOUS
<1> HIDE DEF s, u, k
<1>3. Task!IsPrefix(s, u)
  BY <1>1, <1>2 DEF Task!IsPrefix
<1> QED
  BY <1>3 DEF s, u

-----------------------------------------------------------------------------
(* The steps of the SOCKS5 connector.                                      *)

\* Where nothing was written and no field of the negotiation read, connect may
\* end, or stay; so does the timeout, and the server.
LEMMA SpokenKept ==
  ASSUME Spoken, pc' \in {pc, "err"}, UNCHANGED <<has_auth, wrote, method, status>>
  PROVE  Spoken'
<1>1. MessagesInOrder'
  BY DEF Spoken, MessagesInOrder, Socks5!MessagesInOrder, Socks5!METHOD_USER_PASS,
         Socks5!METHOD_NO_AUTH, Socks5!Unread, Socks5!SUCCESS
<1>2. CASE pc' = "err"
  BY <1>1, <1>2 DEF Spoken
<1>3. CASE pc' = pc
  BY <1>1, <1>3 DEF Spoken, Satisfied, Requested, NoAuth, Authenticated, Authenticating,
         Socks5!METHOD_USER_PASS, Socks5!METHOD_NO_AUTH, Socks5!Unread, Socks5!SUCCESS
<1> QED
  BY <1>2, <1>3

\* A message behind those that went before it.
LEMMA SpokenOnWrite ==
  ASSUME Spoken, UNCHANGED <<has_auth, method, status>>,
         \/ /\ pc = "greet" /\ pc' = "method" /\ wrote' = Append(wrote, "greeting")
         \/ /\ pc = "credentials" /\ pc' = "status" /\ wrote' = Append(wrote, "credentials")
         \/ /\ pc = "request" /\ pc' = "header" /\ wrote' = Append(wrote, "request")
  PROVE  Spoken'
<1> USE DEF Socks5!METHOD_USER_PASS, Socks5!METHOD_NO_AUTH, Socks5!Unread, Socks5!SUCCESS
<1>0. ByMessages'
  BY InOrder, PTL
<1>1. CASE pc = "greet"
  <2>1. wrote' = <<"greeting">> /\ pc' = "method" /\ method' = Socks5!Unread /\ status' = Socks5!Unread
    BY <1>1, Messages DEF Spoken
  <2> QED
    BY <1>0, <2>1 DEF Spoken, ByMessages
<1>2. CASE pc = "credentials"
  <2>1. wrote' = <<"greeting", "credentials">> /\ pc' = "status" /\ Authenticating'
    BY <1>2, Messages DEF Spoken, Authenticating
  <2> QED
    BY <1>0, <2>1 DEF Spoken, ByMessages
<1>3. CASE pc = "request"
  <2>1. pc' = "header" /\ Requested'
    BY <1>3, Messages, Zenon DEF Spoken, Satisfied, Requested, NoAuth, Authenticated
  <2> QED
    BY <1>0, <2>1 DEF Spoken, ByMessages
<1> QED
  BY <1>1, <1>2, <1>3

LEMMA SpokenStep ==
  ASSUME Spoken, Socks5!Next
  PROVE  Spoken'
<1> USE DEF Socks5!METHOD_USER_PASS, Socks5!METHOD_NO_AUTH, Socks5!Unread, Socks5!SUCCESS
<1>0. ByMessages'
  BY InOrder, PTL
<1>1. CASE Socks5!Server \/ Socks5!ReadFails
  BY <1>1, SpokenKept
     DEF Socks5!Server, Socks5!ServerSends, Socks5!ServerEnds, Socks5!ReadFails, Socks5!given, Socks5!fields
<1>2. CASE Socks5!Dial
  <2>1. pc = "dial" /\ pc' \in {"greet", "err"} /\ UNCHANGED <<has_auth, wrote, method, status>>
    BY <1>2 DEF Socks5!Dial, Socks5!given, Socks5!fields
  <2> QED
    BY <1>0, <2>1 DEF Spoken, ByMessages
<1>3. CASE Socks5!WriteGreeting \/ Socks5!WriteCredentials \/ Socks5!WriteRequest
  <2>1. /\ UNCHANGED <<has_auth, method, status>>
        /\ \/ /\ pc = "greet" /\ pc' = "method" /\ wrote' = Append(wrote, "greeting")
           \/ /\ pc = "credentials" /\ pc' = "status" /\ wrote' = Append(wrote, "credentials")
           \/ /\ pc = "request" /\ pc' = "header" /\ wrote' = Append(wrote, "request")
           \/ pc' = "err" /\ UNCHANGED wrote
    BY <1>3, Zenon DEF Socks5!WriteGreeting, Socks5!WriteCredentials, Socks5!WriteRequest, Socks5!Write,
                Socks5!given, Socks5!fields
  <2>2. CASE pc' = "err" /\ UNCHANGED wrote
    BY <2>1, <2>2, SpokenKept
  <2> QED
    BY <2>1, <2>2, SpokenOnWrite
<1>4. CASE Socks5!ReadMethod
  <2>1. /\ pc = "method" /\ UNCHANGED <<has_auth, wrote, status>>
        /\ \/ pc' = "err"
           \/ method' = Socks5!METHOD_NO_AUTH /\ pc' = "request"
           \/ method' = Socks5!METHOD_USER_PASS /\ has_auth /\ pc' = "credentials"
    BY <1>4 DEF Socks5!ReadMethod, Socks5!ReadExact, Socks5!MethodAccepted, Socks5!AfterMethod, Socks5!given
  <2>2. wrote' = <<"greeting">> /\ status' = Socks5!Unread
    BY <2>1 DEF Spoken
  <2> QED
    BY <1>0, <2>1, <2>2 DEF Spoken, ByMessages, Satisfied, NoAuth, Authenticating
<1>5. CASE Socks5!ReadStatus
  <2>1. /\ pc = "status" /\ UNCHANGED <<has_auth, wrote, method>>
        /\ pc' = "err" \/ (status' = Socks5!SUCCESS /\ pc' = "request")
    BY <1>5 DEF Socks5!ReadStatus, Socks5!ReadExact, Socks5!given
  <2>2. wrote' = <<"greeting", "credentials">> /\ has_auth' /\ method' = Socks5!METHOD_USER_PASS
    BY <2>1 DEF Spoken, Authenticating
  <2>3. MessagesInOrder'
    BY <2>2 DEF MessagesInOrder, Socks5!MessagesInOrder
  <2> QED
    BY <2>1, <2>2, <2>3 DEF Spoken, Satisfied, Authenticated
<1>6. CASE Socks5!ReadHeader \/ Socks5!ReadNameLength \/ Socks5!ReadAddress
  <2>1. /\ pc \in {"header", "namelen", "address"} /\ pc' \in {"namelen", "address", "ok", "err"}
        /\ UNCHANGED <<has_auth, wrote, method, status>>
    BY <1>6 DEF Socks5!ReadHeader, Socks5!ReadNameLength, Socks5!ReadAddress, Socks5!ReadExact,
                Socks5!given, Socks5!fields
  <2>2. Requested'
    BY <2>1 DEF Spoken, Requested, NoAuth, Authenticated
  <2> QED
    BY <1>0, <2>1, <2>2 DEF Spoken, ByMessages
<1> QED
  BY <1>1, <1>2, <1>3, <1>4, <1>5, <1>6 DEF Socks5!Next, Socks5!Connect

\* The length of a handshake is a number, and what connect knows of it stays
\* while no field is read.
NameCounted == namelen \in Nat

LengthsAdd ==
  /\ Choice \in Nat /\ Socks5!HandshakeLength \in Nat
  /\ Complete => /\ Socks5!AddressLength \in Nat
                 /\ Socks5!HandshakeLength =
                      Choice + 4 + (IF atyp = Socks5!ATYP_DOMAIN THEN 1 ELSE 0) + Socks5!AddressLength

LEMMA Lengths == NameCounted => LengthsAdd
<1> SUFFICES ASSUME namelen \in Nat PROVE LengthsAdd
  BY DEF NameCounted
<1> USE DEF Socks5!ATYP_IPV4, Socks5!ATYP_IPV6, Socks5!ATYP_DOMAIN, Socks5!METHOD_USER_PASS
<1>1. Choice \in Nat /\ Socks5!HandshakeLength \in Nat
  BY DEF Choice, Socks5!HandshakeLength
<1>2. CASE atyp = Socks5!ATYP_IPV4
  BY <1>1, <1>2 DEF LengthsAdd, Choice, Socks5!HandshakeLength, Socks5!AddressLength
<1>3. CASE atyp = Socks5!ATYP_IPV6
  BY <1>1, <1>3 DEF LengthsAdd, Choice, Socks5!HandshakeLength, Socks5!AddressLength
<1>4. CASE atyp = Socks5!ATYP_DOMAIN
  BY <1>1, <1>4 DEF LengthsAdd, Choice, Socks5!HandshakeLength, Socks5!AddressLength
<1> QED
  BY <1>1, <1>2, <1>3, <1>4 DEF Complete, LengthsAdd

Fields == <<method, rep, atyp, namelen>>

LEMMA LengthsKept ==
  ASSUME UNCHANGED Fields
  PROVE  /\ Choice' = Choice /\ Socks5!HandshakeLength' = Socks5!HandshakeLength
         /\ Socks5!AddressLength' = Socks5!AddressLength /\ Complete' = Complete
BY DEF Fields, Choice, Complete, Socks5!HandshakeLength, Socks5!AddressLength, Socks5!Known,
       Socks5!METHOD_USER_PASS, Socks5!SUCCESS, Socks5!Unread,
       Socks5!ATYP_IPV4, Socks5!ATYP_IPV6, Socks5!ATYP_DOMAIN

LEMMA MeasuredKept ==
  ASSUME Measured, pc' \in {pc, "err"}, UNCHANGED <<Fields, read>>, sent' \in {sent, sent + 1}
  PROVE  Measured'
<1>1. UNCHANGED <<method, rep, atyp, namelen, read>>
  BY DEF Fields
<1>2. /\ Choice' = Choice /\ Socks5!HandshakeLength' = Socks5!HandshakeLength
      /\ Socks5!AddressLength' = Socks5!AddressLength /\ Complete' = Complete
  BY LengthsKept
<1>3. sent' \in Nat /\ read' \in Nat /\ read' <= sent' /\ namelen' \in Nat
  BY <1>1 DEF Measured
<1>4. CASE pc' = "err"
  BY <1>3, <1>4 DEF Measured
<1>5. CASE pc' = pc
  BY <1>1, <1>2, <1>3, <1>5 DEF Measured, Socks5!Unread, Socks5!SUCCESS, Socks5!ATYP_DOMAIN
<1> QED
  BY <1>4, <1>5

LEMMA MeasuredOnWrite ==
  ASSUME Measured, UNCHANGED <<Fields, read, sent>>,
         \/ pc = "dial" /\ pc' = "greet"
         \/ pc = "greet" /\ pc' = "method"
         \/ pc = "credentials" /\ pc' = "status"
         \/ pc = "request" /\ pc' = "header"
  PROVE  Measured'
<1>1. UNCHANGED <<method, rep, atyp, namelen, read, sent>> /\ Choice' = Choice
  BY LengthsKept DEF Fields
<1> QED
  BY <1>1 DEF Measured, Socks5!Unread

LEMMA MeasuredOnRead ==
  ASSUME Spoken, Measured,
         \/ Socks5!ReadMethod \/ Socks5!ReadStatus \/ Socks5!ReadHeader
         \/ Socks5!ReadNameLength \/ Socks5!ReadAddress
  PROVE  Measured'
<1> USE DEF Socks5!Unread, Socks5!SUCCESS
<1>1. CASE Socks5!ReadMethod
  <2>1. /\ pc = "method" /\ sent - read >= 2 /\ read' = read + 2
        /\ pc' = "err" \/ pc' = "credentials" \/ (pc' = "request" /\ method' # Socks5!METHOD_USER_PASS)
        /\ UNCHANGED <<sent, rep, namelen>>
    BY <1>1 DEF Socks5!ReadMethod, Socks5!ReadExact, Socks5!MethodAccepted, Socks5!AfterMethod, Socks5!given
  <2>2. read' = 2 /\ read' <= sent' /\ sent' \in Nat /\ namelen' \in Nat
        /\ rep' = Socks5!Unread /\ namelen' = Socks5!Unread
    BY <2>1 DEF Measured
  <2>3. method' # Socks5!METHOD_USER_PASS => Choice' = 2
    BY DEF Choice, Socks5!METHOD_USER_PASS
  <2> QED
    BY <2>1, <2>2, <2>3 DEF Measured
<1>2. CASE Socks5!ReadStatus
  <2>1. /\ pc = "status" /\ sent - read >= 2 /\ read' = read + 2
        /\ pc' \in {"err", "request"}
        /\ UNCHANGED <<sent, method, rep, namelen>>
    BY <1>2 DEF Socks5!ReadStatus, Socks5!ReadExact
  <2>2. read' = 4 /\ read' <= sent' /\ sent' \in Nat /\ namelen' \in Nat
        /\ rep' = Socks5!Unread /\ namelen' = Socks5!Unread
    BY <2>1 DEF Measured
  <2>3. Choice' = 4
    BY <2>1 DEF Choice, Spoken, Authenticating, Socks5!METHOD_USER_PASS
  <2> QED
    BY <2>1, <2>2, <2>3 DEF Measured
<1>3. CASE Socks5!ReadHeader
  <2>1. /\ pc = "header" /\ sent - read >= 4 /\ read' = read + 4
        /\ \/ pc' = "err"
           \/ pc' = "namelen" /\ rep' = Socks5!SUCCESS /\ atyp' = Socks5!ATYP_DOMAIN
           \/ pc' = "address" /\ rep' = Socks5!SUCCESS /\ atyp' \in {Socks5!ATYP_IPV4, Socks5!ATYP_IPV6}
        /\ UNCHANGED <<sent, method, namelen>>
    BY <1>3 DEF Socks5!ReadHeader, Socks5!ReadExact
  <2>2. /\ namelen \in Nat /\ namelen' = Socks5!Unread /\ namelen' \in Nat /\ sent' \in Nat
        /\ read = Choice /\ read \in Nat
    BY <2>1 DEF Measured
  <2>3. LengthsAdd /\ LengthsAdd'
    <3>1. NameCounted /\ NameCounted'
      BY <2>2 DEF NameCounted
    <3> QED
      BY <3>1, Lengths, PTL
  <2>4. Choice' = Choice
    BY <2>1 DEF Choice, Socks5!METHOD_USER_PASS
  <2>5. read' = Choice' + 4 /\ read' \in Nat /\ read' <= sent'
    BY <2>1, <2>2, <2>4 DEF Measured
  <2>6. ASSUME pc' = "address" PROVE Complete' /\ read' + Socks5!AddressLength' = Socks5!HandshakeLength'
    <3>1. atyp' \in {Socks5!ATYP_IPV4, Socks5!ATYP_IPV6} /\ rep' = Socks5!SUCCESS
      BY <2>1, <2>6
    <3>2. Complete' /\ atyp' # Socks5!ATYP_DOMAIN
      BY <3>1 DEF Complete, Socks5!Known, Socks5!ATYP_IPV4, Socks5!ATYP_IPV6, Socks5!ATYP_DOMAIN
    <3> QED
      BY <2>2, <2>3, <2>4, <2>5, <3>2 DEF LengthsAdd, Socks5!ATYP_DOMAIN
  <2> QED
    BY <2>1, <2>2, <2>5, <2>6 DEF Measured
<1>4. CASE Socks5!ReadNameLength
  <2>1. /\ pc = "namelen" /\ sent - read >= 1 /\ read' = read + 1
        /\ namelen' \in 0 .. MaxName /\ pc' = "address"
        /\ UNCHANGED <<sent, method, rep, atyp>>
    BY <1>4 DEF Socks5!ReadNameLength, Socks5!ReadExact
  <2>2. /\ namelen' \in Nat /\ namelen' # Socks5!Unread /\ sent' \in Nat
        /\ rep' = Socks5!SUCCESS /\ atyp' = Socks5!ATYP_DOMAIN /\ read = Choice + 4 /\ read \in Nat
    BY <2>1, ConnectAssumption DEF Measured
  <2>3. LengthsAdd'
    <3>1. NameCounted'
      BY <2>2 DEF NameCounted
    <3> QED
      BY <3>1, Lengths, PTL
  <2>4. Choice' = Choice
    BY <2>1 DEF Choice, Socks5!METHOD_USER_PASS
  <2>5. Complete'
    BY <2>2 DEF Complete, Socks5!Known, Socks5!ATYP_DOMAIN
  <2>6. read' + Socks5!AddressLength' = Socks5!HandshakeLength'
    BY <2>1, <2>2, <2>3, <2>4, <2>5 DEF LengthsAdd, Socks5!ATYP_DOMAIN
  <2>7. read' \in Nat /\ read' <= sent'
    BY <2>1, <2>2 DEF Measured
  <2> QED
    BY <2>1, <2>2, <2>5, <2>6, <2>7 DEF Measured
<1>5. CASE Socks5!ReadAddress
  <2>1. /\ pc = "address" /\ sent - read >= Socks5!AddressLength /\ read' = read + Socks5!AddressLength
        /\ pc' = "ok" /\ UNCHANGED <<sent, Fields>>
    BY <1>5 DEF Socks5!ReadAddress, Socks5!ReadExact, Fields, Socks5!fields
  <2>2. /\ Socks5!HandshakeLength' = Socks5!HandshakeLength /\ Complete' = Complete
        /\ namelen' = namelen
    BY <2>1, LengthsKept DEF Fields
  <2>3. LengthsAdd /\ Complete
    BY <2>1, Lengths DEF Measured, NameCounted
  <2>4. read' = Socks5!HandshakeLength' /\ read' \in Nat /\ read' <= sent'
    BY <2>1, <2>2, <2>3 DEF Measured, LengthsAdd
  <2> QED
    BY <2>1, <2>2, <2>3, <2>4 DEF Measured
<1> QED
  BY <1>1, <1>2, <1>3, <1>4, <1>5

LEMMA MeasuredStep ==
  ASSUME Spoken, Measured, Socks5!Next
  PROVE  Measured'
<1>1. CASE Socks5!Server \/ Socks5!ReadFails
  <2>1. pc' \in {pc, "err"} /\ UNCHANGED <<Fields, read>> /\ sent' \in {sent, sent + 1}
    BY <1>1, Zenon DEF Socks5!Server, Socks5!ServerSends, Socks5!ServerEnds, Socks5!ReadFails,
                Socks5!fields, Fields
  <2> QED
    BY <2>1, MeasuredKept
<1>2. CASE Socks5!Dial \/ Socks5!WriteGreeting \/ Socks5!WriteCredentials \/ Socks5!WriteRequest
  <2>1. /\ UNCHANGED <<Fields, read, sent>>
        /\ \/ pc = "dial" /\ pc' = "greet"
           \/ pc = "greet" /\ pc' = "method"
           \/ pc = "credentials" /\ pc' = "status"
           \/ pc = "request" /\ pc' = "header"
           \/ pc' = "err"
    <3>1. CASE Socks5!Dial
      BY <3>1 DEF Socks5!Dial, Socks5!fields, Fields
    <3>2. CASE Socks5!WriteGreeting \/ Socks5!WriteCredentials \/ Socks5!WriteRequest
      BY <3>2, Zenon DEF Socks5!WriteGreeting, Socks5!WriteCredentials, Socks5!WriteRequest,
                  Socks5!Write, Socks5!fields, Fields
    <3> QED
      BY <1>2, <3>1, <3>2
  <2>2. CASE pc' = "err"
    BY <2>1, <2>2, MeasuredKept
  <2> QED
    BY <2>1, <2>2, MeasuredOnWrite
<1> QED
  BY <1>1, <1>2, MeasuredOnRead DEF Socks5!Next, Socks5!Connect

\* The tunnel begins behind the handshake: it is what the stream delivers from
\* the place read_exact has reached when connect returns.
LEMMA Socks5Offers ==
  Measured => Socks5!Offered = IF pc = "ok" THEN Socks5!Tunnel ELSE <<>>
<1> SUFFICES ASSUME Measured, pc = "ok" PROVE Socks5!Offered = Socks5!Tunnel
  BY DEF Socks5!Offered
<1>1. Complete /\ read = Socks5!HandshakeLength /\ sent >= Socks5!HandshakeLength
  BY DEF Measured
<1> QED
  BY <1>1 DEF Complete, Socks5!Offered, Socks5!Tunnel

\* A tunnel is a sequence of places.
Socks5Listed == Socks5!Tunnel \in Seq(Nat)

LEMMA Socks5TunnelSeq == Measured => Socks5Listed
<1> SUFFICES ASSUME sent \in Nat, NameCounted PROVE Socks5!Tunnel \in Seq(Nat)
  BY DEF Measured, NameCounted, Socks5Listed
<1>1. Socks5!HandshakeLength \in Nat
  BY Lengths DEF LengthsAdd
<1>2. sent >= Socks5!HandshakeLength => Socks5!Places(Socks5!HandshakeLength, sent) \in Seq(Nat)
  BY <1>1, Place
<1> QED
  BY <1>2 DEF Socks5!Tunnel

\* A known tunnel grows at its end, and one not known yet is empty.
LEMMA Socks5Grows ==
  ASSUME Measured, Measured', sent' \in {sent, sent + 1}, UNCHANGED Fields \/ ~Complete
  PROVE  Task!IsPrefix(Socks5!Tunnel, Socks5!Tunnel')
<1>1. sent \in Nat /\ sent' \in Nat /\ NameCounted /\ NameCounted'
  BY DEF Measured, NameCounted
<1>2. Socks5!Tunnel' \in Seq(Nat)
  <2>1. Socks5Listed'
    BY Socks5TunnelSeq, PTL
  <2> QED
    BY <2>1 DEF Socks5Listed
<1>3. CASE ~Complete \/ sent < Socks5!HandshakeLength
  <2>1. Socks5!Tunnel = <<>>
    <3>1. Socks5!HandshakeLength \in Nat
      BY <1>1, Lengths DEF LengthsAdd
    <3> QED
      BY <1>1, <1>3, <3>1 DEF Socks5!Tunnel, Complete
  <2> QED
    BY <1>2, <2>1, EmptyPrefix
<1>4. CASE Complete /\ ~(sent < Socks5!HandshakeLength)
  <2>1. /\ Complete' /\ Socks5!HandshakeLength' = Socks5!HandshakeLength
        /\ Socks5!HandshakeLength \in Nat
    BY <1>1, <1>4, Lengths, LengthsKept DEF LengthsAdd
  <2>2. sent >= Socks5!HandshakeLength /\ sent' >= Socks5!HandshakeLength /\ sent <= sent'
    BY <1>1, <1>4, <2>1
  <2>3. /\ Socks5!Tunnel = Socks5!Places(Socks5!HandshakeLength, sent)
        /\ Socks5!Tunnel' = Socks5!Places(Socks5!HandshakeLength, sent')
    BY <1>4, <2>1, <2>2 DEF Socks5!Tunnel, Complete
  <2>4. /\ Socks5!Tunnel = Http!Places(Socks5!HandshakeLength, sent)
        /\ Socks5!Tunnel' = Http!Places(Socks5!HandshakeLength, sent')
    BY <1>1, <2>1, <2>2, <2>3, Place
  <2> QED
    BY <1>1, <2>1, <2>2, <2>4, PlacesPrefix
<1> QED
  BY <1>3, <1>4

-----------------------------------------------------------------------------
(* HTTP: the lines read and where the blank one is.                        *)

Newline(i) == reply[i] = "nl"
Blank(i) == Newline(i) /\ Newline(i - 1)

\* While lines are read the part of a line that was consumed has no newline, no
\* blank line was consumed, and the line before ended with a newline, or with the
\* stream.  When do_connect has returned, the first blank line ends at `start`;
\* without one, the stream ended there.
Lined ==
  /\ reply \in Seq(Http!Byte) /\ filled \in Nat /\ used \in Nat /\ start \in Nat
  /\ start <= used /\ used <= filled /\ filled <= Len(reply)
  /\ pc \in {"dial", "write", "status", "headers", "ok", "err"}
  /\ pc \in {"dial", "write", "status", "headers"} =>
       /\ \A i \in start + 1 .. used : ~Newline(i)
       /\ \A i \in 2 .. used : ~Blank(i)
  /\ pc \in {"dial", "write", "status"} => start = 0
  /\ pc = "headers" => start > 0 /\ (Newline(start) \/ (ending = "eof" /\ start = Len(reply)))
  /\ pc = "ok" => /\ buffered = Http!Places(start, filled)
                  /\ \/ start \in Http!BlankLines /\ \A i \in Http!BlankLines : start <= i
                     \/ Http!BlankLines = {} /\ start = Len(reply) /\ ending = "eof"

\* A set of numbers has a least one.
LEMMA MinOf ==
  ASSUME NEW T \in SUBSET Nat, T # {}
  PROVE  Http!Min(T) \in T /\ \A y \in T : Http!Min(T) <= y
<1> DEFINE Below == {ss \in Nat \X Nat : ss[1] < ss[2]}
<1>1. Below = OpToRel(<, Nat)
  BY Zenon DEF OpToRel
<1> HIDE DEF Below
<1>2. IsWellFoundedOn(OpToRel(<, Nat), Nat)
  BY NatLessThanWellFounded, Zenon
<1>3. IsWellFoundedOn(Below, Nat)
  BY <1>1, <1>2, Zenon
<1>4. \E x \in T : \A y \in T : ~(<<y, x>> \in Below)
  BY <1>3, WFMin, Zenon
<1>5. \A x, y \in T : ~(<<y, x>> \in Below) => x <= y
  BY DEF Below
<1>6. \E x \in T : \A y \in T : x <= y
  BY <1>4, <1>5, Zenon
<1> QED
  BY <1>6, Zenon DEF Http!Min

LEMMA LeastIs ==
  ASSUME NEW T \in SUBSET Nat, NEW x \in T, \A y \in T : x <= y
  PROVE  Http!Min(T) = x
<1>1. Http!Min(T) \in T /\ \A y \in T : Http!Min(T) <= y
  BY MinOf
<1>2. Http!Min(T) \in Nat /\ x \in Nat /\ Http!Min(T) <= x /\ x <= Http!Min(T)
  BY <1>1, Zenon
<1> QED
  BY <1>2

LEMMA SubSeqElems ==
  ASSUME NEW S, NEW s \in Seq(S), NEW a \in Nat, NEW b \in Nat, a <= b, b <= Len(s)
  PROVE  /\ SubSeq(s, a + 1, b) \in Seq(S) /\ Len(SubSeq(s, a + 1, b)) = b - a
         /\ \A i \in 1 .. b - a : SubSeq(s, a + 1, b)[i] = s[a + i]
<1>1. SubSeq(s, a + 1, b) \in Seq(S) /\ Len(SubSeq(s, a + 1, b)) = b - a
  OBVIOUS
<1>2. ASSUME NEW i \in 1 .. b - a PROVE SubSeq(s, a + 1, b)[i] = s[a + i]
  <2>1. a + 1 + i - 1 = a + i
    OBVIOUS
  <2> QED
    BY <1>1, <2>1
<1> QED
  BY <1>1, <1>2

\* What a line that ends at `to` makes do_connect do.
LEMMA LineEffect ==
  ASSUME Lined, Http!Reading, NEW to \in Nat, start <= to, to <= Len(reply), Http!LineDone(to)
  PROVE  /\ start' = to /\ pc' \in {"headers", "ok", "err"}
         /\ pc = "status" /\ pc' = "headers" => to > start /\ ~Newline(start + 1)
         /\ pc = "headers" /\ pc' = "headers" => \E i \in start + 1 .. to : ~Newline(i)
         /\ pc' = "ok" => /\ pc = "headers" /\ \A i \in start + 1 .. to : Newline(i)
                          /\ buffered' = Http!Places(to, filled)
<1> DEFINE line == SubSeq(reply, start + 1, to)
           valid == \A i \in 1 .. Len(line) : line[i] # "notUtf8"
           good == line # <<>> /\ line[1] = "200"
           blank == \A i \in 1 .. Len(line) : line[i] = "nl"
<1>1. /\ start' = to
      /\ pc' = CASE valid /\ pc = "status" /\ good -> "headers"
                 [] valid /\ pc = "headers" /\ ~blank -> "headers"
                 [] valid /\ pc = "headers" /\ blank -> "ok"
                 [] OTHER -> "err"
      /\ buffered' = IF pc' = "ok" THEN Http!Prefetched(to, filled) ELSE <<>>
  BY Zenon DEF Http!LineDone
<1>2. start \in Nat /\ reply \in Seq(Http!Byte)
  BY DEF Lined
<1>3. /\ line \in Seq(Http!Byte) /\ Len(line) = to - start
      /\ \A i \in 1 .. to - start : line[i] = reply[start + i]
  BY <1>2, SubSeqElems
<1> HIDE DEF line
<1>4. good => to > start /\ ~Newline(start + 1)
  <2>1. line # <<>> => to > start
    BY <1>2, <1>3
  <2>2. to > start => line[1] = reply[start + 1]
    BY <1>2, <1>3
  <2> QED
    BY <2>1, <2>2 DEF Newline
<1>5. ~blank => \E i \in start + 1 .. to : ~Newline(i)
  <2> SUFFICES ASSUME NEW i \in 1 .. to - start, line[i] # "nl"
               PROVE  \E j \in start + 1 .. to : ~Newline(j)
    BY <1>3
  <2>1. start + i \in start + 1 .. to /\ line[i] = reply[start + i]
    BY <1>2, <1>3
  <2> QED
    BY <2>1 DEF Newline
<1>6. blank => \A i \in start + 1 .. to : Newline(i)
  <2> SUFFICES ASSUME blank, NEW i \in start + 1 .. to PROVE Newline(i)
    OBVIOUS
  <2>1. i - start \in 1 .. to - start /\ start + (i - start) = i
    BY <1>2
  <2>2. line[i - start] = reply[i]
    BY <1>3, <2>1
  <2> QED
    BY <1>3, <2>1, <2>2 DEF Newline
<1> HIDE DEF valid, good, blank
<1>7. /\ pc' \in {"headers", "ok", "err"}
      /\ pc = "status" /\ pc' = "headers" => good
      /\ pc = "headers" /\ pc' = "headers" => ~blank
      /\ pc' = "ok" => pc = "headers" /\ blank
  BY <1>1
<1> QED
  BY <1>1, <1>4, <1>5, <1>6, <1>7, Zenon DEF Http!Prefetched

\* The blank lines while the server sends nothing, and when it sends a byte.
LEMMA BlankKept ==
  UNCHANGED reply => /\ Http!BlankLines' = Http!BlankLines /\ Http!Tunnel' = Http!Tunnel
                     /\ \A i : Newline(i)' = Newline(i) /\ Blank(i)' = Blank(i)
BY DEF Http!BlankLines, Http!Tunnel, Newline, Blank

LEMMA BlankGrows ==
  ASSUME reply \in Seq(Http!Byte), NEW b \in Http!Byte, reply' = Append(reply, b)
  PROVE  /\ reply' \in Seq(Http!Byte) /\ Len(reply') = Len(reply) + 1 /\ Len(reply) \in Nat
         /\ \A i \in 1 .. Len(reply) : Newline(i)' = Newline(i)
         /\ \A i \in 2 .. Len(reply) : Blank(i)' = Blank(i)
         /\ Http!BlankLines \subseteq Http!BlankLines'
         /\ \A i \in Http!BlankLines' : i \in Http!BlankLines \/ i = Len(reply) + 1
<1>1. reply' \in Seq(Http!Byte) /\ Len(reply') = Len(reply) + 1 /\ Len(reply) \in Nat
  OBVIOUS
<1>2. \A i \in 1 .. Len(reply) : reply'[i] = reply[i]
  OBVIOUS
<1>3. \A i \in 2 .. Len(reply) : i \in 1 .. Len(reply) /\ i - 1 \in 1 .. Len(reply)
  BY <1>1
<1>4. \A i \in 1 .. Len(reply) : Newline(i)' = Newline(i)
  BY <1>2 DEF Newline
<1>5. \A i \in 2 .. Len(reply) : Blank(i)' = Blank(i)
  BY <1>3, <1>4 DEF Blank
<1>6. /\ \A i : i \in Http!BlankLines <=> i \in 2 .. Len(reply) /\ Blank(i)
      /\ \A i : i \in Http!BlankLines' <=> i \in 2 .. Len(reply) + 1 /\ Blank(i)'
  BY <1>1 DEF Http!BlankLines, Blank, Newline
<1>7. \A i \in 2 .. Len(reply) + 1 : i \in 2 .. Len(reply) \/ i = Len(reply) + 1
  BY <1>1
<1>8. \A i \in 2 .. Len(reply) : i \in 2 .. Len(reply) + 1
  BY <1>1
<1> QED
  BY <1>1, <1>4, <1>5, <1>6, <1>7, <1>8, Zenon

\* The server, the timeout and every step that consumes nothing.
LEMMA LinedKept ==
  ASSUME Lined, UNCHANGED <<reply, used, start, buffered>>,
         \/ UNCHANGED filled
         \/ filled' \in Nat /\ used <= filled' /\ filled' <= Len(reply) /\ pc # "ok",
         \/ UNCHANGED pc
         \/ pc' = "err"
         \/ pc = "dial" /\ pc' = "write"
         \/ pc = "write" /\ pc' = "status",
         ending' = ending \/ ending # "eof"
  PROVE  Lined'
<1>1. /\ Http!BlankLines' = Http!BlankLines
      /\ \A i : Newline(i)' = Newline(i) /\ Blank(i)' = Blank(i)
  BY BlankKept
<1>2. /\ reply' \in Seq(Http!Byte) /\ filled' \in Nat /\ used' \in Nat /\ start' \in Nat
      /\ start' <= used' /\ used' <= filled' /\ filled' <= Len(reply')
  BY DEF Lined
<1>3. CASE pc' = "err"
  BY <1>2, <1>3 DEF Lined
<1>4. CASE /\ pc' # "err" /\ pc' # "ok"
  <2>1. /\ pc' \in {"dial", "write", "status", "headers"} /\ pc \in {"dial", "write", "status", "headers"}
        /\ pc' = "headers" <=> pc = "headers"
    BY <1>4 DEF Lined
  <2>2. /\ \A i \in start' + 1 .. used' : ~Newline(i)'
        /\ \A i \in 2 .. used' : ~Blank(i)'
    BY <1>1, <2>1 DEF Lined
  <2>3. pc' # "headers" => start' = 0
    BY <2>1 DEF Lined
  <2>4. pc' = "headers" => start' > 0 /\ (Newline(start)' \/ (ending' = "eof" /\ start' = Len(reply')))
    BY <1>1, <2>1 DEF Lined
  <2> QED
    BY <1>2, <2>1, <2>2, <2>3, <2>4 DEF Lined, Newline
<1>5. CASE pc' = "ok"
  <2>1. pc = "ok" /\ UNCHANGED filled
    BY <1>5
  <2>2. buffered' = Http!Places(start', filled')
    BY <2>1 DEF Lined, Http!Places
  <2>3. \/ start' \in Http!BlankLines' /\ \A i \in Http!BlankLines' : start' <= i
        \/ Http!BlankLines' = {} /\ start' = Len(reply') /\ ending' = "eof"
    BY <1>1, <2>1 DEF Lined
  <2> QED
    BY <1>2, <1>5, <2>2, <2>3 DEF Lined
<1> QED
  BY <1>3, <1>4, <1>5

LEMMA LinedOnSend == Lined /\ Http!ServerSends => Lined'
<1> SUFFICES ASSUME Lined, Http!ServerSends PROVE Lined'
  OBVIOUS
<1>1. PICK b \in Http!Byte : reply' = Append(reply, b)
  BY DEF Http!ServerSends
<1>2. ending = "open" /\ pc # "dial" /\ UNCHANGED <<pc, ending, filled, used, start, buffered>>
  BY DEF Http!ServerSends, Http!Connected
<1>3. /\ reply' \in Seq(Http!Byte) /\ Len(reply') = Len(reply) + 1 /\ Len(reply) \in Nat
      /\ \A i \in 1 .. Len(reply) : Newline(i)' = Newline(i)
      /\ \A i \in 2 .. Len(reply) : Blank(i)' = Blank(i)
      /\ Http!BlankLines \subseteq Http!BlankLines'
      /\ \A i \in Http!BlankLines' : i \in Http!BlankLines \/ i = Len(reply) + 1
  BY <1>1, BlankGrows DEF Lined
<1>4. /\ filled' \in Nat /\ used' \in Nat /\ start' \in Nat
      /\ start' <= used' /\ used' <= filled' /\ filled' <= Len(reply')
  BY <1>2, <1>3 DEF Lined
<1>5. pc \in {"write", "status", "headers"} =>
        /\ \A i \in start' + 1 .. used' : ~Newline(i)'
        /\ \A i \in 2 .. used' : ~Blank(i)'
  <2>1. \A i \in start + 1 .. used : i \in 1 .. Len(reply)
    BY <1>3 DEF Lined
  <2>2. \A i \in 2 .. used : i \in 2 .. Len(reply)
    BY <1>3 DEF Lined
  <2> QED
    BY <1>2, <1>3, <2>1, <2>2 DEF Lined
<1>6. pc = "headers" => start' > 0 /\ Newline(start)'
  <2>1. pc = "headers" => start \in 1 .. Len(reply) /\ Newline(start)
    BY <1>2, <1>3 DEF Lined
  <2> QED
    BY <1>2, <1>3, <2>1
<1>7. pc = "ok" => /\ buffered' = Http!Places(start', filled')
                   /\ start' \in Http!BlankLines' /\ \A i \in Http!BlankLines' : start' <= i
  <2> SUFFICES ASSUME pc = "ok"
               PROVE  /\ buffered' = Http!Places(start', filled')
                      /\ start' \in Http!BlankLines' /\ \A i \in Http!BlankLines' : start' <= i
    OBVIOUS
  <2>1. start \in Http!BlankLines /\ \A i \in Http!BlankLines : start <= i
    BY <1>2 DEF Lined
  <2>2. start <= Len(reply) + 1
    BY <1>3 DEF Lined
  <2>3. buffered' = Http!Places(start', filled')
    BY <1>2 DEF Lined, Http!Places
  <2> QED
    BY <1>2, <1>3, <2>1, <2>2, <2>3, Zenon
<1> QED
  BY <1>2, <1>3, <1>4, <1>5, <1>6, <1>7 DEF Lined, Newline

\* A line that ends with a newline.
LEMMA LinedOnLine ==
  ASSUME Lined, Http!Reading, NEW to \in used + 1 .. filled, Newline(to),
         \A i \in used + 1 .. to - 1 : ~Newline(i),
         Http!LineDone(to), used' = to, UNCHANGED <<reply, ending, filled>>
  PROVE  Lined'
<1>1. /\ to \in Nat /\ start < to /\ to <= Len(reply) /\ start \in Nat /\ used \in Nat
      /\ start <= used /\ used < to /\ to <= filled
  BY DEF Lined
<1>2. /\ start' = to /\ pc' \in {"headers", "ok", "err"}
      /\ pc = "status" /\ pc' = "headers" => to > start /\ ~Newline(start + 1)
      /\ pc = "headers" /\ pc' = "headers" => \E i \in start + 1 .. to : ~Newline(i)
      /\ pc' = "ok" => /\ pc = "headers" /\ \A i \in start + 1 .. to : Newline(i)
                       /\ buffered' = Http!Places(to, filled)
  BY <1>1, LineEffect
<1>3. /\ \A i \in start + 1 .. to - 1 : ~Newline(i)
      /\ \A i \in 2 .. used : ~Blank(i)
  <2>1. \A i \in start + 1 .. to - 1 : i \in start + 1 .. used \/ i \in used + 1 .. to - 1
    BY <1>1
  <2> QED
    BY <2>1 DEF Lined, Http!Reading
<1>4. /\ Http!BlankLines' = Http!BlankLines
      /\ \A i : Newline(i)' = Newline(i) /\ Blank(i)' = Blank(i)
  BY BlankKept
<1>5. /\ reply' \in Seq(Http!Byte) /\ filled' \in Nat /\ used' \in Nat /\ start' \in Nat
      /\ start' <= used' /\ used' <= filled' /\ filled' <= Len(reply')
  BY <1>1, <1>2 DEF Lined
<1>6. CASE pc' = "headers"
  <2>1. to # start + 1
    <3>1. CASE pc = "status"
      BY <1>2, <1>6, <3>1
    <3>2. CASE pc = "headers"
      <4>1. PICK i \in start + 1 .. to : ~Newline(i)
        BY <1>2, <1>6, <3>2
      <4>2. i # to
        BY <4>1
      <4> QED
        BY <1>1, <4>2
    <3> QED
      BY <3>1, <3>2 DEF Http!Reading
  <2>2. to - 1 \in start + 1 .. to - 1
    BY <1>1, <2>1
  <2>3. ~Newline(to - 1)
    BY <1>3, <2>2
  <2>4. \A i \in 2 .. to : ~Blank(i)
    <3>1. \A i \in 2 .. to : i \in 2 .. used \/ i \in start + 1 .. to - 1 \/ i = to
      BY <1>1
    <3> QED
      BY <1>3, <2>3, <3>1 DEF Blank
  <2>5. \A i \in to + 1 .. to : ~Newline(i)
    BY <1>1
  <2>6. start' > 0 /\ Newline(start)'
    BY <1>1, <1>2, <1>4 DEF Newline
  <2> QED
    BY <1>2, <1>4, <1>5, <1>6, <2>4, <2>5, <2>6 DEF Lined, Newline
<1>7. CASE pc' = "ok"
  <2>1. to = start + 1
    <3>1. start + 1 \in start + 1 .. to /\ (to # start + 1 => start + 1 \in start + 1 .. to - 1)
      BY <1>1
    <3> QED
      BY <1>2, <1>3, <1>7, <3>1
  <2>2. start > 0 /\ Newline(start)
    BY <1>1, <1>2, <1>7 DEF Lined
  <2>3. to \in Http!BlankLines
    <3>1. to \in 2 .. Len(reply) /\ to - 1 = start
      BY <1>1, <2>1, <2>2
    <3> QED
      BY <2>2, <3>1 DEF Http!BlankLines, Newline
  <2>4. ASSUME NEW i \in Http!BlankLines PROVE to <= i
    <3>1. i \in 2 .. Len(reply) /\ Blank(i)
      BY DEF Http!BlankLines, Blank, Newline
    <3>2. i \notin 2 .. used
      BY <1>3, <3>1
    <3> QED
      BY <1>1, <2>1, <3>1, <3>2
  <2> QED
    BY <1>2, <1>4, <1>5, <1>7, <2>3, <2>4 DEF Lined, Http!Places
<1>8. CASE pc' = "err"
  BY <1>5, <1>8 DEF Lined
<1> QED
  BY <1>2, <1>6, <1>7, <1>8

\* A line that ends with the stream.
LEMMA LinedOnEof == Lined /\ Http!ReadEof => Lined'
<1> SUFFICES ASSUME Lined, Http!ReadEof PROVE Lined'
  OBVIOUS
<1>1. /\ Http!Reading /\ used = filled /\ filled = Len(reply) /\ ending = "eof"
      /\ Http!LineDone(used) /\ UNCHANGED <<reply, ending, filled, used>>
  BY DEF Http!ReadEof
<1>2. /\ used \in Nat /\ start \in Nat /\ start <= used /\ used <= Len(reply)
      /\ \A i \in start + 1 .. used : ~Newline(i)
      /\ \A i \in 2 .. used : ~Blank(i)
  BY <1>1 DEF Lined, Http!Reading
<1>3. /\ start' = used /\ pc' \in {"headers", "ok", "err"}
      /\ pc = "status" /\ pc' = "headers" => used > start
      /\ pc' = "ok" => /\ pc = "headers" /\ \A i \in start + 1 .. used : Newline(i)
                       /\ buffered' = Http!Places(used, filled)
  BY <1>1, <1>2, LineEffect
<1>4. /\ Http!BlankLines' = Http!BlankLines
      /\ \A i : Newline(i)' = Newline(i) /\ Blank(i)' = Blank(i)
  BY <1>1, BlankKept
<1>5. /\ reply' \in Seq(Http!Byte) /\ filled' \in Nat /\ used' \in Nat /\ start' \in Nat
      /\ start' <= used' /\ used' <= filled' /\ filled' <= Len(reply')
  BY <1>1, <1>2, <1>3 DEF Lined
<1>6. CASE pc' = "headers"
  <2>1. start' > 0
    <3>1. CASE pc = "status"
      BY <1>2, <1>3, <1>6, <3>1
    <3>2. CASE pc = "headers"
      BY <1>2, <1>3, <3>2 DEF Lined
    <3> QED
      BY <1>1, <3>1, <3>2 DEF Http!Reading
  <2>2. \A i \in start' + 1 .. used' : ~Newline(i)'
    BY <1>1, <1>2, <1>3
  <2>3. \A i \in 2 .. used' : ~Blank(i)'
    BY <1>1, <1>2, <1>4
  <2>4. ending' = "eof" /\ start' = Len(reply')
    BY <1>1, <1>3
  <2> QED
    BY <1>5, <1>6, <2>1, <2>2, <2>3, <2>4 DEF Lined
<1>7. CASE pc' = "ok"
  <2>1. Http!BlankLines' = {}
    BY <1>1, <1>2, <1>4 DEF Http!BlankLines, Blank, Newline
  <2>2. /\ ending' = "eof" /\ start' = Len(reply')
        /\ buffered' = Http!Places(start', filled')
    BY <1>1, <1>3, <1>7 DEF Http!Places
  <2> QED
    BY <1>5, <1>7, <2>1, <2>2 DEF Lined
<1>8. CASE pc' = "err"
  BY <1>5, <1>8 DEF Lined
<1> QED
  BY <1>3, <1>6, <1>7, <1>8

LEMMA LinedOnReadLine == Lined /\ Http!ReadLine => Lined'
<1> SUFFICES ASSUME Lined, Http!ReadLine PROVE Lined'
  OBVIOUS
<1> DEFINE newlines == {i \in used + 1 .. filled : reply[i] = "nl"}
<1>1. /\ Http!Reading /\ used < filled /\ UNCHANGED <<reply, ending, filled>>
      /\ \/ newlines # {} /\ used' = Http!Min(newlines) /\ Http!LineDone(Http!Min(newlines))
         \/ newlines = {} /\ used' = filled /\ UNCHANGED <<pc, start, buffered>>
  BY DEF Http!ReadLine
<1>2. /\ used \in Nat /\ filled \in Nat /\ start \in Nat
      /\ start <= used /\ used <= filled /\ start <= filled
  BY DEF Lined
<1>3. CASE newlines # {}
  <2> DEFINE to == Http!Min(newlines)
  <2>1. newlines \in SUBSET Nat
    BY <1>2
  <2>2. to \in newlines /\ \A i \in newlines : to <= i
    <3> HIDE DEF newlines
    <3> QED
      BY <1>3, <2>1, MinOf
  <2>3. used' = to /\ Http!LineDone(to)
    BY <1>1, <1>3
  <2> HIDE DEF to
  <2>4. to \in used + 1 .. filled /\ Newline(to)
    BY <2>2 DEF Newline
  <2>5. ASSUME NEW i \in used + 1 .. to - 1 PROVE ~Newline(i)
    <3>1. i \in used + 1 .. filled /\ ~(to <= i)
      BY <1>2, <2>4
    <3>2. i \notin newlines
      BY <2>2, <3>1
    <3> QED
      BY <3>1, <3>2 DEF Newline
  <2> QED
    BY <1>1, <2>3, <2>4, <2>5, LinedOnLine
<1>4. CASE newlines = {}
  <2>1. used' = filled /\ UNCHANGED <<reply, ending, filled, pc, start, buffered>>
    BY <1>1, <1>4
  <2>2. \A i \in used + 1 .. filled : ~Newline(i)
    BY <1>4 DEF Newline
  <2>3. /\ \A i : Newline(i)' = Newline(i) /\ Blank(i)' = Blank(i)
    BY <2>1, BlankKept
  <2>4. \A i \in start' + 1 .. used' : ~Newline(i)'
    <3>1. \A i \in start + 1 .. filled : i \in start + 1 .. used \/ i \in used + 1 .. filled
      BY <1>2
    <3>2. \A i \in start + 1 .. used : ~Newline(i)
      BY <1>1 DEF Lined, Http!Reading
    <3> QED
      BY <2>1, <2>2, <2>3, <3>1, <3>2
  <2>5. \A i \in 2 .. used' : ~Blank(i)'
    <3>1. \A i \in 2 .. filled : i \in 2 .. used \/ i \in used + 1 .. filled
      BY <1>2
    <3>2. \A i \in 2 .. used : ~Blank(i)
      BY <1>1 DEF Lined, Http!Reading
    <3> QED
      BY <2>1, <2>2, <2>3, <3>1, <3>2 DEF Blank
  <2>6. start' <= used' /\ used' <= filled' /\ used' \in Nat
    BY <1>2, <2>1
  <2> QED
    BY <1>1, <2>1, <2>3, <2>4, <2>5, <2>6 DEF Lined, Http!Reading, Newline
<1> QED
  BY <1>1, <1>3, <1>4

LEMMA LinedStep ==
  ASSUME Lined, Http!Next
  PROVE  Lined'
<1>1. CASE Http!ServerEnds \/ Http!Dial \/ Http!WriteRequest \/ Http!ReadFails
  <2>1. /\ UNCHANGED <<reply, used, start, buffered, filled>>
        /\ \/ UNCHANGED pc
           \/ pc' = "err"
           \/ pc = "dial" /\ pc' = "write"
           \/ pc = "write" /\ pc' = "status"
        /\ ending' = ending \/ ending # "eof"
    BY <1>1 DEF Http!ServerEnds, Http!Dial, Http!WriteRequest, Http!ReadFails
  <2> QED
    BY <2>1, LinedKept
<1>2. CASE Http!Fill
  <2>1. PICK n \in Http!FillSizes : filled' = filled + n
    BY <1>2 DEF Http!Fill
  <2>2. UNCHANGED <<pc, reply, ending, used, start, buffered>> /\ pc # "ok"
    BY <1>2 DEF Http!Fill, Http!Reading
  <2>3. filled \in Nat /\ used <= filled /\ used \in Nat /\ Len(reply) - filled \in Nat /\ Len(reply) \in Nat
    BY DEF Lined
  <2>4. Http!Min({BUF_CAP, Len(reply) - filled}) <= Len(reply) - filled
        /\ Http!Min({BUF_CAP, Len(reply) - filled}) \in Nat
    <3>1. {BUF_CAP, Len(reply) - filled} \in SUBSET Nat
      BY <2>3, ConnectAssumption
    <3> QED
      BY <3>1, MinOf
  <2>5. n \in Nat /\ n <= Len(reply) - filled
    BY <2>3, <2>4 DEF Http!FillSizes
  <2>6. filled' \in Nat /\ used <= filled' /\ filled' <= Len(reply)
    BY <2>1, <2>3, <2>5
  <2> QED
    BY <2>2, <2>6, LinedKept
<1> QED
  BY <1>1, <1>2, LinedOnSend, LinedOnLine, LinedOnEof, LinedOnReadLine
     DEF Http!Next, Http!Server, Http!Connect

\* What was read ahead and what the socket still holds are the tunnel, when
\* do_connect has returned a stream.
LEMMA HttpOffers ==
  Lined => Http!Offered = IF pc = "ok" THEN Http!Tunnel ELSE <<>>
<1>0. pc # "ok" => Http!Offered = <<>>
  BY Zenon DEF Http!Offered
<1> SUFFICES ASSUME Lined, pc = "ok" PROVE Http!Offered = Http!Tunnel
  BY <1>0, Zenon
<1>1. /\ start \in Nat /\ filled \in Nat /\ Len(reply) \in Nat
      /\ start <= filled /\ filled <= Len(reply)
      /\ buffered = Http!Places(start, filled)
  BY DEF Lined
<1>2. Http!Offered = Http!Places(start, Len(reply))
  <2>1. Http!Offered = buffered \o Http!Places(filled, Len(reply))
    BY Zenon DEF Http!Offered
  <2>2. Http!Places(start, filled) \o Http!Places(filled, Len(reply))
          = Http!Places(start, Len(reply))
    BY <1>1, PlacesJoined, Zenon
  <2> QED
    BY <1>1, <2>1, <2>2, Zenon
<1>3. CASE start \in Http!BlankLines /\ \A i \in Http!BlankLines : start <= i
  <2>1. Http!BlankLines \in SUBSET Nat
    BY <1>1 DEF Http!BlankLines
  <2>2. Http!Min(Http!BlankLines) = start
    BY <1>3, <2>1, LeastIs
  <2> QED
    BY <1>2, <1>3, <2>2 DEF Http!Tunnel
<1>4. CASE Http!BlankLines = {} /\ start = Len(reply)
  BY <1>1, <1>2, <1>4, NoPlace DEF Http!Tunnel
<1> QED
  BY <1>3, <1>4 DEF Lined

\* A tunnel is a sequence of places, and it grows at its end.
HttpListed == Http!Tunnel \in Seq(Nat)

LEMMA HttpTunnelSeq == Lined => HttpListed
<1> SUFFICES ASSUME Lined, Http!BlankLines # {}
             PROVE  Http!Places(Http!Min(Http!BlankLines), Len(reply)) \in Seq(Nat)
  BY DEF Http!Tunnel, HttpListed
<1>1. Len(reply) \in Nat /\ Http!BlankLines \in SUBSET Nat
  BY DEF Lined, Http!BlankLines
<1>2. Http!Min(Http!BlankLines) \in Http!BlankLines
  BY <1>1, MinOf
<1>3. Http!Min(Http!BlankLines) \in Nat /\ Http!Min(Http!BlankLines) <= Len(reply)
  BY <1>1, <1>2 DEF Http!BlankLines
<1> QED
  BY <1>1, <1>3, Place

LEMMA HttpGrows ==
  ASSUME Lined, Lined', UNCHANGED reply \/ Http!ServerSends
  PROVE  Task!IsPrefix(Http!Tunnel, Http!Tunnel')
<1>1. HttpListed /\ HttpListed'
  BY HttpTunnelSeq, PTL
<1>2. CASE UNCHANGED reply
  <2>1. Http!Tunnel' = Http!Tunnel /\ Len(Http!Tunnel) \in Int
    BY <1>1, <1>2, BlankKept DEF HttpListed
  <2> QED
    BY <2>1, SelfPrefix
<1>3. CASE Http!ServerSends
  <2>1. PICK b \in Http!Byte : reply' = Append(reply, b)
    BY <1>3 DEF Http!ServerSends
  <2>2. /\ Len(reply') = Len(reply) + 1 /\ Len(reply) \in Nat
        /\ Http!BlankLines \subseteq Http!BlankLines'
        /\ \A i \in Http!BlankLines' : i \in Http!BlankLines \/ i = Len(reply) + 1
    BY <2>1, BlankGrows DEF Lined
  <2>3. CASE Http!BlankLines = {}
    <3>1. Http!Tunnel = <<>>
      BY <2>3 DEF Http!Tunnel
    <3> QED
      BY <1>1, <3>1, EmptyPrefix DEF HttpListed
  <2>4. CASE Http!BlankLines # {}
    <3> DEFINE first == Http!Min(Http!BlankLines)
    <3>1. Http!BlankLines \in SUBSET Nat /\ Http!BlankLines' \in SUBSET Nat
      BY DEF Http!BlankLines
    <3>2. first \in Http!BlankLines /\ \A i \in Http!BlankLines : first <= i
      BY <2>4, <3>1, MinOf
    <3>3. first \in Nat /\ first <= Len(reply)
      BY <2>2, <3>2 DEF Http!BlankLines
    <3> HIDE DEF first
    <3>4. first \in Http!BlankLines' /\ \A i \in Http!BlankLines' : first <= i
      BY <2>2, <3>2, <3>3
    <3>5. Http!Min(Http!BlankLines') = first
      BY <3>1, <3>4, LeastIs
    <3>6. Http!BlankLines' # {}
      BY <3>4
    <3>7. Http!Tunnel = Http!Places(first, Len(reply))
      BY <2>4 DEF Http!Tunnel, first
    <3>8. Http!Tunnel' = Http!Places(first, Len(reply'))
      <4>1. Http!Tunnel' = Http!Places(Http!Min(Http!BlankLines'), Len(reply'))
        BY <3>6, Zenon DEF Http!Tunnel
      <4> QED
        BY <3>5, <4>1, Zenon
    <3> QED
      BY <2>2, <3>3, <3>7, <3>8, PlacesPrefix
  <2> QED
    BY <2>3, <2>4
<1> QED
  BY <1>2, <1>3

-----------------------------------------------------------------------------
(* The connect task.                                                       *)

\* The inductive invariant, by route.
IInv ==
  /\ route \in {"Direct", "Socks5", "Http"}
  /\ route = "Socks5" => Spoken /\ Measured
  /\ route # "Socks5" => wrote = <<>>
  /\ route = "Http" => Lined
  /\ route = "Direct" => /\ pc \in {"dial", "ok", "err"} /\ read = 0 /\ sent \in Nat
                         /\ pc = "dial" => sent = 0

LEMMA InitIInv == Init => IInv
<1> SUFFICES ASSUME Init PROVE IInv
  OBVIOUS
<1>1. /\ route \in {"Direct", "Socks5", "Http"} /\ pc = "dial"
      /\ reply = <<>> /\ filled = 0 /\ used = 0 /\ start = 0
      /\ sent = 0 /\ read = 0 /\ wrote = <<>>
      /\ method = Socks5!Unread /\ status = Socks5!Unread /\ rep = Socks5!Unread
      /\ atyp = Socks5!Unread /\ namelen = Socks5!Unread
  BY DEF Init, Http!Init, Socks5!Init
<1>2. Spoken
  BY <1>1, InOrder DEF Spoken, ByMessages
<1>3. Measured
  BY <1>1 DEF Measured, Socks5!Unread
<1>4. Lined
  BY <1>1 DEF Lined
<1> QED
  BY <1>1, <1>2, <1>3, <1>4 DEF IInv

\* The timeout and a stuttering step leave everything but the result.
LEMMA Dropped ==
  ASSUME IInv, pc' \in {pc, "err"}, UNCHANGED <<route, ending, httpVars, socks5Vars>>
  PROVE  IInv'
<1>1. /\ UNCHANGED <<route, ending, reply, filled, used, start, buffered>>
      /\ UNCHANGED <<has_auth, sent, read, wrote, method, status, rep, atyp, namelen>>
      /\ UNCHANGED Fields
  BY DEF httpVars, socks5Vars, Fields
<1>2. CASE route = "Socks5"
  BY <1>1, <1>2, SpokenKept, MeasuredKept DEF IInv
<1>3. CASE route = "Http"
  <2>1. Lined'
    BY <1>1, <1>3, LinedKept DEF IInv
  <2> QED
    BY <1>1, <1>3, <2>1 DEF IInv
<1>4. CASE route = "Direct"
  BY <1>1, <1>4 DEF IInv
<1> QED
  BY <1>2, <1>3, <1>4 DEF IInv

LEMMA NextIInv == IInv /\ [Next]_vars => IInv'
<1> SUFFICES ASSUME IInv, [Next]_vars PROVE IInv'
  OBVIOUS
<1>1. CASE UNCHANGED vars
  BY <1>1, Dropped DEF vars
<1>2. CASE TimesOut
  BY <1>2, Dropped DEF TimesOut
<1>3. CASE UNCHANGED route /\ route = "Direct" /\ DirectConnect
  <2>1. CASE /\ pc = "dial" /\ pc' \in {"ok", "err"} /\ UNCHANGED <<ending, httpVars, socks5Vars>>
    BY <1>3, <2>1 DEF IInv, socks5Vars
  <2>2. CASE Socks5!Server
    BY <1>3, <2>2 DEF IInv, Socks5!Server, Socks5!ServerSends, Socks5!ServerEnds
  <2> QED
    BY <1>3, <2>1, <2>2 DEF DirectConnect
<1>4. CASE UNCHANGED route /\ route = "Socks5" /\ Socks5!Next
  BY <1>4, SpokenStep, MeasuredStep DEF IInv
<1>5. CASE UNCHANGED route /\ route = "Http" /\ Http!Next /\ UNCHANGED socks5Vars
  <2>1. Lined' /\ wrote' = <<>>
    BY <1>5, LinedStep DEF IInv, socks5Vars
  <2> QED
    BY <1>5, <2>1 DEF IInv
<1> QED
  BY <1>1, <1>2, <1>3, <1>4, <1>5 DEF Next, ConnectInner

LEMMA Invariance == Spec => []IInv
BY InitIInv, NextIInv, PTL DEF Spec

\* Whatever the server answers, credentials are written only if the route has
\* them and the server chose that method, and the request only once the chosen
\* method is satisfied.
THEOREM MessagesAlwaysInOrder == Spec => []MessagesInOrder
<1>1. IInv => MessagesInOrder
  BY InOrder, Zenon DEF IInv, Spoken, ByMessages
<1> QED
  BY <1>1, Invariance, PTL

-----------------------------------------------------------------------------
(* The refinement of ConnectTask.                                          *)

\* The mapping's tunnel and bytes delivered, by route.
Through ==
  CASE route = "Http" -> Http!Tunnel
    [] route = "Socks5" -> Socks5!Tunnel
    [] route = "Direct" -> Socks5!Places(0, sent)

Delivered == IF route = "Http" THEN Http!Offered ELSE Socks5!Offered

\* The stream returned delivers the tunnel.
Exact == Delivered = IF pc = "ok" THEN Through ELSE <<>>

LEMMA DeliversTunnel == IInv => Exact
<1> SUFFICES ASSUME IInv PROVE Exact
  OBVIOUS
<1>1. CASE route = "Http"
  <2>1. Through = Http!Tunnel /\ Delivered = Http!Offered
    BY <1>1, Zenon DEF Through, Delivered
  <2> QED
    BY <1>1, <2>1, HttpOffers, Zenon DEF IInv, Exact
<1>2. CASE route = "Socks5"
  <2>1. Through = Socks5!Tunnel /\ Delivered = Socks5!Offered
    BY <1>2 DEF Through, Delivered
  <2> QED
    BY <1>2, <2>1, Socks5Offers, Zenon DEF IInv, Exact
<1>3. CASE route = "Direct"
  <2>1. Through = Socks5!Places(0, sent) /\ Delivered = Socks5!Offered /\ read = 0
    BY <1>3 DEF Through, Delivered, IInv
  <2> QED
    BY <2>1, Zenon DEF Exact, Socks5!Offered
<1> QED
  BY <1>1, <1>2, <1>3, Zenon DEF IInv

\* A step that only adds to the tunnel, and returns at most once, is a step of
\* the task.
LEMMA StepsOfTask ==
  ASSUME IInv, IInv', Task!IsPrefix(Through, Through'), Pending \/ UNCHANGED pc
  PROVE  Task!Next
<1>1. Exact'
  BY DeliversTunnel, PTL
<1>2. Delivered' = IF pc' = "ok" THEN Through' ELSE <<>>
  BY <1>1, Zenon DEF Exact
<1> DEFINE now == IF Pending THEN "pending" ELSE pc
           then == IF Pending' THEN "pending" ELSE pc'
<1>3. /\ then = now \/ (now = "pending" /\ then \in {"ok", "err"})
      /\ pc' = "ok" <=> then = "ok"
  BY DEF Pending
<1>4. Task!Arrive <=> /\ Task!IsPrefix(Through, Through')
                      /\ Delivered' = (IF now = "ok" THEN Through' ELSE <<>>)
                      /\ then = now
  BY Zenon DEF Task!Arrive, Through, Delivered
<1>5. Task!Return <=> /\ now = "pending" /\ then \in {"ok", "err"}
                      /\ Task!IsPrefix(Through, Through')
                      /\ Delivered' = (IF then = "ok" THEN Through' ELSE <<>>)
  BY Zenon DEF Task!Return, Through, Delivered
<1> HIDE DEF now, then
<1> QED
  BY <1>2, <1>3, <1>4, <1>5, Zenon DEF Task!Next

\* Of a tunnel that does not change.
ThroughListed == Through \in Seq(Nat)

LEMMA ThroughSeq == IInv => ThroughListed
<1> SUFFICES ASSUME IInv PROVE Through \in Seq(Nat)
  BY DEF ThroughListed
<1>1. CASE route = "Http"
  BY <1>1, HttpTunnelSeq, Zenon DEF IInv, Through, HttpListed
<1>2. CASE route = "Socks5"
  <2>1. Through = Socks5!Tunnel
    BY <1>2 DEF Through
  <2>2. Socks5Listed
    BY <1>2, Socks5TunnelSeq DEF IInv, Measured, NameCounted
  <2> QED
    BY <2>1, <2>2 DEF Socks5Listed
<1>3. CASE route = "Direct"
  <2>1. Through = Http!Places(0, sent) /\ sent \in Nat /\ 0 <= sent
    BY <1>3 DEF Through, IInv, Socks5!Places, Http!Places
  <2> QED
    BY <2>1, Place
<1> QED
  BY <1>1, <1>2, <1>3 DEF IInv

\* SOCKS5: what the reply says is read once.
LEMMA Socks5Refines ==
  ASSUME Spoken, Measured, Measured', Socks5!Next
  PROVE  /\ Task!IsPrefix(Socks5!Tunnel, Socks5!Tunnel')
         /\ Pending \/ UNCHANGED pc
<1> USE DEF Pending
<1>1. CASE Socks5!Server
  <2>1. UNCHANGED <<pc, Fields>> /\ sent' \in {sent, sent + 1}
    BY <1>1 DEF Socks5!Server, Socks5!ServerSends, Socks5!ServerEnds, Socks5!fields, Fields
  <2> QED
    BY <2>1, Socks5Grows
<1>2. CASE Socks5!Dial \/ Socks5!ReadFails \/ Socks5!ReadAddress \/ Socks5!ReadStatus
  <2>1. UNCHANGED <<sent, Fields>> /\ pc \notin {"ok", "err"}
    BY <1>2 DEF Socks5!Dial, Socks5!ReadFails, Socks5!ReadAddress, Socks5!ReadStatus, Socks5!ReadExact,
                Socks5!Needed, Socks5!fields, Fields
  <2> QED
    BY <2>1, Socks5Grows
<1>3. CASE Socks5!WriteGreeting \/ Socks5!WriteCredentials \/ Socks5!WriteRequest
  <2>1. UNCHANGED <<sent, Fields>> /\ pc \in {"greet", "credentials", "request"}
    BY <1>3, Zenon DEF Socks5!WriteGreeting, Socks5!WriteCredentials, Socks5!WriteRequest,
                Socks5!Write, Socks5!fields, Fields
  <2> QED
    BY <2>1, Socks5Grows
<1>4. CASE Socks5!ReadMethod \/ Socks5!ReadHeader \/ Socks5!ReadNameLength
  <2>1. sent' = sent /\ pc \in {"method", "header", "namelen"}
    BY <1>4, Zenon DEF Socks5!ReadMethod, Socks5!ReadHeader, Socks5!ReadNameLength, Socks5!ReadExact
  <2>2. ~Complete
    BY <2>1 DEF Measured, Complete, Socks5!Known, Socks5!Unread, Socks5!SUCCESS
  <2> QED
    BY <2>1, <2>2, Socks5Grows
<1> QED
  BY <1>1, <1>2, <1>3, <1>4, Zenon DEF Socks5!Next, Socks5!Connect

\* HTTP: what the server sends goes behind what it has sent.
LEMMA HttpRefines ==
  ASSUME Lined, Lined', Http!Next
  PROVE  /\ Task!IsPrefix(Http!Tunnel, Http!Tunnel')
         /\ Pending \/ UNCHANGED pc
<1> USE DEF Pending
<1>1. CASE Http!Server
  <2>1. UNCHANGED pc /\ (UNCHANGED reply \/ Http!ServerSends)
    BY <1>1 DEF Http!Server, Http!ServerSends, Http!ServerEnds
  <2> QED
    BY <2>1, HttpGrows, Zenon
<1>2. CASE Http!Connect
  <2>1. UNCHANGED reply /\ pc \notin {"ok", "err"}
    BY <1>2 DEF Http!Connect, Http!Dial, Http!WriteRequest, Http!Fill, Http!ReadLine, Http!ReadEof,
                Http!ReadFails, Http!Reading
  <2> QED
    BY <2>1, HttpGrows
<1> QED
  BY <1>1, <1>2, Zenon DEF Http!Next

LEMMA RefinesInit == Init => Task!Init
BY DEF Init, Task!Init, Pending, Http!Init, Socks5!Init, Http!Tunnel, Socks5!Tunnel, Socks5!Known,
       Socks5!Places, Http!BlankLines, Http!Offered, Socks5!Offered, Socks5!Unread, Socks5!SUCCESS

\* The mapping's variables.
Mapped == <<IF Pending THEN "pending" ELSE pc, Through, Delivered>>

TaskStep == Task!Next \/ UNCHANGED Mapped

LEMMA RefinesNext == IInv /\ IInv' /\ [Next]_vars => TaskStep
<1> SUFFICES ASSUME IInv, IInv', [Next]_vars PROVE TaskStep
  OBVIOUS
<1>1. CASE UNCHANGED vars
  <2>1. UNCHANGED <<pc, route, reply, filled, buffered, sent, read, method, rep, atyp, namelen>>
    BY <1>1, Zenon DEF vars, httpVars, socks5Vars
  <2>2. UNCHANGED <<Through, Delivered>>
    BY <2>1 DEF Through, Delivered, Http!Tunnel, Http!BlankLines, Http!Offered, Http!Places, Http!Min,
                Socks5!Tunnel, Socks5!Known, Socks5!HandshakeLength, Socks5!Offered, Socks5!Places
  <2> QED
    BY <2>1, <2>2, Zenon DEF Mapped, Pending, TaskStep
<1>2. CASE TimesOut
  <2>1. Pending /\ UNCHANGED <<route, reply, sent, read, method, rep, atyp, namelen>>
    BY <1>2, Zenon DEF TimesOut, httpVars, socks5Vars
  <2>2. Through' = Through
    BY <2>1 DEF Through, Http!Tunnel, Http!BlankLines, Http!Places, Http!Min,
                Socks5!Tunnel, Socks5!Known, Socks5!HandshakeLength, Socks5!Places
  <2>3. Len(Through) \in Int
    BY ThroughSeq DEF ThroughListed
  <2>4. Task!IsPrefix(Through, Through')
    BY <2>2, <2>3, SelfPrefix
  <2> QED
    BY <2>1, <2>4, StepsOfTask, Zenon DEF TaskStep
<1>3. CASE UNCHANGED route /\ route = "Direct" /\ DirectConnect
  <2>1. sent \in Nat /\ sent' \in Nat
    BY <1>3 DEF IInv
  <2>2. sent <= sent' /\ (Pending \/ UNCHANGED pc)
    BY <1>3, <2>1 DEF DirectConnect, Socks5!Server, Socks5!ServerSends, Socks5!ServerEnds,
                      socks5Vars, Pending
  <2>3. Through = Http!Places(0, sent) /\ Through' = Http!Places(0, sent')
    BY <1>3 DEF Through, Socks5!Places, Http!Places
  <2>4. Task!IsPrefix(Through, Through')
    BY <2>1, <2>2, <2>3, PlacesPrefix
  <2> QED
    BY <2>2, <2>4, StepsOfTask, Zenon DEF TaskStep
<1>4. CASE UNCHANGED route /\ route = "Socks5" /\ Socks5!Next
  <2>1. Spoken /\ Measured /\ Measured'
    BY <1>4 DEF IInv
  <2>2. Through = Socks5!Tunnel /\ Through' = Socks5!Tunnel'
    BY <1>4 DEF Through
  <2> QED
    BY <1>4, <2>1, <2>2, Socks5Refines, StepsOfTask, Zenon DEF TaskStep
<1>5. CASE UNCHANGED route /\ route = "Http" /\ Http!Next
  <2>1. Lined /\ Lined'
    BY <1>5 DEF IInv
  <2>2. Through = Http!Tunnel /\ Through' = Http!Tunnel'
    BY <1>5 DEF Through
  <2> QED
    BY <1>5, <2>1, <2>2, HttpRefines, StepsOfTask, Zenon DEF TaskStep
<1> QED
  BY <1>1, <1>2, <1>3, <1>4, <1>5 DEF Next, ConnectInner

\* Every connector implements a connect task: it returns once, and the stream
\* it returns begins exactly behind the proxy's reply, whatever the length of
\* the reply and however it and the tunnel were cut into segments.
THEOREM ConnectIsTask == Spec => ImplementsTask
<1>1. IInv /\ IInv' /\ [Next]_vars =>
        [Task!Next]_<<IF Pending THEN "pending" ELSE pc,
                      CASE route = "Http" -> Http!Tunnel
                        [] route = "Socks5" -> Socks5!Tunnel
                        [] route = "Direct" -> Socks5!Places(0, sent),
                      IF route = "Http" THEN Http!Offered ELSE Socks5!Offered>>
  BY RefinesNext, Zenon DEF TaskStep, Mapped, Through, Delivered
<1> QED
  BY <1>1, Invariance, RefinesInit, PTL DEF Spec, ImplementsTask, Task!Spec
=============================================================================
