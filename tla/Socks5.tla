------------------------------- MODULE Socks5 -------------------------------
(***************************************************************************)
(* The SOCKS5 connector: connect, negotiate_method, authenticate,          *)
(* send_connect_request and skip_addr of src/proxy/socks5.rs.  There is no *)
(* buffered reader: every reply is taken by read_exact, so the stream is   *)
(* handed over at the right byte only if every reply is measured right.    *)
(*                                                                         *)
(* The server sends anything.  Its bytes are counted; the value of a byte  *)
(* is chosen when it is read.  Bounds: MaxReply bytes are sent, the domain *)
(* name in a reply has at most MaxName bytes.                              *)
(***************************************************************************)
EXTENDS Naturals, Sequences

CONSTANTS MaxReply, MaxName

\* The bytes that matter, and one that stands for every other.
SOCKS5_VERSION == 5
METHOD_NO_AUTH == 0
METHOD_USER_PASS == 2
METHOD_NO_ACCEPTABLE == 255
ATYP_IPV4 == 1
ATYP_DOMAIN == 3
ATYP_IPV6 == 4
SUCCESS == 0
Other == 9
Byte == 0 .. 5 \cup {METHOD_NO_ACCEPTABLE, Other}

VARIABLES pc,        \* where connect is, or how it returned
          has_auth,  \* the route has credentials
          lengths,   \* whether the user name, password and host fit in 255 bytes
          target,    \* the address type of the target
          sent,      \* bytes the server has sent
          ending,    \* how the server's direction ended, if it has
          read,      \* bytes consumed by read_exact
          wrote,     \* the messages written, in order
          method, status, rep, atyp, namelen  \* the fields read so far

fields == <<method, status, rep, atyp, namelen>>
given == <<has_auth, lengths, target>>
vars == <<pc, given, sent, ending, read, wrote, fields>>

Unread == 256

Init ==
  /\ pc = "dial" /\ has_auth \in BOOLEAN /\ target \in {ATYP_IPV4, ATYP_IPV6, ATYP_DOMAIN}
  /\ lengths \in [credentials : BOOLEAN, host : BOOLEAN]
  /\ sent = 0 /\ ending = "open" /\ read = 0 /\ wrote = <<>>
  /\ method = Unread /\ status = Unread /\ rep = Unread /\ atyp = Unread /\ namelen = Unread

-----------------------------------------------------------------------------
(* The server, once the TCP connection stands.                             *)

ServerSends ==
  /\ pc # "dial" /\ ending = "open" /\ sent < MaxReply /\ sent' = sent + 1
  /\ UNCHANGED <<pc, given, ending, read, wrote, fields>>

ServerEnds ==
  /\ pc # "dial" /\ ending = "open" /\ ending' \in {"eof", "reset"}
  /\ UNCHANGED <<pc, given, sent, read, wrote, fields>>

-----------------------------------------------------------------------------
(* connect.                                                                *)

Dial ==
  /\ pc = "dial" /\ pc' \in {"greet", "err"}
  /\ UNCHANGED <<given, sent, ending, read, wrote, fields>>

\* write_all of a message, after the checks of the lengths it contains.
Write(at, fits, message, next) ==
  /\ pc = at
  /\ \/ fits /\ wrote' = Append(wrote, message) /\ pc' = next
     \/ (~fits \/ ending # "open") /\ pc' = "err" /\ UNCHANGED wrote
  /\ UNCHANGED <<given, sent, ending, read, fields>>

\* read_exact of n bytes.
ReadExact(at, n) == pc = at /\ sent - read >= n /\ read' = read + n

WriteGreeting == Write("greet", TRUE, "greeting", "method")

MethodAccepted(m) == m = METHOD_NO_AUTH \/ (m = METHOD_USER_PASS /\ has_auth)

\* A bug that sends the request without authenticating first.
AfterMethod_Skips(m) == "request"

AfterMethod(m) == IF m = METHOD_USER_PASS THEN "credentials" ELSE "request"

\* negotiate_method: the server's version and choice of a method.
ReadMethod ==
  /\ ReadExact("method", 2)
  /\ \E v \in Byte, m \in Byte :
       /\ method' = m
       /\ pc' = IF v = SOCKS5_VERSION /\ MethodAccepted(m) THEN AfterMethod(m) ELSE "err"
  /\ UNCHANGED <<given, sent, ending, wrote, status, rep, atyp, namelen>>

WriteCredentials == Write("credentials", lengths.credentials, "credentials", "status")

\* authenticate: the version of the answer is not looked at.
ReadStatus ==
  /\ ReadExact("status", 2)
  /\ \E s \in Byte : status' = s /\ pc' = IF s = SUCCESS THEN "request" ELSE "err"
  /\ UNCHANGED <<given, sent, ending, wrote, method, rep, atyp, namelen>>

WriteRequest ==
  Write("request", target = ATYP_DOMAIN => lengths.host, "request", "header")

\* send_connect_request: version, reply code, a reserved byte, address type.
ReadHeader ==
  /\ ReadExact("header", 4)
  /\ \E v \in Byte, r \in Byte, a \in Byte :
       /\ rep' = r /\ atyp' = a
       /\ pc' = CASE v # SOCKS5_VERSION \/ r # SUCCESS -> "err"
                  [] v = SOCKS5_VERSION /\ r = SUCCESS /\ a = ATYP_DOMAIN -> "namelen"
                  [] v = SOCKS5_VERSION /\ r = SUCCESS /\ a \in {ATYP_IPV4, ATYP_IPV6} -> "address"
                  [] OTHER -> "err"
  /\ UNCHANGED <<given, sent, ending, wrote, method, status, namelen>>

ReadNameLength ==
  /\ ReadExact("namelen", 1)
  /\ namelen' \in 0 .. MaxName /\ pc' = "address"
  /\ UNCHANGED <<given, sent, ending, wrote, method, status, rep, atyp>>

\* skip_addr: the address and the port.
AddressLength ==
  CASE atyp = ATYP_IPV4 -> 6 [] atyp = ATYP_IPV6 -> 18 [] atyp = ATYP_DOMAIN -> namelen + 2

ReadAddress ==
  /\ pc = "address" /\ ReadExact("address", AddressLength) /\ pc' = "ok"
  /\ UNCHANGED <<given, sent, ending, wrote, fields>>

Needed == [method |-> 2, status |-> 2, header |-> 4, namelen |-> 1]

\* read_exact fails when the stream ends before it is satisfied, and on a
\* reset, which may overtake bytes not yet taken.
ReadFails ==
  /\ pc \in DOMAIN Needed \cup {"address"}
  /\ \/ ending = "reset"
     \/ ending = "eof" /\ sent - read < (IF pc = "address" THEN AddressLength ELSE Needed[pc])
  /\ pc' = "err"
  /\ UNCHANGED <<given, sent, ending, read, wrote, fields>>

Connect ==
  \/ Dial \/ WriteGreeting \/ ReadMethod \/ WriteCredentials \/ ReadStatus
  \/ WriteRequest \/ ReadHeader \/ ReadNameLength \/ ReadAddress \/ ReadFails

Server == ServerSends \/ ServerEnds

Next == Server \/ Connect

-----------------------------------------------------------------------------
(* Properties.                                                             *)

\* What the server may rely on, whatever it answers: credentials go out only
\* if the route has them and the server chose that method, and the request
\* only once the chosen method is satisfied.
MessagesInOrder ==
  /\ wrote \in {<<>>, <<"greeting">>, <<"greeting", "credentials">>,
                <<"greeting", "request">>, <<"greeting", "credentials", "request">>}
  /\ Len(wrote) > 1 /\ wrote[2] = "credentials" => has_auth /\ method = METHOD_USER_PASS
  /\ Len(wrote) > 1 /\ wrote[Len(wrote)] = "request" =>
       \/ method = METHOD_NO_AUTH /\ status = Unread
       \/ method = METHOD_USER_PASS /\ status = SUCCESS

\* The length of the server's side of the handshake by RFC 1928 and RFC 1929,
\* once the fields that determine it are known.
Known == atyp # Unread /\ (atyp = ATYP_DOMAIN => namelen # Unread)
HandshakeLength ==
  2 + (IF method = METHOD_USER_PASS THEN 2 ELSE 0)
    + 4 + (CASE atyp = ATYP_IPV4 -> 4 [] atyp = ATYP_IPV6 -> 16 [] OTHER -> 1 + namelen) + 2

Places(from, to) == [i \in 1 .. to - from |-> from + i]

Tunnel ==
  IF rep = SUCCESS /\ atyp \in {ATYP_IPV4, ATYP_DOMAIN, ATYP_IPV6} /\ Known
  THEN IF sent >= HandshakeLength THEN Places(HandshakeLength, sent) ELSE <<>>
  ELSE <<>>

Offered == IF pc = "ok" THEN Places(read, sent) ELSE <<>>
=============================================================================
