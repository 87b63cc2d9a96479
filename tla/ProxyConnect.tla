---------------------------- MODULE ProxyConnect ----------------------------
(***************************************************************************)
(* One call of ProxyConfig::connect, src/proxy/mod.rs: connect_inner runs  *)
(* the connector of the route (HttpConnect, Socks5, or the direct one of   *)
(* src/proxy/direct.rs) and the timeout drops it wherever it is.  The      *)
(* variables of the connectors that do not run keep their first value.     *)
(***************************************************************************)
EXTENDS Naturals, Sequences

CONSTANTS BUF_CAP, MaxHttpReply,    \* see HttpConnect
          MaxSocks5Reply, MaxName   \* see Socks5

ASSUME ConnectAssumption ==
  /\ BUF_CAP \in Nat \ {0} /\ MaxHttpReply \in Nat
  /\ MaxSocks5Reply \in Nat /\ MaxName \in 0 .. 255   \* a name's length is one byte

VARIABLES route,
          pc, ending,
          reply, filled, used, start, buffered,
          has_auth, lengths, target, sent, read, wrote, method, status, rep, atyp, namelen

Http == INSTANCE HttpConnect WITH MaxReply <- MaxHttpReply
Socks5 == INSTANCE Socks5 WITH MaxReply <- MaxSocks5Reply

httpVars == <<reply, filled, used, start, buffered>>
socks5Vars == <<has_auth, lengths, target, sent, read, wrote, method, status, rep, atyp, namelen>>
vars == <<route, pc, ending, httpVars, socks5Vars>>

Init ==
  /\ route \in {"Direct", "Socks5", "Http"}
  /\ Http!Init /\ Socks5!Init
  /\ route # "Socks5" => /\ ~has_auth /\ target = Socks5!ATYP_IPV4
                         /\ lengths.credentials /\ lengths.host

-----------------------------------------------------------------------------
\* DirectConnector: the stream is the tunnel as soon as it is connected.
DirectConnect ==
  \/ /\ pc = "dial" /\ pc' \in {"ok", "err"} /\ UNCHANGED <<ending, httpVars, socks5Vars>>
  \/ Socks5!Server /\ UNCHANGED httpVars

\* connect_inner.
ConnectInner ==
  /\ UNCHANGED route
  /\ \/ route = "Direct" /\ DirectConnect
     \/ route = "Socks5" /\ Socks5!Next /\ UNCHANGED httpVars
     \/ route = "Http" /\ Http!Next /\ UNCHANGED socks5Vars

Pending == pc \notin {"ok", "err"}

\* A bug that limits the TCP connect alone.
TimesOut_DialOnly ==
  /\ pc = "dial" /\ pc' = "err"
  /\ UNCHANGED <<route, ending, httpVars, socks5Vars>>

\* connect drops the connector after CONNECT_TIMEOUT.
TimesOut ==
  /\ Pending /\ pc' = "err"
  /\ UNCHANGED <<route, ending, httpVars, socks5Vars>>

Next == ConnectInner \/ TimesOut

Spec == Init /\ [][Next]_vars

\* The timer expires; nothing is assumed of the server.
FairSpec == Spec /\ WF_vars(TimesOut)

-----------------------------------------------------------------------------
(* Properties.                                                             *)

\* Socks5: credentials go out only if the route has them and the server chose
\* that method, and the request only once the chosen method is satisfied.
MessagesInOrder == Socks5!MessagesInOrder

Task ==
  INSTANCE ConnectTask WITH
    result <- IF Pending THEN "pending" ELSE pc,
    tunnel <- CASE route = "Http" -> Http!Tunnel
                [] route = "Socks5" -> Socks5!Tunnel
                [] route = "Direct" -> Socks5!Places(0, sent),
    offered <- IF route = "Http" THEN Http!Offered ELSE Socks5!Offered

\* Every connector implements a connect task: the stream it returns begins
\* exactly behind the proxy's reply, for every address type and name length of
\* a SOCKS5 reply, and whatever of the tunnel the reader of the HTTP reply had
\* already taken from the socket.
ImplementsTask == Task!Spec

\* proxy.connect returns, even if the server never says a word.
Returns == Task!Terminates
=============================================================================
