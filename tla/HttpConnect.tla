---------------------------- MODULE HttpConnect ----------------------------
(***************************************************************************)
(* The HTTP CONNECT connector: do_connect of src/proxy/http.rs.  The reply *)
(* is read line by line through a BufReader, which takes whatever the      *)
(* socket holds and so may read into the tunnel; what it holds when the    *)
(* headers end is handed over with the stream.                             *)
(*                                                                         *)
(* The server sends anything.  A byte of the reply is known by its place;  *)
(* a line is text, text that parses as a status line with code 200, or not *)
(* UTF-8.  Bounds: MaxReply bytes are sent.                                *)
(***************************************************************************)
EXTENDS Naturals, Sequences, FiniteSetsExt

CONSTANTS BUF_CAP,   \* capacity of the BufReader
          MaxReply

VARIABLES pc,        \* where do_connect is, or how it returned
          reply,     \* everything the server has sent
          ending,    \* how the server's direction ended, if it has
          filled,    \* bytes taken from the socket; the BufReader holds used + 1 .. filled
          used,      \* bytes consumed by read_line
          start,     \* bytes consumed by complete lines
          buffered   \* the bytes handed over with the stream, by their places

vars == <<pc, reply, ending, filled, used, start, buffered>>

\* "\n" ends a line and "\r" is trimmed with it; "200" begins a good status line.
Byte == {"200", "text", "notUtf8", "nl"}

Places(from, to) == [i \in 1 .. to - from |-> from + i]

Init ==
  /\ pc = "dial" /\ reply = <<>> /\ ending = "open"
  /\ filled = 0 /\ used = 0 /\ start = 0 /\ buffered = <<>>

-----------------------------------------------------------------------------
(* The server, once the TCP connection stands.                             *)

Connected == pc # "dial"

ServerSends ==
  /\ Connected /\ ending = "open" /\ Len(reply) < MaxReply
  /\ \E b \in Byte : reply' = Append(reply, b)
  /\ UNCHANGED <<pc, ending, filled, used, start, buffered>>

ServerEnds ==
  /\ Connected /\ ending = "open" /\ ending' \in {"eof", "reset"}
  /\ UNCHANGED <<pc, reply, filled, used, start, buffered>>

-----------------------------------------------------------------------------
(* do_connect.                                                             *)

Reading == pc \in {"status", "headers"}

Dial ==
  /\ pc = "dial" /\ pc' \in {"write", "err"}
  /\ UNCHANGED <<reply, ending, filled, used, start, buffered>>

WriteRequest ==
  /\ pc = "write" /\ pc' \in {"status"} \cup (IF ending = "open" THEN {} ELSE {"err"})
  /\ UNCHANGED <<reply, ending, filled, used, start, buffered>>

FillSizes == 1 .. Min({BUF_CAP, Len(reply) - filled})

\* BufReader: an empty buffer is filled with what the socket gives.
Fill ==
  /\ Reading /\ used = filled
  /\ \E n \in FillSizes : filled' = filled + n
  /\ UNCHANGED <<pc, reply, ending, used, start, buffered>>

\* A bug that returns the stream without the bytes read ahead.
Prefetched_Dropped(from, to) == <<>>

Prefetched(from, to) == Places(from, to)

\* A line read to `to`: parse_status_code for the first one, which fails on
\* any code but 200; then headers, until one is blank.
LineDone(to) ==
  LET line == SubSeq(reply, start + 1, to)
      valid == \A i \in 1 .. Len(line) : line[i] # "notUtf8"
      good == line # <<>> /\ line[1] = "200"
      blank == \A i \in 1 .. Len(line) : line[i] = "nl"
  IN  /\ start' = to
      /\ pc' = CASE valid /\ pc = "status" /\ good -> "headers"
                 [] valid /\ pc = "headers" /\ ~blank -> "headers"
                 [] valid /\ pc = "headers" /\ blank -> "ok"
                 [] OTHER -> "err"
      /\ buffered' = IF pc' = "ok" THEN Prefetched(to, filled) ELSE <<>>

\* read_line consumes the buffer up to the end of the line, or all of it.
ReadLine ==
  /\ Reading /\ used < filled
  /\ LET newlines == {i \in used + 1 .. filled : reply[i] = "nl"} IN
       \/ /\ newlines # {} /\ used' = Min(newlines) /\ LineDone(Min(newlines))
       \/ /\ newlines = {} /\ used' = filled /\ UNCHANGED <<pc, start, buffered>>
  /\ UNCHANGED <<reply, ending, filled>>

\* The end of the stream ends the line, an empty one included.
ReadEof ==
  /\ Reading /\ used = filled /\ filled = Len(reply) /\ ending = "eof"
  /\ LineDone(used)
  /\ UNCHANGED <<reply, ending, filled, used>>

\* A reset fails the read; it may overtake bytes not yet taken.
ReadFails ==
  /\ Reading /\ used = filled /\ ending = "reset" /\ pc' = "err"
  /\ UNCHANGED <<reply, ending, filled, used, start, buffered>>

Server == ServerSends \/ ServerEnds

Connect == Dial \/ WriteRequest \/ Fill \/ ReadLine \/ ReadEof \/ ReadFails

Next == Server \/ Connect

-----------------------------------------------------------------------------
(* What the tunnel is, for the refinement of ConnectTask.                  *)

\* Where the tunnel begins: behind the first blank line after the status line.
BlankLines == {i \in 2 .. Len(reply) : reply[i] = "nl" /\ reply[i - 1] = "nl"}

Tunnel == IF BlankLines = {} THEN <<>> ELSE Places(Min(BlankLines), Len(reply))

\* What the returned stream delivers: the bytes handed over, then the socket's.
Offered == IF pc = "ok" THEN buffered \o Places(filled, Len(reply)) ELSE <<>>
=============================================================================
