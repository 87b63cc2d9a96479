---------------------------- MODULE ProcessProofs ----------------------------
(***************************************************************************)
(* Proofs about the processes: the setup protocol between parent and child *)
(* (Setup), and the command tree and its reaper (Reaper), for trees of any *)
(* size and any shape.                                                     *)
(***************************************************************************)
EXTENDS Setup, Reaper, FiniteSetTheorems, WellFoundedInduction, TLAPS

-----------------------------------------------------------------------------
(* The setup protocol.  The two bytes the parent sends look the same, so   *)
(* the argument counts them: what is queued for the child is at most what  *)
(* was sent and has not been read.                                         *)

PastMaps == {"loopback", "tun", "mounts", "send_fd", "wait_ready", "close", "command"}
Released == parent \in {"spawn", "run", "shutdown", "exit"}
AckSent == ns.maps /\ parent # "ack"
AckRead == ns.user /\ child \in PastMaps
ReadyRead == child \in {"close", "command"}

Unread == (IF AckSent /\ ~AckRead THEN 1 ELSE 0) + (IF Released /\ ~ReadyRead THEN 1 ELSE 0)

\* The parent knows of the child's namespace what the first byte says.
Informed ==
  /\ child \in {"fork", "unshare", "signal"} => parent \in {"fork", "wait_signal"} /\ to_parent = <<>>
  /\ (parent \in {"fork", "wait_signal"} /\ to_parent # <<>>)
       => Head(to_parent).b = (IF ns.user THEN 1 ELSE 0)
  /\ (parent \in {"fork", "wait_signal"} /\ child \notin {"fork", "unshare", "signal"} /\ parent_sock # {})
       => to_parent # <<>>
  /\ parent \in {"maps", "ack"} => ns.user
  /\ child = "wait_maps" => ns.user
  /\ ns.maps <=> (ns.user /\ parent \notin {"fork", "wait_signal", "maps"})

\* No byte is read that was not sent.
Counted ==
  /\ AckRead => AckSent
  /\ ReadyRead => Released
  /\ Len(to_child) <= Unread
  /\ ns.made # <<>> => child \in PastMaps

\* The TUN descriptor, and the end.
Held ==
  /\ tun \subseteq alive
  /\ ("parent" \in alive /\ parent \in {"bind", "runtime", "ready"} \cup {"spawn", "run", "shutdown", "exit"})
       => "parent" \in tun
  /\ child = "command" => "child" \notin tun
  /\ parent \in {"shutdown", "exit"} => "child" \notin alive
  /\ event_loop = "stopped" => parent \in {"shutdown", "exit"}

SetupIInv == SetupTypeOK /\ Informed /\ Counted /\ Held

LEMMA SetupInitIInv == SetupInit => SetupIInv
<1> SUFFICES ASSUME SetupInit PROVE SetupIInv
  OBVIOUS
<1>1. SetupTypeOK
  <2>1. ns \in [user : BOOLEAN, maps : BOOLEAN, made : Seq({"loopback", "tun", "mounts"})]
    <3>1. <<>> \in Seq({"loopback", "tun", "mounts"})
      OBVIOUS
    <3> QED
      BY <3>1 DEF SetupInit
  <2>2. to_parent \in Seq(Byte) /\ to_child \in Seq(Byte)
    BY DEF SetupInit
  <2> QED
    BY <2>1, <2>2 DEF SetupInit, SetupTypeOK, Process, ChildPC, ParentPC
<1>2. Informed /\ Held
  BY DEF SetupInit, Informed, Held, Process
<1>3. Len(to_child) = 0
  BY DEF SetupInit
<1>4. Counted
  BY <1>3 DEF SetupInit, Counted, PastMaps, Released, AckSent, AckRead, ReadyRead, Unread
<1> QED
  BY <1>1, <1>2, <1>4 DEF SetupIInv

\* Queues of bytes.
LEMMA Queues ==
  ASSUME NEW q \in Seq(Byte)
  PROVE  /\ \A m \in Byte : /\ Append(q, m) \in Seq(Byte) /\ Len(Append(q, m)) = Len(q) + 1
                            /\ Append(q, m) # <<>>
                            /\ Head(Append(q, m)) = IF q = <<>> THEN m ELSE Head(q)
         /\ q # <<>> => /\ Tail(q) \in Seq(Byte) /\ Len(Tail(q)) = Len(q) - 1 /\ Len(q) >= 1
                        /\ Head(q) \in Byte
         /\ Len(q) \in Nat /\ Len(<<>>) = 0 /\ <<>> \in Seq(Byte)
<1>1. ASSUME NEW m \in Byte
      PROVE  /\ Append(q, m) \in Seq(Byte) /\ Len(Append(q, m)) = Len(q) + 1
             /\ Append(q, m) # <<>>
  <2>1. Append(q, m) \in Seq(Byte) /\ Len(Append(q, m)) = Len(q) + 1 /\ Len(q) \in Nat
    OBVIOUS
  <2>2. Len(<<>>) = 0
    OBVIOUS
  <2> QED
    BY <2>1, <2>2
<1>2. ASSUME NEW m \in Byte PROVE Head(Append(q, m)) = IF q = <<>> THEN m ELSE Head(q)
  <2>1. CASE q = <<>>
    BY <2>1
  <2>2. CASE q # <<>>
    <3>1. Len(q) >= 1
      BY <2>2
    <3> QED
      BY <2>2, <3>1
  <2> QED
    BY <2>1, <2>2
<1>3. q # <<>> => /\ Tail(q) \in Seq(Byte) /\ Len(Tail(q)) = Len(q) - 1 /\ Len(q) >= 1
                  /\ Head(q) \in Byte
  OBVIOUS
<1>4. Len(q) \in Nat /\ Len(<<>>) = 0 /\ <<>> \in Seq(Byte)
  OBVIOUS
<1> QED
  BY <1>1, <1>2, <1>3, <1>4

LEMMA Bytes == \A b \in {0, 1} : Plain(b) \in Byte /\ Plain(b).b = b
BY DEF Plain, Byte

\* Steps that end a process.
LEMMA ExitIInv ==
  ASSUME SetupIInv, NEW p \in Process, Exit(p), UNCHANGED <<ns, event_loop, child>>, terminating' \in BOOLEAN,
         \/ UNCHANGED parent
         \/ parent = "shutdown" /\ parent' = "exit" /\ p = "parent"
  PROVE  SetupIInv'
<1>1. SetupTypeOK'
  BY DEF SetupIInv, SetupTypeOK, Exit, ParentPC
<1>2. to_parent' \in {to_parent, <<>>} /\ to_child' \in {to_child, <<>>}
  BY DEF Exit
<1>3. Informed'
  BY <1>2 DEF SetupIInv, Informed, Exit
<1>4. Counted'
  BY <1>2 DEF SetupIInv, SetupTypeOK, Counted, Released, AckSent, AckRead, ReadyRead, Unread
<1>5. Held'
  BY DEF SetupIInv, Held, Exit
<1> QED
  BY <1>1, <1>3, <1>4, <1>5 DEF SetupIInv

\* Steps of the child that leave both queues alone.
LEMMA ChildLocalIInv ==
  ASSUME SetupIInv, CloseParentEnd \/ CreateNamespace \/ BringupLoopback \/ CreateTun \/ SetupMounts
  PROVE  SetupIInv'
<1>1. UNCHANGED <<parent, event_loop, terminating, alive, child_sock, to_parent, to_child>>
  BY DEF CloseParentEnd, CreateNamespace, BringupLoopback, CreateTun, SetupMounts, Configure, ChildIO,
         parentVars
<1>0. \/ UNCHANGED ns
      \/ child = "unshare" /\ \E user \in BOOLEAN : ns' = [ns EXCEPT !.user = user]
      \/ \E what \in {"loopback", "tun", "mounts"} :
           child = what /\ ns' = [ns EXCEPT !.made = Append(@, what)]
  BY DEF CloseParentEnd, CreateNamespace, BringupLoopback, CreateTun, SetupMounts, Configure, ChildAt
<1> DEFINE Made == Seq({"loopback", "tun", "mounts"})
<1>2. /\ ns' \in [user : BOOLEAN, maps : BOOLEAN, made : Made]
      /\ ns'.maps = ns.maps /\ (ns'.user = ns.user \/ (child = "unshare" /\ ns'.user \in BOOLEAN))
      /\ ns'.made # <<>> => ns.made # <<>> \/ child \in {"loopback", "tun", "mounts"}
  <2>0. ns \in [user : BOOLEAN, maps : BOOLEAN, made : Made]
    BY DEF SetupIInv, SetupTypeOK
  <2>1. \A what \in {"loopback", "tun", "mounts"} : Append(ns.made, what) \in Made
    BY <2>0
  <2> QED
    BY <1>0, <2>0, <2>1
<1>3. \/ child = "fork" /\ child' = "unshare"
      \/ child = "unshare" /\ child' = "signal"
      \/ child = "loopback" /\ child' = "tun"
      \/ child = "tun" /\ child' = "mounts"
      \/ child = "mounts" /\ child' = "send_fd"
  BY DEF CloseParentEnd, CreateNamespace, BringupLoopback, CreateTun, SetupMounts, Configure, ChildAt
<1>5. tun' \in {tun, tun \cup {"child"}} /\ "child" \in alive
  BY DEF CloseParentEnd, CreateNamespace, BringupLoopback, CreateTun, SetupMounts, Configure, ChildAt
<1>6. parent_sock' \subseteq parent_sock
  BY DEF CloseParentEnd, CreateNamespace, BringupLoopback, CreateTun, SetupMounts, Configure, ChildIO
<1>7. SetupTypeOK'
  BY <1>1, <1>2, <1>3, <1>5, <1>6 DEF SetupIInv, SetupTypeOK, ChildPC, Process
<1>8. Informed'
  BY <1>1, <1>2, <1>3, <1>6 DEF SetupIInv, Informed
<1>9. Counted'
  BY <1>1, <1>2, <1>3 DEF SetupIInv, Counted, PastMaps, Released, AckSent, AckRead, ReadyRead, Unread
<1>10. Held'
  BY <1>1, <1>3, <1>5 DEF SetupIInv, Held
<1> QED
  BY <1>7, <1>8, <1>9, <1>10 DEF SetupIInv

\* The child writes: the first byte it sends tells of its namespace.
LEMMA ChildSendsIInv ==
  ASSUME SetupIInv, SignalUnshared \/ SendFd
  PROVE  SetupIInv'
<1>0. to_parent \in Seq(Byte) /\ UNCHANGED <<parent, event_loop, terminating, alive, parent_sock,
                                             child_sock, to_child, ns, tun>>
  BY DEF SetupIInv, SetupTypeOK, SignalUnshared, SendFd, ChildIO, parentVars
<1>1. PICK m \in Byte : /\ to_parent' = Append(to_parent, m)
                        /\ child = "signal" => m.b = IF ns.user THEN 1 ELSE 0
  <2>1. CASE SignalUnshared
    BY <2>1, Bytes DEF SignalUnshared, SetupIInv, SetupTypeOK
  <2>2. CASE SendFd
    <3>1. [b |-> 0, fd |-> TRUE] \in Byte
      BY DEF Byte
    <3>2. to_parent' = Append(to_parent, [b |-> 0, fd |-> TRUE]) /\ child = "send_fd"
      BY <2>2, Zenon DEF SendFd, ChildAt
    <3> QED
      BY <3>1, <3>2
  <2> QED
    BY <2>1, <2>2
<1>2. /\ to_parent' \in Seq(Byte) /\ to_parent' # <<>>
      /\ Head(to_parent') = IF to_parent = <<>> THEN m ELSE Head(to_parent)
  BY <1>0, <1>1, Queues
<1>3. \/ child = "signal" /\ child' = IF ns.user THEN "wait_maps" ELSE "loopback"
      \/ child = "send_fd" /\ child' = "wait_ready"
  BY DEF SignalUnshared, SendFd, ChildAt
<1>4. SetupTypeOK'
  BY <1>0, <1>2, <1>3 DEF SetupIInv, SetupTypeOK, ChildPC
<1>5. child = "send_fd" /\ parent \in {"fork", "wait_signal"} => to_parent # <<>>
  BY DEF SetupIInv, Informed, SignalUnshared, SendFd, ChildAt
<1>6. Informed'
  <2>1. Informed /\ (child' = "wait_maps" => ns.user) /\ child' \notin {"fork", "unshare", "signal"}
    BY <1>3 DEF SetupIInv
  <2>2. parent \in {"fork", "wait_signal"} => Head(to_parent').b = (IF ns.user THEN 1 ELSE 0)
    BY <1>1, <1>2, <1>3, <1>5 DEF SetupIInv, Informed
  <2> QED
    BY <1>0, <1>2, <2>1, <2>2 DEF Informed
<1>7. Counted'
  BY <1>0, <1>3 DEF SetupIInv, Informed, Counted, PastMaps, Released, AckSent, AckRead, ReadyRead, Unread
<1>8. Held'
  BY <1>0, <1>3 DEF SetupIInv, Held
<1> QED
  BY <1>4, <1>6, <1>7, <1>8 DEF SetupIInv

\* The child reads a byte: it is the one it waits for.
LEMMA ChildReadsIInv ==
  ASSUME SetupIInv, WaitMaps \/ WaitReady
  PROVE  SetupIInv'
<1>0. to_child \in Seq(Byte) /\ to_child # <<>> /\ to_child' = Tail(to_child)
  BY DEF SetupIInv, SetupTypeOK, WaitMaps, WaitReady, ReadByte
<1>1. to_child' \in Seq(Byte) /\ Len(to_child') = Len(to_child) - 1 /\ Len(to_child) >= 1
      /\ Len(to_child) \in Nat
  BY <1>0, Queues
<1>2. UNCHANGED <<parent, event_loop, terminating, alive, parent_sock, child_sock, to_parent, ns, tun>>
  BY DEF WaitMaps, WaitReady, ReadByte, ChildIO, parentVars
<1>3. \/ child = "wait_maps" /\ child' = "loopback"
      \/ child = "wait_ready" /\ child' = "close"
  BY DEF WaitMaps, WaitReady, ReadByte, ChildAt
<1>4. SetupTypeOK'
  BY <1>1, <1>2, <1>3 DEF SetupIInv, SetupTypeOK, ChildPC
<1>5. Informed'
  BY <1>2, <1>3 DEF SetupIInv, Informed
<1>6. Counted'
  BY <1>1, <1>2, <1>3 DEF SetupIInv, SetupTypeOK, Informed, Counted, PastMaps, Released, AckSent, AckRead, ReadyRead, Unread
<1>7. Held'
  BY <1>2, <1>3 DEF SetupIInv, Held
<1> QED
  BY <1>4, <1>5, <1>6, <1>7 DEF SetupIInv

LEMMA CloseSetupFdsIInv ==
  ASSUME SetupIInv, CloseSetupFds
  PROVE  SetupIInv'
<1>1. /\ UNCHANGED <<parent, event_loop, terminating, alive, parent_sock, to_parent, ns>>
      /\ child = "close" /\ child' = "command" /\ tun' = tun \ {"child"}
      /\ child_sock' = child_sock \ {"child"} /\ to_child' \in {to_child, <<>>}
  BY DEF CloseSetupFds, ChildAt, parentVars
<1>2. SetupTypeOK'
  <2>1. to_child' \in Seq(Byte)
    BY <1>1, Queues DEF SetupIInv, SetupTypeOK
  <2>2. child' \in ChildPC /\ tun' \subseteq Process /\ child_sock' \subseteq Process
    BY <1>1 DEF SetupIInv, SetupTypeOK, ChildPC
  <2> QED
    BY <1>1, <2>1, <2>2 DEF SetupIInv, SetupTypeOK
<1>3. Informed' /\ Held'
  BY <1>1 DEF SetupIInv, Informed, Held
<1>4. Len(to_child') <= Len(to_child) /\ Len(to_child) \in Nat /\ Len(to_child') \in Nat
  BY <1>1, Queues DEF SetupIInv, SetupTypeOK
<1>5. Counted'
  BY <1>1, <1>4 DEF SetupIInv, SetupTypeOK, Counted, PastMaps, Released, AckSent, AckRead, ReadyRead, Unread
<1> QED
  BY <1>2, <1>3, <1>5 DEF SetupIInv

-----------------------------------------------------------------------------
(* The parent.                                                             *)

\* Steps of the parent that move on with neither queue touched.
LEMMA ParentLocalIInv ==
  ASSUME SetupIInv, \/ CloseChildEnd \/ BindPublishes \/ BuildRuntime
                    \/ SpawnEventLoop \/ CollectChild \/ EventLoopStep
  PROVE  SetupIInv'
<1>1. UNCHANGED <<child, alive, parent_sock, to_parent, to_child, ns, tun, terminating>>
  BY DEF CloseChildEnd, BindPublishes, BuildRuntime, SpawnEventLoop, CollectChild, EventLoopStep, ParentIO
<1>2. \/ parent = "fork" /\ parent' = "wait_signal" /\ UNCHANGED event_loop
      \/ parent = "bind" /\ parent' = "runtime" /\ UNCHANGED event_loop
      \/ parent = "runtime" /\ parent' = "ready" /\ UNCHANGED event_loop
      \/ parent = "spawn" /\ parent' = "run" /\ event_loop' = "new"
      \/ parent = "run" /\ parent' = "shutdown" /\ "child" \notin alive /\ UNCHANGED event_loop
      \/ UNCHANGED parent /\ event_loop' \in {"running", "failed"}
      \/ parent = "shutdown" /\ UNCHANGED parent /\ event_loop' = "stopped"
  BY DEF CloseChildEnd, BindPublishes, BuildRuntime, SpawnEventLoop, CollectChild, EventLoopStep,
         ParentIO, ParentAt
<1>3. child_sock' \subseteq child_sock
  BY DEF CloseChildEnd, BindPublishes, BuildRuntime, SpawnEventLoop, CollectChild, EventLoopStep, ParentIO
<1>4. SetupTypeOK'
  <2>1. /\ parent' \in ParentPC /\ child_sock' \subseteq Process
        /\ event_loop' \in {"none", "new", "running", "failed", "stopped"}
    BY <1>2, <1>3 DEF SetupIInv, SetupTypeOK, ParentPC
  <2> QED
    BY <1>1, <2>1 DEF SetupIInv, SetupTypeOK
<1>5. Informed' /\ Held'
  BY <1>1, <1>2 DEF SetupIInv, Informed, Held
<1>6. Counted'
  BY <1>1, <1>2 DEF SetupIInv, Counted, PastMaps, Released, AckSent, AckRead, ReadyRead, Unread
<1> QED
  BY <1>4, <1>5, <1>6 DEF SetupIInv

\* The parent reads the unshare signal, or receives the TUN descriptor.
LEMMA ParentReadsIInv ==
  ASSUME SetupIInv, ReadSignal \/ RecvFd
  PROVE  SetupIInv'
<1>0. to_parent \in Seq(Byte) /\ to_parent # <<>> /\ to_parent' = Tail(to_parent)
  BY DEF SetupIInv, SetupTypeOK, ReadSignal, RecvFd
<1>1. to_parent' \in Seq(Byte)
  BY <1>0, Queues
<1>2. UNCHANGED <<child, alive, parent_sock, child_sock, to_child, ns, event_loop, terminating>>
  BY DEF ReadSignal, RecvFd, ParentIO
<1>3. \/ /\ parent = "wait_signal" /\ parent' = AfterSignal(Head(to_parent).b) /\ UNCHANGED tun
      \/ parent = "recv_fd" /\ parent' = "bind" /\ tun' = tun \cup {"parent"}
  BY DEF ReadSignal, RecvFd, ParentAt
<1>4. \/ /\ parent = "wait_signal" /\ parent' = (IF ns.user THEN "maps" ELSE "recv_fd") /\ UNCHANGED tun
      \/ parent = "recv_fd" /\ parent' = "bind" /\ tun' = tun \cup {"parent"}
  BY <1>0, <1>3 DEF SetupIInv, SetupTypeOK, Informed, AfterSignal
<1>5. "parent" \in alive
  BY DEF ReadSignal, RecvFd, ParentAt
<1>6. child \notin {"fork", "unshare", "signal"}
  BY <1>0, <1>4 DEF SetupIInv, Informed
<1>7. SetupTypeOK'
  <2>1. parent' \in ParentPC /\ tun' \subseteq Process
    BY <1>4 DEF SetupIInv, SetupTypeOK, ParentPC, Process
  <2> QED
    BY <1>1, <1>2, <2>1 DEF SetupIInv, SetupTypeOK
<1>8. Informed' /\ Held'
  BY <1>2, <1>4, <1>5, <1>6 DEF SetupIInv, Informed, Held
<1>9. Counted'
  BY <1>2, <1>4 DEF SetupIInv, Informed, Counted, PastMaps, Released, AckSent, AckRead, ReadyRead, Unread
<1> QED
  BY <1>7, <1>8, <1>9 DEF SetupIInv

LEMMA WriteIdMapsIInv ==
  ASSUME SetupIInv, WriteIdMaps
  PROVE  SetupIInv'
<1>1. /\ UNCHANGED <<child, alive, parent_sock, child_sock, to_parent, to_child, tun, event_loop, terminating>>
      /\ parent = "maps" /\ parent' = "ack" /\ ns' = [ns EXCEPT !.maps = TRUE]
  BY DEF WriteIdMaps, ParentAt, ParentIO
<1>2. /\ ns' \in [user : BOOLEAN, maps : BOOLEAN, made : Seq({"loopback", "tun", "mounts"})]
      /\ ns'.maps /\ ns'.user = ns.user /\ ns'.made = ns.made
  BY <1>1 DEF SetupIInv, SetupTypeOK
<1>3. SetupTypeOK'
  BY <1>1, <1>2 DEF SetupIInv, SetupTypeOK, ParentPC
<1>4. Informed' /\ Held'
  BY <1>1, <1>2 DEF SetupIInv, Informed, Held
<1>5. Counted'
  BY <1>1, <1>2 DEF SetupIInv, Informed, Counted, PastMaps, Released, AckSent, AckRead, ReadyRead, Unread
<1> QED
  BY <1>3, <1>4, <1>5 DEF SetupIInv

\* The parent writes one of the two bytes.
LEMMA ParentWritesIInv ==
  ASSUME SetupIInv, AckMaps \/ WriteReady
  PROVE  SetupIInv'
<1>0. to_child \in Seq(Byte) /\ to_child' = Append(to_child, Plain(1))
  BY DEF SetupIInv, SetupTypeOK, AckMaps, WriteReady, WriteByte
<1>1. to_child' \in Seq(Byte) /\ Len(to_child') = Len(to_child) + 1 /\ Len(to_child) \in Nat
  BY <1>0, Queues, Bytes
<1>2. UNCHANGED <<child, alive, parent_sock, child_sock, to_parent, ns, tun, event_loop, terminating>>
  BY DEF AckMaps, WriteReady, WriteByte, ParentIO
<1>3. \/ parent = "ack" /\ parent' = "recv_fd"
      \/ parent = "ready" /\ parent' = "spawn"
  BY DEF AckMaps, WriteReady, WriteByte, ParentAt
<1>4. SetupTypeOK'
  BY <1>1, <1>2, <1>3 DEF SetupIInv, SetupTypeOK, ParentPC
<1>5. Informed' /\ Held'
  BY <1>2, <1>3 DEF SetupIInv, Informed, Held
<1>6. Counted'
  BY <1>1, <1>2, <1>3 DEF SetupIInv, Informed, Counted, PastMaps, Released, AckSent, AckRead, ReadyRead, Unread
<1> QED
  BY <1>4, <1>5, <1>6 DEF SetupIInv

-----------------------------------------------------------------------------
LEMMA SetupNextIInv == SetupIInv /\ [SetupNext]_setupVars => SetupIInv'
<1> SUFFICES ASSUME SetupIInv, [SetupNext]_setupVars PROVE SetupIInv'
  OBVIOUS
<1>1. CASE ChildStep
  <2>1. CASE ChildGivesUp
    <3>1. Exit("child") /\ UNCHANGED <<parent, event_loop, terminating, child, ns>>
      BY <2>1 DEF ChildGivesUp, parentVars
    <3> QED
      BY <3>1, ExitIInv DEF Process, SetupIInv, SetupTypeOK
  <2> QED
    BY <1>1, <2>1, ChildLocalIInv, ChildSendsIInv, ChildReadsIInv, CloseSetupFdsIInv DEF ChildStep
<1>2. CASE ChildDies \/ CommandEnds
  <2>1. Exit("child") /\ UNCHANGED <<parent, event_loop, terminating, child, ns>>
    BY <1>2 DEF ChildDies, CommandEnds, parentVars
  <2> QED
    BY <2>1, ExitIInv DEF Process, SetupIInv, SetupTypeOK
<1>3. CASE ParentStep
  <2>1. CASE ParentGivesUp \/ ParentExits
    <3>1. /\ Exit("parent") /\ UNCHANGED <<event_loop, terminating, child, ns>>
          /\ \/ UNCHANGED parent
             \/ parent = "shutdown" /\ parent' = "exit"
      BY <2>1 DEF ParentGivesUp, ParentExits, ParentAt, parentVars
    <3> QED
      BY <3>1, ExitIInv DEF Process, SetupIInv, SetupTypeOK
  <2> QED
    BY <1>3, <2>1, ParentLocalIInv, ParentReadsIInv, WriteIdMapsIInv, ParentWritesIInv DEF ParentStep
<1>4. CASE ParentDies
  <2>1. Exit("parent") /\ UNCHANGED <<parent, event_loop, terminating, child, ns>>
    BY <1>4 DEF ParentDies, parentVars
  <2> QED
    BY <2>1, ExitIInv DEF Process, SetupIInv, SetupTypeOK
<1>5. CASE EventLoopStep
  BY <1>5, ParentLocalIInv
<1>6. CASE ForwardToChild
  <2>1. CASE child # "command"
    <3>1. Exit("child") /\ UNCHANGED <<parent, event_loop, terminating, child, ns>>
      BY <1>6, <2>1 DEF ForwardToChild
    <3> QED
      BY <3>1, ExitIInv DEF Process, SetupIInv, SetupTypeOK
  <2>2. CASE child = "command"
    <3>1. /\ UNCHANGED <<parent, child, alive, parent_sock, child_sock, to_parent, to_child, ns, tun,
                         event_loop>>
          /\ terminating' \in BOOLEAN
      BY <1>6, <2>2 DEF ForwardToChild
    <3>2. SetupTypeOK' /\ Informed' /\ Held'
      BY <3>1 DEF SetupIInv, SetupTypeOK, Informed, Held
    <3>3. Counted'
      BY <3>1 DEF SetupIInv, Counted, Released, AckSent, AckRead, ReadyRead, Unread
    <3> QED
      BY <3>2, <3>3 DEF SetupIInv
  <2> QED
    BY <2>1, <2>2
<1>7. CASE Terminated \/ UNCHANGED setupVars
  <2>1. UNCHANGED <<parent, child, alive, parent_sock, child_sock, to_parent, to_child, ns, tun,
                    event_loop, terminating>>
    BY <1>7 DEF Terminated, setupVars, parentVars
  <2>2. SetupTypeOK' /\ Informed' /\ Held'
    BY <2>1 DEF SetupIInv, SetupTypeOK, Informed, Held
  <2>3. Counted'
    BY <2>1 DEF SetupIInv, Counted, Released, AckSent, AckRead, ReadyRead, Unread
  <2> QED
    BY <2>2, <2>3 DEF SetupIInv
<1> QED
  BY <1>1, <1>2, <1>3, <1>4, <1>5, <1>6, <1>7 DEF SetupNext

\* The inductive invariant of the setup protocol holds in every execution of
\* child_main() and parent_main(), whatever fails and whenever either is killed.
THEOREM SetupInvariant == SetupSpec => []SetupIInv
<1>1. SetupInit => SetupIInv
  BY SetupInitIInv
<1>2. SetupIInv /\ [SetupNext]_setupVars => SetupIInv'
  BY SetupNextIInv
<1> QED
  BY <1>1, <1>2, PTL DEF SetupSpec

\* Every variable of the setup protocol keeps its type.
THEOREM SetupTypeCorrect == SetupSpec => []SetupTypeOK
<1>1. SetupIInv => SetupTypeOK
  BY DEF SetupIInv
<1> QED
  BY <1>1, SetupInvariant, PTL

\* child_main() never reaches the command on the acknowledgement of the id
\* maps: only on the ready signal of a parent that can serve it.
THEOREM CommandOnlyReleased == SetupSpec => []CommandReleased
<1>1. SetupIInv => CommandReleased
  BY DEF SetupIInv, Counted, ReadyRead, Released, CommandReleased
<1> QED
  BY <1>1, SetupInvariant, PTL

\* child_main() configures nothing in a user namespace whose id maps
\* parent_main() has not written.
THEOREM MapsAlwaysFirst == SetupSpec => []MapsBeforeNetwork
<1>1. SetupIInv => MapsBeforeNetwork
  BY DEF SetupIInv, Counted, AckRead, AckSent, MapsBeforeNetwork
<1> QED
  BY <1>1, SetupInvariant, PTL

\* While the command runs, the TUN descriptor is the parent's alone.
THEOREM TunStaysWithProxy == SetupSpec => []TunOwnedByProxy
<1>1. SetupIInv => TunOwnedByProxy
  <2> SUFFICES ASSUME SetupIInv, child = "command" PROVE tun = {"parent"} \cap alive
    BY DEF TunOwnedByProxy
  <2>1. "child" \notin tun /\ tun \subseteq alive /\ tun \subseteq Process
    BY DEF SetupIInv, SetupTypeOK, Held
  <2>2. "parent" \in alive => "parent" \in tun
    BY DEF SetupIInv, Counted, ReadyRead, Released, Held
  <2> QED
    BY <2>1, <2>2 DEF Process
<1> QED
  BY <1>1, SetupInvariant, PTL

\* parent_main() shuts the proxy down only after the child is gone.
THEOREM ProxyLastToEnd == SetupSpec => []ProxyOutlivesCommand
<1>1. SetupIInv => ProxyOutlivesCommand
  BY DEF SetupIInv, Held, ProxyOutlivesCommand
<1> QED
  BY <1>1, SetupInvariant, PTL

-----------------------------------------------------------------------------
(* The command tree and its reaper.                                        *)

USE SMTT(20), ZenonT(20)

(* The inductive invariant.  Processes are numbered in the order of their  *)
(* birth, so that a parent in the tree has a smaller number than its       *)
(* child: the least process that is left is a child of the reaper.         *)

\* Processes are born in order.
BornInOrder == \A p, q \in Proc : st[p] = "unborn" /\ p <= q => st[q] = "unborn"

\* Whoever is left has a parent that is older and alive, or is the reaper's
\* child, as long as the reaper runs.
Rooted ==
  pc # "failed" => \A p \in Proc : st[p] \in {"live", "zombie"} =>
    par[p] = Root \/ (par[p] \in Proc /\ par[p] < p /\ st[par[p]] = "live")

\* The command is the reaper's own child, and nobody else collects it.
CommandKept ==
  /\ st[Command] # "unborn"
  /\ pc # "failed" => par[Command] = Root /\ (st[Command] = "gone" => status)

Tree == BornInOrder /\ Rooted /\ CommandKept /\ TreeCollected

IInv == TypeOK /\ Tree

-----------------------------------------------------------------------------
(* Typing.                                                                 *)

\* The last element of a sequence, and the sequence without it.
LEMMA FrontLast ==
  ASSUME NEW S, NEW q \in Seq(S), q # <<>>
  PROVE  Last(q) \in S /\ Front(q) \in Seq(S)
<1>1. Len(q) \in Nat \ {0}
  OBVIOUS
<1>2. Last(q) \in S
  BY <1>1 DEF Last
<1>3. SubSeq(q, 1, Len(q) - 1) \in Seq(S)
  BY <1>1
<1> QED
  BY <1>2, <1>3 DEF Front

\* However /proc lists a set of processes, it is a sequence of them.
LEMMA ListedProcs ==
  ASSUME NEW S \in SUBSET Proc, NEW q \in Listings(S)
  PROVE  q \in Seq(Proc)
<1>1. IsFiniteSet(1 .. NumProcs)
  BY FS_Interval, ReaperAssumption
<1>2. IsFiniteSet(S)
  BY <1>1, FS_Subset, Zenon DEF Proc
<1>3. Cardinality(S) \in Nat
  BY <1>2, FS_CardinalityType
<1>4. q \in [1 .. Cardinality(S) -> S]
  BY DEF Listings
<1> QED
  BY <1>3, <1>4

\* What Die(p) does to the tree.
LEMMA DieEffect ==
  ASSUME TypeOK, NEW p \in Proc, Die(p)
  PROVE  /\ st'[p] = "zombie" /\ \A q \in Proc : q # p => st'[q] = st[q]
         /\ \A q \in Proc : par'[q] = IF par[q] = p /\ st[q] \in {"live", "zombie"}
                                      THEN Adopter ELSE par[q]
         /\ st' \in [Proc -> {"unborn", "live", "zombie", "gone"}]
         /\ par' \in [Proc -> {Root, Outside} \cup Proc]
         /\ sigs' \subseteq Signals
<1>1. Adopter \in {Root, Outside}
  BY DEF Adopter
<1>2. /\ st'[p] = "zombie" /\ \A q \in Proc : q # p => st'[q] = st[q]
      /\ st' \in [Proc -> {"unborn", "live", "zombie", "gone"}]
  BY DEF Die, TypeOK
<1>3. /\ \A q \in Proc : par'[q] = IF par[q] = p /\ st[q] \in {"live", "zombie"}
                                   THEN Adopter ELSE par[q]
      /\ par' \in [Proc -> {Root, Outside} \cup Proc]
  BY <1>1 DEF Die, TypeOK, Children
<1>4. \A q : Notify(q) \subseteq Signals
  BY DEF Notify
<1>5. sigs' \subseteq Signals
  BY <1>4 DEF Die, TypeOK
<1> QED
  BY <1>2, <1>3, <1>5

\* Every step keeps the types.
LEMMA TypeStep == TypeOK /\ [Next]_vars => TypeOK'
<1> SUFFICES ASSUME TypeOK, [Next]_vars PROVE TypeOK'
  OBVIOUS
<1> USE DEF treeVars, reaperVars
<1>1. ASSUME NEW p \in Proc, Fork(p) PROVE TypeOK'
  BY <1>1 DEF TypeOK, Fork
<1>2. ASSUME NEW p \in Proc, ProcessExits(p) PROVE TypeOK'
  BY <1>2, DieEffect, Zenon DEF TypeOK, ProcessExits
<1>3. ASSUME NEW p \in Proc, ParentReaps(p) PROVE TypeOK'
  BY <1>3 DEF TypeOK, ParentReaps, Children
<1>4. ASSUME NEW s \in TermSignal, SignalArrives(s) PROVE TypeOK'
  BY <1>4, Zenon DEF TypeOK, SignalArrives, Signals
<1>5. CASE Collect
  BY <1>5 DEF TypeOK, Collect, Children
<1>6. CASE StillAlive
  <2>1. <<Root>> \in Seq({Root} \cup Proc)
    OBVIOUS
  <2> QED
    BY <1>6, <2>1, Zenon DEF TypeOK, StillAlive, Signal
<1>7. CASE NoChild \/ ScanDone \/ AllSignalled \/ WaitTimesOut \/ GraceExpires \/ Returned
  BY <1>7, Zenon DEF TypeOK, NoChild, ScanDone, AllSignalled, WaitTimesOut, GraceExpires, Returned, vars
<1>8. CASE ReadChildren
  <2>1. PICK fresh \in Listings(Children(Last(stack)) \ {found[i] : i \in DOMAIN found}) :
          stack' = Front(stack) \o fresh /\ found' = found \o fresh
    BY <1>8, Zenon DEF ReadChildren
  <2>2. fresh \in Seq(Proc)
    BY ListedProcs DEF Children
  <2>3. fresh \in Seq({Root} \cup Proc)
    BY <2>2
  <2>4. Front(stack) \in Seq({Root} \cup Proc)
    BY <1>8, FrontLast, Zenon DEF TypeOK, ReadChildren
  <2>5. stack' \in Seq({Root} \cup Proc)
    BY <2>1, <2>3, <2>4
  <2>6. found' \in Seq(Proc)
    BY <2>1, <2>2 DEF TypeOK
  <2> QED
    BY <1>8, <2>5, <2>6 DEF TypeOK, ReadChildren
<1>9. CASE ForwardSignal
  <2> DEFINE p == Last(found)
  <2>1. p \in Proc /\ found' \in Seq(Proc)
    BY <1>9, FrontLast DEF TypeOK, ForwardSignal
  <2> HIDE DEF p
  <2>2. CASE UNCHANGED <<treeVars, sigs>>
    BY <1>9, <2>1, <2>2 DEF TypeOK, ForwardSignal
  <2>3. CASE got' = [got EXCEPT ![p] = @ \cup {sending}] /\ (Die(p) \/ UNCHANGED <<st, par, sigs>>)
    <3>1. got' \in [Proc -> SUBSET Signal]
      BY <2>1, <2>3 DEF TypeOK
    <3> QED
      BY <1>9, <2>1, <2>3, <3>1, DieEffect, Zenon DEF TypeOK, ForwardSignal
  <2> QED
    BY <1>9, <2>2, <2>3 DEF ForwardSignal, p
<1>10. CASE ReadFails \/ ForwardFails
  BY <1>10 DEF TypeOK, ReadFails, ForwardFails, Fails
<1>11. CASE TakeSignal
  BY <1>11 DEF TypeOK, TakeSignal, Signal, Signals, Live, Deadline
<1>12. CASE UNCHANGED vars
  BY <1>12 DEF TypeOK, vars
<1> QED
  BY <1>1, <1>2, <1>3, <1>4, <1>5, <1>6, <1>7, <1>8, <1>9, <1>10, <1>11, <1>12 DEF Next, Reap

-----------------------------------------------------------------------------
(* The tree.                                                               *)

\* A set of natural numbers that is not empty has a least element.
LEMMA LeastNatural ==
  ASSUME NEW T, T \subseteq Nat, T # {}
  PROVE  \E x \in T : \A y \in T : x <= y
<1> DEFINE Below == {ss \in Nat \X Nat : ss[1] < ss[2]}
<1>1. Below = OpToRel(<, Nat)
  BY Zenon DEF OpToRel
<1> HIDE DEF Below
<1>2. IsWellFoundedOn(OpToRel(<, Nat), Nat)
  BY NatLessThanWellFounded, Zenon
<1>3. IsWellFoundedOn(Below, Nat)
  BY <1>1, <1>2, Zenon
<1>4. \E x \in T : \A y \in T : ~(<<y, x>> \in Below)
  BY <1>3, WFMin, Zenon
<1>5. \A x, y \in T : ~(<<y, x>> \in Below) => x <= y
  BY DEF Below
<1> QED
  BY <1>4, <1>5, Zenon

\* A reaper without children has no descendants.
LEMMA ChildlessIsAlone ==
  ASSUME TypeOK, Rooted, pc # "failed", Children(Root) = {}
  PROVE  \A p \in Proc : st[p] \in {"unborn", "gone"}
<1> DEFINE T == {p \in Proc : st[p] \in {"live", "zombie"}}
<1>1. SUFFICES ASSUME T # {} PROVE FALSE
  BY DEF TypeOK
<1>2. T \subseteq Nat
  BY DEF Proc
<1>3. PICK p \in T : \A q \in T : p <= q
  BY <1>1, <1>2, LeastNatural, Zenon
<1>4. CASE par[p] = Root
  BY <1>4 DEF Children
<1>5. CASE par[p] \in Proc /\ par[p] < p /\ st[par[p]] = "live"
  <2>1. par[p] \in T
    BY <1>5
  <2> QED
    BY <1>2, <1>3, <1>5, <2>1
<1> QED
  BY <1>4, <1>5 DEF Rooted

\* Steps that leave the tree and the status alone, and do not return.
LEMMA TreeFrame ==
  ASSUME Tree, UNCHANGED <<st, par, status>>, pc' = pc \/ pc' \notin {"done", "no_status"},
         pc = "failed" => pc' = "failed"
  PROVE  Tree'
BY Zenon DEF Tree, BornInOrder, Rooted, CommandKept, TreeCollected

LEMMA ForkTree ==
  ASSUME TypeOK, Tree, NEW p \in Proc, Fork(p)
  PROVE  Tree'
<1>1. PICK q \in Proc : /\ st[q] = "unborn" /\ \A r \in Proc : st[r] = "unborn" => q <= r
                        /\ st' = [st EXCEPT ![q] = "live"] /\ par' = [par EXCEPT ![q] = p]
  BY Zenon DEF Fork
<1>2. /\ st'[q] = "live" /\ par'[q] = p /\ UNCHANGED <<pc, status>> /\ st[p] = "live"
      /\ \A r \in Proc : r # q => st'[r] = st[r] /\ par'[r] = par[r]
  BY <1>1 DEF TypeOK, Fork, reaperVars
<1>3. p < q
  BY <1>1, <1>2 DEF Tree, BornInOrder, Proc
<1>4. BornInOrder'
  <2> SUFFICES ASSUME NEW a \in Proc, NEW b \in Proc, st'[a] = "unborn", a <= b
               PROVE  st'[b] = "unborn"
    BY DEF BornInOrder
  <2>1. a # q /\ st[a] = "unborn" /\ q <= a
    BY <1>1, <1>2
  <2>2. b # q
    BY <2>1 DEF Proc
  <2> QED
    BY <1>2, <2>1, <2>2 DEF Tree, BornInOrder
<1>5. Rooted'
  BY <1>1, <1>2, <1>3 DEF Tree, Rooted
<1>6. Command \in Proc
  BY ReaperAssumption DEF Command, Proc
<1>7. CommandKept'
  BY <1>1, <1>2, <1>6 DEF Tree, CommandKept
<1>8. TreeCollected'
  BY <1>2 DEF Tree, TreeCollected
<1> QED
  BY <1>4, <1>5, <1>7, <1>8 DEF Tree

LEMMA DieTree ==
  ASSUME TypeOK, Tree, NEW p \in Proc, st[p] = "live", Die(p), UNCHANGED <<pc, status>>
  PROVE  Tree'
<1>1. /\ st'[p] = "zombie" /\ \A q \in Proc : q # p => st'[q] = st[q]
      /\ \A q \in Proc : par'[q] = IF par[q] = p /\ st[q] \in {"live", "zombie"}
                                   THEN Adopter ELSE par[q]
  BY DieEffect
<1>2. pc # "failed" => Adopter = Root
  BY DEF Adopter
<1>3. Command \in Proc /\ p # Root
  BY ReaperAssumption DEF Command, Proc, Root
<1>4. BornInOrder'
  BY <1>1 DEF Tree, BornInOrder
<1>5. Rooted'
  BY <1>1, <1>2 DEF Tree, Rooted
<1>6. CommandKept'
  BY <1>1, <1>3 DEF Tree, CommandKept
<1>7. TreeCollected'
  BY DEF Tree, TreeCollected
<1> QED
  BY <1>4, <1>5, <1>6, <1>7 DEF Tree

\* A zombie is collected, by its parent or by the reaper.
LEMMA CollectTree ==
  ASSUME TypeOK, Tree, NEW q \in Proc, st[q] = "zombie", st' = [st EXCEPT ![q] = "gone"],
         par' = par, pc' = pc, status' = (status \/ q = Command),
         pc # "failed" => q # Command \/ status'
  PROVE  Tree'
<1>1. st'[q] = "gone" /\ \A r \in Proc : r # q => st'[r] = st[r]
  BY DEF TypeOK
<1>2. Command \in Proc
  BY ReaperAssumption DEF Command, Proc
<1>3. BornInOrder'
  BY <1>1 DEF Tree, BornInOrder
<1>4. Rooted'
  BY <1>1 DEF Tree, Rooted
<1>5. CommandKept'
  BY <1>1, <1>2, Zenon DEF Tree, CommandKept
<1>6. TreeCollected'
  BY <1>1 DEF Tree, TreeCollected
<1> QED
  BY <1>3, <1>4, <1>5, <1>6 DEF Tree

\* Every step keeps the tree in order.
LEMMA TreeStep == TypeOK /\ Tree /\ [Next]_vars => Tree'
<1> SUFFICES ASSUME TypeOK, Tree, [Next]_vars PROVE Tree'
  OBVIOUS
<1> USE DEF treeVars, reaperVars
<1>1. ASSUME NEW p \in Proc, Fork(p) PROVE Tree'
  BY <1>1, ForkTree
<1>2. ASSUME NEW p \in Proc, ProcessExits(p) PROVE Tree'
  BY <1>2, DieTree DEF ProcessExits
<1>3. ASSUME NEW p \in Proc, ParentReaps(p) PROVE Tree'
  <2>1. PICK q \in Proc : /\ par[q] = p /\ st[q] = "zombie" /\ st' = [st EXCEPT ![q] = "gone"]
    BY <1>3, Zenon DEF ParentReaps, Children
  <2>2. UNCHANGED <<par, pc, status>>
    BY <1>3 DEF ParentReaps
  <2>3. p # Root
    BY DEF Proc, Root
  <2>4. CASE pc # "failed"
    <3>1. q # Command
      BY <2>1, <2>3, <2>4 DEF Tree, CommandKept
    <3>2. status' = (status \/ q = Command)
      BY <2>2, <3>1 DEF TypeOK
    <3> QED
      BY <2>1, <2>2, <3>1, <3>2, CollectTree, Zenon
  <2>5. CASE pc = "failed"
    <3>1. st'[q] = "gone" /\ \A r \in Proc : r # q => st'[r] = st[r]
      BY <2>1 DEF TypeOK
    <3>2. BornInOrder'
      BY <2>1, <3>1 DEF Tree, BornInOrder
    <3>3. CommandKept'
      BY <2>2, <2>5, <3>1, ReaperAssumption DEF Tree, CommandKept, Command, Proc
    <3> QED
      BY <2>2, <2>5, <3>2, <3>3 DEF Tree, Rooted, TreeCollected
  <2> QED
    BY <2>4, <2>5
<1>4. ASSUME NEW s \in TermSignal, SignalArrives(s) PROVE Tree'
  BY <1>4, TreeFrame DEF SignalArrives
<1>5. CASE Collect
  <2>1. PICK q \in Proc : /\ st[q] = "zombie" /\ st' = [st EXCEPT ![q] = "gone"]
                          /\ status' = (status \/ q = Command)
    BY <1>5, Zenon DEF Collect, Children
  <2> QED
    BY <1>5, <2>1, CollectTree, Zenon DEF Collect, TypeOK
<1>6. CASE StillAlive \/ ReadChildren \/ ScanDone \/ AllSignalled \/ TakeSignal \/ WaitTimesOut
             \/ GraceExpires \/ Returned
  BY <1>6, TreeFrame, Zenon DEF StillAlive, ReadChildren, ScanDone, AllSignalled, TakeSignal,
     WaitTimesOut, GraceExpires, Returned, vars
<1>7. CASE NoChild
  <2>1. /\ pc = "reap" /\ Children(Root) = {} /\ UNCHANGED <<st, par, status>>
        /\ pc' = IF status THEN "done" ELSE "no_status"
    BY <1>7 DEF NoChild
  <2>2. \A p \in Proc : st[p] \in {"unborn", "gone"}
    BY <2>1, ChildlessIsAlone DEF Tree
  <2>3. status
    BY <2>1, <2>2, ReaperAssumption DEF Tree, CommandKept, Command, Proc
  <2> QED
    BY <2>1, <2>2, <2>3 DEF Tree, BornInOrder, Rooted, CommandKept, TreeCollected
<1>8. CASE ForwardSignal
  <2>1. Last(found) \in Proc
    BY <1>8, FrontLast DEF TypeOK, ForwardSignal
  <2>2. CASE UNCHANGED <<st, par>>
    BY <1>8, <2>2, TreeFrame DEF ForwardSignal
  <2>3. CASE st[Last(found)] = "live" /\ Die(Last(found))
    BY <1>8, <2>1, <2>3, DieTree DEF ForwardSignal
  <2> QED
    BY <1>8, <2>2, <2>3 DEF ForwardSignal
<1>9. CASE ReadFails \/ ForwardFails
  <2>1. pc' = "failed" /\ UNCHANGED <<st, status>>
    BY <1>9, Zenon DEF ReadFails, ForwardFails, Fails
  <2> QED
    BY <2>1, Zenon DEF Tree, BornInOrder, Rooted, CommandKept, TreeCollected
<1>10. CASE UNCHANGED vars
  BY <1>10, TreeFrame DEF vars
<1> QED
  BY <1>1, <1>2, <1>3, <1>4, <1>5, <1>6, <1>7, <1>8, <1>9, <1>10 DEF Next, Reap

-----------------------------------------------------------------------------
(* The theorems.                                                           *)

LEMMA InitIInv == Init => IInv
<1> SUFFICES ASSUME Init PROVE IInv
  OBVIOUS
<1>1. TypeOK
  <2>1. <<>> \in Seq({Root} \cup Proc) /\ <<>> \in Seq(Proc)
    OBVIOUS
  <2>2. /\ st \in [Proc -> {"unborn", "live", "zombie", "gone"}]
        /\ par \in [Proc -> {Root, Outside} \cup Proc]
    BY DEF Init
  <2>3. got \in [Proc -> SUBSET Signal] /\ sigs \subseteq Signals /\ members \subseteq Proc
    BY DEF Init
  <2>4. "none" \in Signal
    BY DEF Signal
  <2>5. status \in BOOLEAN /\ expired \in BOOLEAN
    BY Zenon DEF Init
  <2>6. stack \in Seq({Root} \cup Proc) /\ found \in Seq(Proc)
    BY <2>1, Zenon DEF Init
  <2>7. /\ sending \in Signal /\ signal \in Signal
        /\ pc \in {"reap", "scan", "kill", "wait", "done", "no_status", "failed"}
    BY <2>4 DEF Init
  <2> QED
    BY <2>2, <2>3, <2>5, <2>6, <2>7 DEF TypeOK
<1>2. Tree
  BY ReaperAssumption DEF Init, Tree, BornInOrder, Rooted, CommandKept, TreeCollected, Command,
     Proc, Root
<1> QED
  BY <1>1, <1>2 DEF IInv

LEMMA Invariance == Spec => []IInv
<1>1. IInv /\ [Next]_vars => IInv'
  BY TypeStep, TreeStep DEF IInv
<1> QED
  BY InitIInv, <1>1, PTL DEF Spec

\* Every variable of Reaper keeps its type.
THEOREM ReaperTypeCorrect == Spec => []TypeOK
<1>1. IInv => TypeOK
  BY DEF IInv
<1> QED
  BY <1>1, Invariance, PTL

\* wait_for_command_tree returns only when every process of the tree is
\* collected, and never without the command's exit code.
THEOREM TreeAlwaysCollected == Spec => []TreeCollected
<1>1. IInv => TreeCollected
  BY DEF IInv, Tree
<1> QED
  BY <1>1, Invariance, PTL
=============================================================================
