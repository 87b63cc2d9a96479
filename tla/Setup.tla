------------------------------- MODULE Setup -------------------------------
(***************************************************************************)
(* The life of the two processes of nsproxy, src/main.rs: main() makes a   *)
(* socket pair and forks; child_main() enters the namespaces, configures   *)
(* them and hands the TUN descriptor to parent_main(), which prepares the  *)
(* proxy, releases the child, and outlives it.  Three kinds of bytes ride  *)
(* on the one socket pair: the unshare signal and the message that carries *)
(* the descriptor to the parent, and to the child two bytes that look the  *)
(* same, the acknowledgement of the id maps and the ready signal.          *)
(*                                                                         *)
(* Every step may fail and every process may be killed at any point; what  *)
(* a dead process held is closed by the kernel.  A pc is where the process *)
(* is, or was when it died.  The command tree (src/process.rs) is one      *)
(* step here; module Reaper has its detail.                                *)
(***************************************************************************)
EXTENDS Naturals, Sequences

VARIABLES
  parent, child,          \* program counters
  alive,                  \* the processes that have not exited
  parent_sock, child_sock,\* the processes that hold each end of the pair
  to_parent, to_child,    \* bytes in flight
  ns,                     \* what the child has set up
  tun,                    \* the processes that hold the TUN descriptor
  event_loop,             \* the task spawned by the parent
  terminating             \* a termination signal was forwarded to the tree

Process == {"parent", "child"}
parentVars == <<parent, event_loop, terminating>>
setupVars == <<parentVars, child, alive, parent_sock, child_sock, to_parent, to_child, ns, tun>>

Byte == [b : {0, 1}, fd : BOOLEAN]
Plain(b) == [b |-> b, fd |-> FALSE]

SetupInit ==
  /\ parent = "fork" /\ child = "fork" /\ alive = Process
  /\ parent_sock = Process /\ child_sock = Process
  /\ to_parent = <<>> /\ to_child = <<>>
  /\ ns = [user |-> FALSE, maps |-> FALSE, made |-> <<>>] /\ tun = {}
  /\ event_loop = "none" /\ terminating = FALSE

\* A process is gone: the kernel closes its descriptors, and drops what is
\* queued for an end that nobody holds.
Exit(p) ==
  /\ alive' = alive \ {p}
  /\ parent_sock' = parent_sock \ {p} /\ child_sock' = child_sock \ {p}
  /\ to_parent' = IF parent_sock' = {} THEN <<>> ELSE to_parent
  /\ to_child' = IF child_sock' = {} THEN <<>> ELSE to_child
  /\ tun' = tun \ {p}

-----------------------------------------------------------------------------
(* child_main().                                                           *)

ChildAt(pc, next) == "child" \in alive /\ child = pc /\ child' = next
ChildIO == UNCHANGED <<parentVars, alive, parent_sock, child_sock>>

\* A bug that leaves the parent's end open in the child.
CloseParentEnd_Kept ==
  /\ ChildAt("fork", "unshare")
  /\ UNCHANGED <<parentVars, alive, parent_sock, child_sock, to_parent, to_child, ns, tun>>

CloseParentEnd ==
  /\ ChildAt("fork", "unshare")
  /\ parent_sock' = parent_sock \ {"child"}
  /\ UNCHANGED <<parentVars, alive, child_sock, to_parent, to_child, ns, tun>>

\* create_namespace: a user namespace only if the network one needs it.
CreateNamespace ==
  /\ ChildAt("unshare", "signal")
  /\ \E user \in BOOLEAN : ns' = [ns EXCEPT !.user = user]
  /\ ChildIO /\ UNCHANGED <<to_parent, to_child, tun>>

SignalUnshared ==
  /\ ChildAt("signal", IF ns.user THEN "wait_maps" ELSE "loopback")
  /\ parent_sock # {}
  /\ to_parent' = Append(to_parent, Plain(IF ns.user THEN 1 ELSE 0))
  /\ ChildIO /\ UNCHANGED <<to_child, ns, tun>>

\* read_control_byte in the child, for the maps and for the ready signal.
ReadByte(pc, next) ==
  /\ ChildAt(pc, next)
  /\ to_child # <<>> /\ Head(to_child).b = 1
  /\ to_child' = Tail(to_child)
  /\ ChildIO /\ UNCHANGED <<to_parent, ns, tun>>

WaitMaps == ReadByte("wait_maps", "loopback")

\* bringup_loopback and setup_mount_namespace.
Configure(pc, next) ==
  /\ ChildAt(pc, next)
  /\ ns' = [ns EXCEPT !.made = Append(@, pc)]
  /\ ChildIO /\ UNCHANGED <<to_parent, to_child, tun>>

BringupLoopback == Configure("loopback", "tun")
SetupMounts == Configure("mounts", "send_fd")

CreateTun ==
  /\ ChildAt("tun", "mounts")
  /\ ns' = [ns EXCEPT !.made = Append(@, "tun")] /\ tun' = tun \cup {"child"}
  /\ ChildIO /\ UNCHANGED <<to_parent, to_child>>

\* send_fd: the message holds the descriptor until it is received.
SendFd ==
  /\ ChildAt("send_fd", "wait_ready")
  /\ parent_sock # {}
  /\ to_parent' = Append(to_parent, [b |-> 0, fd |-> TRUE])
  /\ ChildIO /\ UNCHANGED <<to_child, ns, tun>>

WaitReady == ReadByte("wait_ready", "close")

\* A bug that hands the TUN descriptor on to the command.
CloseSetupFds_KeepsTun ==
  /\ ChildAt("close", "command")
  /\ child_sock' = child_sock \ {"child"}
  /\ to_child' = IF child_sock' = {} THEN <<>> ELSE to_child
  /\ UNCHANGED <<parentVars, alive, parent_sock, to_parent, ns, tun>>

CloseSetupFds ==
  /\ ChildAt("close", "command")
  /\ child_sock' = child_sock \ {"child"} /\ tun' = tun \ {"child"}
  /\ to_child' = IF child_sock' = {} THEN <<>> ELSE to_child
  /\ UNCHANGED <<parentVars, alive, parent_sock, to_parent, ns>>

\* A write that nobody can read, or a read at the end of the stream, ends the
\* child: an end of file is never taken for a byte.
ChildGivesUp ==
  /\ "child" \in alive
  /\ \/ child \in {"signal", "send_fd"} /\ parent_sock = {}
     \/ child \in {"wait_maps", "wait_ready"} /\ to_child = <<>> /\ parent_sock = {}
  /\ Exit("child") /\ UNCHANGED <<parentVars, child, ns>>

\* Any other step of the setup may fail, and the child may be killed.
ChildDies ==
  /\ "child" \in alive
  /\ Exit("child") /\ UNCHANGED <<parentVars, child, ns>>

\* run_command_tree returns.
CommandEnds ==
  /\ "child" \in alive /\ child = "command"
  /\ Exit("child") /\ UNCHANGED <<parentVars, child, ns>>

ChildStep ==
  \/ CloseParentEnd \/ CreateNamespace \/ SignalUnshared \/ WaitMaps \/ BringupLoopback
  \/ CreateTun \/ SetupMounts \/ SendFd \/ WaitReady \/ CloseSetupFds \/ ChildGivesUp

-----------------------------------------------------------------------------
(* parent_main().                                                          *)

ParentAt(pc, next) == "parent" \in alive /\ parent = pc /\ parent' = next
ParentIO == UNCHANGED <<child, alive, parent_sock, child_sock, event_loop, terminating>>

CloseChildEnd ==
  /\ ParentAt("fork", "wait_signal")
  /\ child_sock' = child_sock \ {"parent"}
  /\ UNCHANGED <<child, alive, parent_sock, to_parent, to_child, ns, tun, event_loop, terminating>>

\* A bug that acknowledges maps also to a child that does not wait for it.
AfterSignal_AlwaysMaps(b) == "maps"

\* The parent learns from the byte whether the child waits for its id maps.
AfterSignal(b) == IF b = 1 THEN "maps" ELSE "recv_fd"

ReadSignal ==
  /\ to_parent # <<>> /\ ParentAt("wait_signal", AfterSignal(Head(to_parent).b))
  /\ to_parent' = Tail(to_parent)
  /\ ParentIO /\ UNCHANGED <<to_child, ns, tun>>

\* A bug that acknowledges the maps before they are written.
WriteIdMaps_Later ==
  /\ ParentAt("maps", "ack") /\ ParentIO /\ UNCHANGED <<to_parent, to_child, ns, tun>>

WriteIdMaps ==
  /\ ParentAt("maps", "ack")
  /\ ns' = [ns EXCEPT !.maps = TRUE]
  /\ ParentIO /\ UNCHANGED <<to_parent, to_child, tun>>

\* One byte to the child: an error if nobody holds the child's end.
WriteByte(pc, next) ==
  /\ ParentAt(pc, next)
  /\ child_sock # {}
  /\ to_child' = Append(to_child, Plain(1))
  /\ ParentIO /\ UNCHANGED <<to_parent, ns, tun>>

AckMaps == WriteByte("ack", "recv_fd")

\* recv_fd takes the descriptor out of the message.
RecvFd ==
  /\ ParentAt("recv_fd", "bind")
  /\ to_parent # <<>> /\ Head(to_parent).fd
  /\ to_parent' = Tail(to_parent) /\ tun' = tun \cup {"parent"}
  /\ ParentIO /\ UNCHANGED <<to_child, ns>>

\* bind_publish_specs; then the runtime, register_publish_specs and the signal
\* handlers.  They succeed, or the parent dies.
BindPublishes ==
  /\ ParentAt("bind", "runtime") /\ ParentIO /\ UNCHANGED <<to_parent, to_child, ns, tun>>
BuildRuntime ==
  /\ ParentAt("runtime", "ready") /\ ParentIO /\ UNCHANGED <<to_parent, to_child, ns, tun>>

WriteReady == WriteByte("ready", "spawn")

SpawnEventLoop ==
  /\ ParentAt("spawn", "run") /\ event_loop' = "new"
  /\ UNCHANGED <<child, alive, parent_sock, child_sock, to_parent, to_child, ns, tun, terminating>>

\* event_loop::run, in its task: EventLoop::new can fail; run() ends at the
\* shutdown signal.
EventLoopStep ==
  /\ "parent" \in alive
  /\ \/ event_loop = "new" /\ event_loop' \in {"running", "failed"}
     \/ event_loop = "running" /\ parent = "shutdown" /\ event_loop' = "stopped"
  /\ UNCHANGED <<parent, child, alive, parent_sock, child_sock, to_parent, to_child, ns, tun,
                 terminating>>

\* A bug that stops the proxy at once when it is told to terminate.
ForwardToChild_Stops ==
  /\ ParentAt("run", "shutdown") /\ terminating' = TRUE
  /\ UNCHANGED <<child, alive, parent_sock, child_sock, to_parent, to_child, ns, tun, event_loop>>

\* SIGTERM, SIGINT or SIGHUP is passed on: it kills a child that has not yet
\* blocked it, and starts the termination of the command tree.
ForwardToChild ==
  /\ "parent" \in alive /\ parent = "run" /\ "child" \in alive
  /\ \/ child # "command" /\ Exit("child") /\ UNCHANGED terminating
     \/ /\ child = "command" /\ terminating' = TRUE
        /\ UNCHANGED <<alive, parent_sock, child_sock, to_parent, to_child, tun>>
  /\ UNCHANGED <<parent, child, ns, event_loop>>

\* waitpid returns the child's status, and the event loop is told to shut down.
\* As the parent alone waits for its child, waitpid has no error to report.
CollectChild ==
  /\ ParentAt("run", "shutdown") /\ "child" \notin alive
  /\ ParentIO /\ UNCHANGED <<to_parent, to_child, ns, tun>>

\* A bug that waits for a clean end of the event loop.
ParentExits_NoTimeout ==
  /\ ParentAt("shutdown", "exit") /\ event_loop = "stopped"
  /\ Exit("parent") /\ UNCHANGED <<child, ns, event_loop, terminating>>

\* The event loop has ended, or two seconds are over.
ParentExits ==
  /\ ParentAt("shutdown", "exit")
  /\ Exit("parent") /\ UNCHANGED <<child, ns, event_loop, terminating>>

ParentGivesUp ==
  /\ "parent" \in alive
  /\ \/ parent \in {"wait_signal", "recv_fd"} /\ to_parent = <<>> /\ child_sock = {}
     \/ parent = "recv_fd" /\ to_parent # <<>> /\ ~Head(to_parent).fd
     \/ parent \in {"ack", "ready"} /\ child_sock = {}
  /\ Exit("parent") /\ UNCHANGED <<parentVars, child, ns>>

ParentDies ==
  /\ "parent" \in alive
  /\ Exit("parent") /\ UNCHANGED <<parentVars, child, ns>>

ParentStep ==
  \/ CloseChildEnd \/ ReadSignal \/ WriteIdMaps \/ AckMaps \/ RecvFd \/ BindPublishes
  \/ BuildRuntime \/ WriteReady \/ SpawnEventLoop \/ CollectChild \/ ParentExits \/ ParentGivesUp

-----------------------------------------------------------------------------
\* Both processes are gone.
Terminated == alive = {} /\ UNCHANGED setupVars

SetupNext ==
  \/ ChildStep \/ ChildDies \/ CommandEnds
  \/ ParentStep \/ ParentDies \/ EventLoopStep \/ ForwardToChild
  \/ Terminated

SetupSpec == SetupInit /\ [][SetupNext]_setupVars

\* Fairness.  Both processes are scheduled and no operation of the setup blocks
\* but the reads of the socket pair.  The command owes nothing, until a
\* termination signal reaches the reaper, which then ends the tree.
SetupFairness ==
  /\ WF_setupVars(ChildStep) /\ WF_setupVars(ParentStep) /\ WF_setupVars(EventLoopStep)
  /\ WF_setupVars(terminating /\ CommandEnds)

FairSetup == SetupSpec /\ SetupFairness

-----------------------------------------------------------------------------
(* Properties.                                                             *)

ChildPC == {"fork", "unshare", "signal", "wait_maps", "loopback", "tun", "mounts", "send_fd",
            "wait_ready", "close", "command"}
ParentPC == {"fork", "wait_signal", "maps", "ack", "recv_fd", "bind", "runtime", "ready",
             "spawn", "run", "shutdown", "exit"}

\* Every variable has its type.
SetupTypeOK ==
  /\ parent \in ParentPC /\ child \in ChildPC
  /\ alive \subseteq Process /\ tun \subseteq Process
  /\ parent_sock \subseteq Process /\ child_sock \subseteq Process
  /\ to_parent \in Seq(Byte) /\ to_child \in Seq(Byte)
  /\ ns \in [user : BOOLEAN, maps : BOOLEAN, made : Seq({"loopback", "tun", "mounts"})]
  /\ event_loop \in {"none", "new", "running", "failed", "stopped"} /\ terminating \in BOOLEAN

\* The command is released only by a parent that has received the TUN, bound
\* and registered every published port and installed its signal handlers,
\* although the byte that releases it looks like the acknowledgement of the
\* maps.
CommandReleased ==
  child \in {"close", "command"} => parent \in {"spawn", "run", "shutdown", "exit"}

\* In a user namespace, nothing is configured before the id maps are written.
MapsBeforeNetwork == (ns.user /\ ns.made # <<>>) => ns.maps

\* While the command runs, the parent alone keeps the TUN device alive: no
\* process of the command tree inherits it, and the parent does not let it go.
TunOwnedByProxy ==
  child = "command" => tun = {"parent"} \cap alive

\* The parent stops forwarding only after the reaper has collected the command
\* tree and exited: told to terminate or not, it neither shuts down its event loop
\* nor ends by itself before.  An event loop that failed to start forwards nothing
\* all the while, which this does not exclude.
ProxyOutlivesCommand ==
  (event_loop = "stopped" \/ parent \in {"shutdown", "exit"}) => "child" \notin alive

\* If the parent ends before it has released the child, the child ends too.
ChildFollowsParent ==
  ("parent" \notin alive /\ child # "command") ~> ("child" \notin alive \/ child = "command")

\* If the child ends, however far it came, the parent ends.
ParentFollowsChild == "child" \notin alive ~> "parent" \notin alive

\* The two processes never wait for each other for ever: the command starts or
\* the setup is given up.
SetupResolves == <>(child = "command" \/ "child" \notin alive)

\* Nobody waits for ever in child_main and parent_main, whoever dies or fails
\* at whatever step.
NobodyWaits == ChildFollowsParent /\ ParentFollowsChild /\ SetupResolves

\* Once a signal is forwarded to the command tree, nsproxy ends.
SignalEndsAll == terminating ~> alive = {}
=============================================================================
