------------------------------- MODULE Reaper -------------------------------
(***************************************************************************)
(* The command tree and its reaper, src/process.rs: run_command_tree()     *)
(* becomes a subreaper, blocks its signals, forks the command and then     *)
(* collects every descendant; a termination signal is passed on to all of  *)
(* them, and SIGKILL follows when the grace period is over.                *)
(*                                                                         *)
(* The processes of the tree fork, exit and reap their own children at any *)
(* moment, also while signal_descendants() reads /proc, which it does one  *)
(* process at a time.  A process that gets a termination signal may ignore *)
(* it; SIGKILL ends it, unless the reaper is not allowed to send it.       *)
(*                                                                         *)
(* Bound: the tree forks until it has had NumProcs processes.  One that    *)
(* forks for ever, faster than it is killed, is outside this model.        *)
(***************************************************************************)
EXTENDS Naturals, Sequences, FiniteSets

CONSTANTS NumProcs,   \* bound: processes the tree ever has
          TermSignal, \* the termination signals
          Protected   \* processes that may change their user: /proc and kill() refuse them

ASSUME ReaperAssumption == NumProcs \in Nat \ {0} /\ TermSignal \cap {"CHLD", "KILL", "none"} = {}

Proc == 1 .. NumProcs
Root == 0           \* the reaper
Outside == NumProcs + 1  \* a process outside the tree
Command == 1        \* command_pid

VARIABLES
  st,       \* a process is unborn, live, a zombie, or gone
  par,      \* its parent
  got,      \* the signals it was sent
  sigs,     \* signals pending for the reaper
  pc,       \* where the reaper is
  stack,    \* pending of signal_descendants
  found,    \* descendants of signal_descendants
  sending,  \* the signal it sends
  status,   \* command_exit_code is known
  signal,   \* the termination signal ("none": termination is None)
  expired,  \* the deadline is over
  members   \* history: the tree when the termination began

treeVars == <<st, par, got>>
reaperVars == <<pc, stack, found, sending, status, signal, expired, members>>
vars == <<treeVars, sigs, reaperVars>>

Live == {p \in Proc : st[p] = "live"}
Children(p) == {q \in Proc : par[q] = p /\ st[q] \in {"live", "zombie"}}

\* run_command_tree up to wait_for_command_tree.
Init ==
  /\ st = [p \in Proc |-> IF p = Command THEN "live" ELSE "unborn"]
  /\ par = [p \in Proc |-> Root]
  /\ got = [p \in Proc |-> {}] /\ sigs = {}
  /\ pc = "reap" /\ stack = <<>> /\ found = <<>> /\ sending = "none"
  /\ status = FALSE /\ signal = "none" /\ expired = FALSE /\ members = {}

-----------------------------------------------------------------------------
(* The processes of the tree, and the kernel.                              *)

\* A bug that does not make the reaper a subreaper.
Adopter_Init == Outside

\* set_child_subreaper: who adopts the orphans of the tree, while it runs.
Adopter == IF pc = "failed" THEN Outside ELSE Root

\* A bug that leaves SIGCHLD out of the set.
Signals_TermOnly == TermSignal

\* The signals run_command_tree blocks, and so keeps pending.
Signals == {"CHLD"} \cup TermSignal

Notify(p) == IF p = Root THEN {"CHLD"} \cap Signals ELSE {}

\* p dies with its parent told, and its children are adopted; the adopter is
\* told of those that are dead already.
Die(p) ==
  /\ st' = [st EXCEPT ![p] = "zombie"]
  /\ par' = [q \in Proc |-> IF q \in Children(p) THEN Adopter ELSE par[q]]
  /\ sigs' = sigs \cup Notify(par[p])
                  \cup (IF \E q \in Children(p) : st[q] = "zombie" THEN Notify(Adopter) ELSE {})

Fork(p) ==
  /\ st[p] = "live"
  /\ \E q \in Proc : /\ st[q] = "unborn" /\ \A r \in Proc : st[r] = "unborn" => q <= r
                     /\ st' = [st EXCEPT ![q] = "live"] /\ par' = [par EXCEPT ![q] = p]
  /\ UNCHANGED <<got, sigs, reaperVars>>

ProcessExits(p) == st[p] = "live" /\ Die(p) /\ UNCHANGED <<got, reaperVars>>

\* A process of the tree collects a child of its own.
ParentReaps(p) ==
  /\ st[p] = "live"
  /\ \E q \in Children(p) : st[q] = "zombie" /\ st' = [st EXCEPT ![q] = "gone"]
  /\ UNCHANGED <<par, got, sigs, reaperVars>>

SignalArrives(s) ==
  /\ pc \notin {"done", "no_status", "failed"} /\ s \notin sigs /\ sigs' = sigs \cup {s}
  /\ UNCHANGED <<treeVars, reaperVars>>

-----------------------------------------------------------------------------
(* wait_for_command_tree().                                                *)

\* waitpid(-1, WNOHANG), until nothing is left to collect; then on to the
\* signals, or out when there is no child any more.
Collect ==
  /\ pc = "reap"
  /\ \E p \in Children(Root) :
       /\ st[p] = "zombie" /\ st' = [st EXCEPT ![p] = "gone"]
       /\ status' = (status \/ p = Command)
  /\ UNCHANGED <<par, got, sigs, pc, stack, found, sending, signal, expired, members>>

StillAlive ==
  /\ pc = "reap" /\ Children(Root) # {} /\ \A p \in Children(Root) : st[p] = "live"
  /\ IF signal = "none"
     THEN pc' = "wait" /\ UNCHANGED <<stack, sending>>
     ELSE /\ pc' = "scan" /\ stack' = <<Root>>
          /\ sending' = IF expired THEN "KILL" ELSE signal
  /\ UNCHANGED <<treeVars, sigs, found, status, signal, expired, members>>

NoChild ==
  /\ pc = "reap" /\ Children(Root) = {}
  /\ pc' = IF status THEN "done" ELSE "no_status"
  /\ UNCHANGED <<treeVars, sigs, stack, found, sending, status, signal, expired, members>>

\* pop() takes the last of a list; /proc lists a set of processes in some order.
Last(q) == q[Len(q)]
Front(q) == SubSeq(q, 1, Len(q) - 1)
Listings(S) == {q \in [1 .. Cardinality(S) -> S] : \A i, j \in DOMAIN q : q[i] = q[j] => i = j}

\* signal_descendants reads the children of one process in whatever order /proc
\* lists them, those of all its threads in one step.  A process that is gone has
\* none; one that is dead has handed them over.
ReadChildren ==
  /\ pc = "scan" /\ stack # <<>>
  /\ \E fresh \in Listings(Children(Last(stack)) \ {found[i] : i \in DOMAIN found}) :
       stack' = Front(stack) \o fresh /\ found' = found \o fresh
  /\ UNCHANGED <<treeVars, sigs, pc, sending, status, signal, expired, members>>

ScanDone ==
  /\ pc = "scan" /\ stack = <<>> /\ pc' = "kill"
  /\ UNCHANGED <<treeVars, sigs, stack, found, sending, status, signal, expired, members>>

\* Access may be refused to a process that has not been collected.
Deniable(p) == p \in Protected /\ st[p] \in {"live", "zombie"}

\* An error is returned by every caller up to child_main(): the reaper exits, and
\* others adopt the tree.
Fails ==
  /\ pc' = "failed" /\ sigs' = {}
  /\ par' = [q \in Proc |-> IF q \in Children(Root) THEN Outside ELSE par[q]]
  /\ UNCHANGED <<st, got, stack, found, sending, status, signal, expired, members>>

\* The threads or the children of a process cannot be listed.
ReadFails == pc = "scan" /\ stack # <<>> /\ Deniable(Last(stack)) /\ Fails

\* forward_signal to the last one found that was not signalled yet; a process
\* that is no more is skipped.
ForwardSignal ==
  /\ pc = "kill" /\ found # <<>>
  /\ found' = Front(found)
  /\ LET p == Last(found)
     IN  IF st[p] # "live" THEN UNCHANGED <<treeVars, sigs>>
         ELSE /\ got' = [got EXCEPT ![p] = @ \cup {sending}]
              /\ IF sending = "KILL" THEN Die(p) ELSE UNCHANGED <<st, par, sigs>>
  /\ UNCHANGED <<pc, stack, sending, status, signal, expired, members>>

\* kill() is refused.
ForwardFails == pc = "kill" /\ found # <<>> /\ Deniable(Last(found)) /\ Fails

AllSignalled ==
  /\ pc = "kill" /\ found = <<>> /\ pc' = "wait"
  /\ UNCHANGED <<treeVars, sigs, stack, found, sending, status, signal, expired, members>>

\* A bug that grants a new grace period for every signal.
Deadline_Extended(s) == expired' = FALSE

\* The first termination signal sets the deadline, a later one keeps it.
Deadline(s) == UNCHANGED expired

\* sigtimedwait returns a signal, or times out at the deadline and then every
\* 100 ms; without a termination there is no timeout.
TakeSignal ==
  /\ pc = "wait" /\ pc' = "reap"
  /\ \E s \in sigs :
       /\ sigs' = sigs \ {s}
       /\ \/ s = "CHLD" /\ UNCHANGED <<signal, expired, members>>
          \/ /\ s # "CHLD" /\ signal' = s /\ Deadline(s)
             /\ members' = IF signal = "none" THEN Live ELSE members
  /\ UNCHANGED <<treeVars, stack, found, sending, status>>

WaitTimesOut ==
  /\ pc = "wait" /\ signal # "none" /\ expired /\ pc' = "reap"
  /\ UNCHANGED <<treeVars, sigs, stack, found, sending, status, signal, expired, members>>

GraceExpires ==
  /\ signal # "none" /\ ~expired /\ expired' = TRUE
  /\ UNCHANGED <<treeVars, sigs, pc, stack, found, sending, status, signal, members>>

Reap == \/ Collect \/ StillAlive \/ NoChild \/ ReadChildren \/ ReadFails \/ ScanDone
        \/ ForwardSignal \/ ForwardFails \/ AllSignalled \/ TakeSignal \/ WaitTimesOut

\* The reaper has returned and the child exits.
Returned == pc \in {"done", "no_status", "failed"} /\ UNCHANGED vars

Next ==
  \/ \E p \in Proc : Fork(p) \/ ProcessExits(p) \/ ParentReaps(p)
  \/ \E s \in TermSignal : SignalArrives(s)
  \/ Reap \/ GraceExpires \/ Returned

Spec == Init /\ [][Next]_vars

\* Fairness: the reaper is scheduled and time passes.  The processes of the
\* tree owe nothing.
FairSpec == Spec /\ WF_vars(Reap) /\ WF_vars(GraceExpires)

-----------------------------------------------------------------------------
(* Properties.                                                             *)

Signal == TermSignal \cup {"CHLD", "KILL", "none"}

\* Every variable has its type.
TypeOK ==
  /\ st \in [Proc -> {"unborn", "live", "zombie", "gone"}]
  /\ par \in [Proc -> {Root, Outside} \cup Proc]
  /\ got \in [Proc -> SUBSET Signal] /\ sigs \subseteq Signals
  /\ pc \in {"reap", "scan", "kill", "wait", "done", "no_status", "failed"}
  /\ stack \in Seq({Root} \cup Proc) /\ found \in Seq(Proc)
  /\ sending \in Signal /\ signal \in Signal
  /\ status \in BOOLEAN /\ expired \in BOOLEAN /\ members \subseteq Proc

\* The reaper returns only when no process of the tree is left, and it always
\* has the command's exit code then, whoever exits in whatever order.
TreeCollected ==
  /\ pc \in {"done", "no_status"} => \A p \in Proc : st[p] \in {"unborn", "gone"}
  /\ pc # "no_status"

\* A termination signal ends the tree, even when processes ignore it, fork while
\* they are being killed (as often as NumProcs allows), or more signals arrive all
\* the time: later signals do not extend the grace period.  The reaper gives up
\* only when /proc or kill() refuses it a process.
TerminationEndsTree == (signal # "none") ~> pc \in {"done", "failed"}

\* The reaper notices the end of the last process: no SIGCHLD is lost.
EndNoticed == (Live = {}) ~> pc \in {"done", "failed"}

\* README.md: "SIGTERM, SIGINT, and SIGHUP are forwarded to the managed command
\* tree": when the reaper goes to sleep until the end of the grace period, every
\* process that has been in the tree since the termination began has been told.
ForwardedToTree ==
  (pc = "wait" /\ sending \in TermSignal /\ sigs = {})
    => \A p \in members \cap Live : got[p] \cap TermSignal # {}
=============================================================================
