-------------------------- MODULE ProcessRegistry ---------------------------
(* The registry of the processes of one MCP server: run, kill and close.    *)
(*                                                                          *)
(* Every process leads a process group of its own.  Of the group only two   *)
(* parts are told apart: the leader, which is the child that is waited for, *)
(* and its descendants (member), which hold the same pipes.  A handle is    *)
(* completed when its exit code is set: the leader was waited for and both  *)
(* pipes are at their end.  The tool calls run on one event loop; they      *)
(* interleave where they await: run while the child is created, close while *)
(* it waits for the children.  Output is the subject of OutputBuffer.       *)
EXTENDS Naturals, FiniteSets

CONSTANTS
  Proc,          \* the processes that are ever run
  MaxProcesses,  \* max_processes
  MaxCalls,      \* bound of the model: calls of run in progress at a time
  Stubborn       \* the parts that ignore SIGTERM

Part == {"leader", "member"}

ASSUME ProcAssumption == IsFiniteSet(Proc)
ASSUME LimitAssumption == {MaxProcesses, MaxCalls} \subseteq Nat \ {0}
ASSUME StubbornAssumption == Stubborn \subseteq Part

VARIABLES
  phase,    \* of each process: its call of run is spawning it, or has started it
  live,     \* the parts of each group that run
  sig,      \* the strongest signal each part was sent
  reaped,   \* whether the returncode of the leader is known
  exited,   \* whether exit_code is set
  handles,  \* the keys of _processes
  born,     \* the position of each handle in the order of insertion, from 1
  closing,  \* how far close is: "open" before it is called
  found,    \* the running processes close found
  gathered  \* the handles whose tasks close waits for

processes == <<phase, live, sig, reaped, exited>>
registry  == <<handles, born>>
shutdown  == <<closing, found, gathered>>
vars == <<processes, registry, shutdown>>

Init ==
  /\ phase = [p \in Proc |-> "unused"]
  /\ live = [p \in Proc |-> {}]
  /\ sig = [p \in Proc |-> [part \in Part |-> "none"]]
  /\ reaped = [p \in Proc |-> FALSE]
  /\ exited = [p \in Proc |-> FALSE]
  /\ handles = {}
  /\ born = [p \in Proc |-> 0]
  /\ closing = "open" /\ found = {} /\ gathered = {}

Started == {p \in Proc : phase[p] = "started"}
Spawning == {p \in Proc : phase[p] = "spawning"}
Running == {p \in handles : ~exited[p]}
Completed == {p \in handles : exited[p]}

----------------------------------------------------------------------------
(* run *)

\* (mutant: the newest completed handles go)
EvictedNewest ==
  LET Newer(p) == {q \in Completed : born[q] > born[p]}
  IN  {p \in Completed : Cardinality(handles) - Cardinality(Newer(p)) >= MaxProcesses}

\* At the limit the oldest completed handles go, one after the other, as many
\* as it takes for a place to be free.
Evicted ==
  LET Older(p) == {q \in Completed : born[q] < born[p]}
  IN  {p \in Completed : Cardinality(handles) - Cardinality(Older(p)) >= MaxProcesses}

\* The names of processes are random: it is enough to take them in some order.
Fresh == CHOOSE p \in Proc : phase[p] = "unused"

\* The checks of run, up to the await of the child's creation.  If no place
\* is free after all, run fails; what it evicted is gone.
RunChecks(p) ==
  /\ phase[p] = "unused" /\ p = Fresh /\ closing = "open"
  /\ Cardinality(Spawning) < MaxCalls
  /\ handles' = handles \ Evicted
  /\ phase' = IF Cardinality(handles') < MaxProcesses
              THEN [phase EXCEPT ![p] = "spawning"] ELSE phase
  /\ UNCHANGED <<live, sig, reaped, exited, born, shutdown>>

\* The child exists and is registered; close may have been called meanwhile.
RunRegisters(p) ==
  /\ phase[p] = "spawning"
  /\ phase' = [phase EXCEPT ![p] = "started"]
  /\ \E parts \in {{"leader"}, Part} : live' = [live EXCEPT ![p] = parts]
  /\ handles' = handles \union {p}
  /\ born' = [born EXCEPT ![p] = Cardinality(Started) + 1]
  /\ UNCHANGED <<sig, reaped, exited, shutdown>>

\* (mutant: the failed call leaves a handle that nothing stands for)
RunFailsHalfway(p) ==
  /\ phase[p] = "spawning"
  /\ phase' = [phase EXCEPT ![p] = "failed"]
  /\ handles' = handles \union {p}
  /\ UNCHANGED <<live, sig, reaped, exited, born, shutdown>>

\* The program cannot be executed, or the call is cancelled.
RunFails(p) ==
  /\ phase[p] = "spawning"
  /\ phase' = [phase EXCEPT ![p] = "unused"]
  /\ UNCHANGED <<live, sig, reaped, exited, registry, shutdown>>

----------------------------------------------------------------------------
(* The group *)

Exits(p, part) ==
  /\ part \in live[p]
  /\ live' = [live EXCEPT ![p] = @ \ {part}]
  /\ UNCHANGED <<phase, sig, reaped, exited, registry, shutdown>>

\* The event loop learns of the leader's death.
Reap(p) ==
  /\ phase[p] = "started" /\ "leader" \notin live[p] /\ ~reaped[p]
  /\ reaped' = [reaped EXCEPT ![p] = TRUE]
  /\ UNCHANGED <<phase, live, sig, exited, registry, shutdown>>

\* (mutant: the exit code is set when the leader was waited for)
MarkExitedOfLeader(p) ==
  /\ reaped[p] /\ ~exited[p]
  /\ exited' = [exited EXCEPT ![p] = TRUE]
  /\ UNCHANGED <<phase, live, sig, reaped, registry, shutdown>>

\* Both drains are at the end of their pipes: nobody is left to write.
MarkExited(p) ==
  /\ reaped[p] /\ live[p] = {} /\ ~exited[p]
  /\ exited' = [exited EXCEPT ![p] = TRUE]
  /\ UNCHANGED <<phase, live, sig, reaped, registry, shutdown>>

\* (mutant: kill reaches the leader only)
SignalLeader(P, name) ==
  sig' = [p \in Proc |-> [part \in Part |->
    IF p \in P /\ part = "leader" /\ part \in live[p] /\ sig[p][part] # "KILL"
    THEN name ELSE sig[p][part]]]

\* killpg reaches every part that runs; that there is none is no error.
Signal(P, name) ==
  sig' = [p \in Proc |-> [part \in Part |->
    IF p \in P /\ part \in live[p] /\ sig[p][part] # "KILL" THEN name ELSE sig[p][part]]]

Kill(p, force) ==
  /\ p \in Running
  /\ Signal({p}, IF force THEN "KILL" ELSE "TERM")
  /\ UNCHANGED <<phase, live, reaped, exited, registry, shutdown>>

----------------------------------------------------------------------------
(* close *)

Gather == closing' = "gathering" /\ gathered' = handles

CloseStarts ==
  /\ closing = "open"
  /\ found' = Running
  /\ Signal(Running, "TERM")
  /\ IF Running = {} THEN Gather ELSE closing' = "grace" /\ UNCHANGED gathered
  /\ UNCHANGED <<phase, live, reaped, exited, registry>>

\* The leaders have all been waited for.
CloseSatisfied ==
  /\ closing = "grace" /\ \A p \in found : reaped[p]
  /\ Gather
  /\ UNCHANGED <<processes, registry, found>>

\* (mutant: nobody is killed after the grace period)
CloseTimesOutMildly ==
  /\ closing = "grace"
  /\ Gather
  /\ UNCHANGED <<processes, registry, found>>

\* Two seconds have passed; whoever has no returncode is killed.
CloseTimesOut ==
  /\ closing = "grace"
  /\ Signal({p \in found : ~reaped[p]}, "KILL")
  /\ Gather
  /\ UNCHANGED <<phase, live, reaped, exited, registry, found>>

CloseEnds ==
  /\ closing = "gathering" /\ \A p \in gathered : exited[p]
  /\ closing' = "closed"
  /\ UNCHANGED <<processes, registry, found, gathered>>

----------------------------------------------------------------------------

\* a part that a signal has doomed
Dies(p, part) ==
  /\ sig[p][part] \in IF part \in Stubborn THEN {"KILL"} ELSE {"TERM", "KILL"}
  /\ Exits(p, part)

CloseStep == CloseSatisfied \/ CloseTimesOut \/ CloseEnds

Next ==
  \/ \E p \in Proc :
       \/ RunChecks(p) \/ RunRegisters(p) \/ RunFails(p)
       \/ \E part \in Part : Exits(p, part)
       \/ Reap(p) \/ MarkExited(p)
       \/ \E force \in BOOLEAN : Kill(p, force)
  \/ CloseStarts \/ CloseStep

(* Signals are delivered, the event loop runs what is ready and its timer   *)
(* goes off.  A process that was not signalled may run for ever.            *)
Fairness ==
  /\ WF_vars(CloseStep)
  /\ \A p \in Proc :
       /\ WF_vars(Reap(p)) /\ WF_vars(MarkExited(p))
       /\ \A part \in Part : WF_vars(Dies(p, part))

Spec == Init /\ [][Next]_vars
FairSpec == Spec /\ Fairness

----------------------------------------------------------------------------
(* Properties *)

\* Every variable has its type.
TypeOK ==
  /\ phase \in [Proc -> {"unused", "spawning", "started"}]
  /\ live \in [Proc -> SUBSET Part]
  /\ sig \in [Proc -> [Part -> {"none", "TERM", "KILL"}]]
  /\ reaped \in [Proc -> BOOLEAN] /\ exited \in [Proc -> BOOLEAN]
  /\ handles \subseteq Proc
  /\ born \in [Proc -> Nat]
  /\ closing \in {"open", "grace", "gathering", "closed"}
  /\ found \subseteq Proc /\ gathered \subseteq Proc

\* An instance retains no more handles than the limit.
\* (README.en.md: "An instance retains up to 64 handles by default".)
HandlesWithinLimit == Cardinality(handles) <= MaxProcesses

\* Calls of run that overlap may pass the check of the limit together: they
\* exceed it by no more than the calls that are in progress besides one.  One
\* call at a time keeps the limit.
Fits(H) == Cardinality(H) <= MaxProcesses + MaxCalls - 1
HandlesBounded == Fits(handles)

\* The registry is such a table: a running process never loses its handle, of the
\* completed ones the oldest go first, none comes back, and overlapping calls exceed
\* the limit by no more than HandlesBounded says.
Table == INSTANCE HandleTable WITH
  running <- Running, completed <- Completed, Fits <- Fits
ImplementsTable == Table!Spec

\* When close returns, no part of a group that it found running is left, and
\* their handles are completed.
FoundAreGone ==
  closing = "closed" => \A p \in found : live[p] = {} /\ exited[p]

\* A process whose leader was sent SIGKILL becomes completed: its descendants,
\* who hold the pipes, do not survive it.
ForcedKillCompletes == \A p \in Proc : sig[p]["leader"] = "KILL" ~> exited[p]

\* close returns, whatever ignores SIGTERM: not within the grace period, but
\* once those it has to kill are dead.  (A call of run that is in progress when
\* close is called may register a process that close waits for unsignalled.)
AllFound == closing = "grace" /\ Spawning = {} /\ Running \subseteq found
CloseReturns == AllFound ~> closing = "closed"
=============================================================================
