-------------------------- MODULE SessionLifecycle --------------------------
(* One session directory: clients that run and stop, the daemons they start *)
(* and the sandboxes the daemons supervise.                                 *)
(*                                                                          *)
(* All clients resolve the same policy, hence the same session.  A client   *)
(* holds the workspace lock from before the resolution until it has joined  *)
(* the session or ended; start.lock is only ever taken inside it and left   *)
(* out.  A daemon is told apart from its successor as (pid, start time) is. *)
(* The control directory is named after the daemon it was made for: it is   *)
(* removed and made again with each start, and a sandbox goes on using the  *)
(* one that was bound into it.  Placeholders are the subject of             *)
(* SyntheticMounts; here registration and removal succeed or fail.          *)
EXTENDS Naturals, FiniteSets

CONSTANTS
  Client,       \* invocations of native-lab in progress at the same time
  Daemon,       \* bound of the model: the daemons that are ever started
  None,         \* no file, no holder of a lock
  Other,        \* a client or daemon of another workspace
  KillsUnseen,  \* whether a client may be killed before its daemon has written
                \* who it is
  SlowStart     \* whether 15 s may pass before a daemon has written who it is

ASSUME NamesAssumption == None # Other /\ {None, Other} \cap (Client \union Daemon) = {}
ASSUME FlagsAssumption == {KillsUnseen, SlowStart} \subseteq BOOLEAN

VARIABLES
  wlock,    \* the client that holds the workspace lock
  plock,    \* who holds policy-mount.lock: a daemon, or Other
  cpc,      \* where each client is
  after,    \* where a client goes on when the holder is terminated
  dpc,      \* where each daemon is
  term,     \* whether a daemon was sent SIGTERM
  sand,     \* the sandbox of each daemon
  bound,    \* the control directory that is bound into it
  control,  \* the control directory that the path names
  policy,   \* whether resolved-policy.json exists
  pidFile,  \* the daemon in holder.pid
  info,     \* the daemon in session.info
  ready,    \* the sandbox that wrote .mounts-ready
  release,  \* whether .mounts-release exists
  sock      \* the sandbox that listens on lab-ssh.sock

files == <<control, policy, pidFile, info, ready, release, sock>>
daemons == <<dpc, term, sand, bound, plock>>
clients == <<cpc, after, wlock>>
vars == <<files, daemons, clients>>

Untrapped == {"verify", "pid", "info", "plan", "lock"}
Trapped == {"register", "launch", "ack", "up"}
Ending == {"shutdown", "unregister"}
Live == {d \in Daemon : dpc[d] \in Untrapped \union Trapped \union Ending}
Sandboxed == {"booting", "acked", "preparing", "serving"}

Init ==
  /\ wlock = None /\ plock = None
  /\ cpc = [c \in Client |-> "idle"] /\ after = [c \in Client |-> "start"]
  /\ dpc = [d \in Daemon |-> "unused"] /\ term = [d \in Daemon |-> FALSE]
  /\ sand = [d \in Daemon |-> "none"] /\ bound = [d \in Daemon |-> None]
  /\ control = None /\ policy = FALSE /\ pidFile = None /\ info = None
  /\ ready = None /\ release = FALSE /\ sock = None

----------------------------------------------------------------------------
(* What a client can see *)

\* ssh true answers
SessionAlive == sock # None /\ sand[sock] = "serving"
\* holder.pid, session.info and the policy agree with a process that runs
HolderMatches ==
  pidFile # None /\ pidFile \in Live /\ info = pidFile /\ policy
NoState == pidFile = None /\ info = None /\ ~policy /\ control = None

CleanupStaleState ==
  /\ control' = None /\ policy' = FALSE /\ pidFile' = None /\ info' = None
  /\ ready' = None /\ release' = FALSE /\ sock' = None

Goes(c, label) == cpc' = [cpc EXCEPT ![c] = label]
Leave(c) == Goes(c, "idle") /\ wlock' = None /\ UNCHANGED after
GoesOn(c) ==
  IF after[c] = "fail" THEN Leave(c) ELSE Goes(c, after[c]) /\ UNCHANGED <<after, wlock>>

----------------------------------------------------------------------------
(* The client *)

Enter(c) ==
  /\ cpc[c] = "idle" /\ wlock = None
  /\ wlock' = c
  /\ Goes(c, "resolve")
  /\ UNCHANGED <<after, files, daemons>>

\* The policy is compiled under the policy lock, and may be refused.
\* (Bound of the model: a run goes on only while a daemon is left to start.)
Resolve(c) ==
  /\ cpc[c] = "resolve" /\ plock = None
  /\ \/ /\ \E d \in Daemon : dpc[d] = "unused"
        /\ Goes(c, "run") /\ UNCHANGED <<after, wlock>>
     \/ Goes(c, "stop") /\ UNCHANGED <<after, wlock>>
     \/ Leave(c)
  /\ UNCHANGED <<files, daemons>>

\* A session that answers must be held by a daemon that can be verified.
Join(c) ==
  /\ SessionAlive
  /\ IF HolderMatches THEN Goes(c, "joined") /\ UNCHANGED <<after, wlock>>
                      ELSE Leave(c)

\* It is tried again when start.lock is taken.
EnsureFirst(c) ==
  /\ cpc[c] = "run"
  /\ \/ Join(c)
     \/ ~SessionAlive /\ Goes(c, "ensure") /\ UNCHANGED <<after, wlock>>
  /\ UNCHANGED <<files, daemons>>

\* (mutant: a holder that does not answer is left to itself)
EnsureStarts(c) ==
  /\ cpc[c] = "ensure"
  /\ Join(c) \/ (~SessionAlive /\ Goes(c, "start") /\ UNCHANGED <<after, wlock>>)
  /\ UNCHANGED <<files, daemons>>

Ensure(c) ==
  /\ cpc[c] = "ensure"
  /\ \/ Join(c)
     \/ /\ ~SessionAlive
        /\ Goes(c, IF HolderMatches THEN "terminate" ELSE "start")
        /\ after' = [after EXCEPT ![c] = "start"]
        /\ UNCHANGED wlock
  /\ UNCHANGED <<files, daemons>>

\* A holder that is gone by now is fine, except for stop, which gives up.
TermSent(c) ==
  /\ cpc[c] = "terminate"
  /\ IF HolderMatches
     THEN /\ term' = [term EXCEPT ![pidFile] = TRUE]
          /\ Goes(c, "grace") /\ UNCHANGED <<after, wlock>>
     ELSE /\ UNCHANGED term
          /\ IF after[c] = "unregister"
             THEN Leave(c)
             ELSE GoesOn(c)
  /\ UNCHANGED <<files, dpc, sand, bound, plock>>

\* (mutant: the holder is only waited for during the grace period)
HolderGoneSoon(c) ==
  /\ cpc[c] = "grace"
  /\ GoesOn(c)
  /\ UNCHANGED <<files, daemons>>

\* The holder is waited for; after the grace period it is killed.
HolderGone(c) ==
  /\ cpc[c] = "grace" /\ ~HolderMatches
  /\ GoesOn(c)
  /\ UNCHANGED <<files, daemons>>

Dead(d) ==
  /\ dpc' = [dpc EXCEPT ![d] = "dead"]
  /\ plock' = IF plock = d THEN None ELSE plock

KillHolder(c) ==
  /\ cpc[c] = "grace" /\ HolderMatches
  /\ Dead(pidFile)
  /\ UNCHANGED <<clients, files, term, sand, bound>>

\* (mutant: an existing control directory is used again)
StartSessionAgain(c) ==
  /\ cpc[c] = "start"
  /\ \E d \in Daemon :
       /\ dpc[d] = "unused"
       /\ dpc' = [dpc EXCEPT ![d] = "verify"]
       /\ control' = IF control = None THEN d ELSE control
  /\ policy' = TRUE /\ pidFile' = None /\ info' = None
  /\ ready' = None /\ release' = FALSE /\ sock' = None
  /\ Goes(c, "wait")
  /\ UNCHANGED <<after, wlock, term, sand, bound, plock>>

\* What is left of an earlier session is removed, a control directory is made,
\* the policy installed and the daemon put in the background.
StartSession(c) ==
  /\ cpc[c] = "start"
  /\ \E d \in Daemon :
       /\ dpc[d] = "unused"
       /\ dpc' = [dpc EXCEPT ![d] = "verify"]
       /\ control' = d
  /\ policy' = TRUE /\ pidFile' = None /\ info' = None
  /\ ready' = None /\ release' = FALSE /\ sock' = None
  /\ Goes(c, "wait")
  /\ UNCHANGED <<after, wlock, term, sand, bound, plock>>

\* A session whose devices cannot be opened is ended again.
WaitReady(c) ==
  /\ cpc[c] = "wait" /\ SessionAlive
  /\ \/ Goes(c, "joined") /\ UNCHANGED after
     \/ Goes(c, "terminate") /\ after' = [after EXCEPT ![c] = "fail"]
  /\ UNCHANGED <<wlock, files, daemons>>

\* (mutant: only the session of a daemon that can be verified is given up)
WaitTimesOutVerified(c) ==
  /\ cpc[c] = "wait" /\ HolderMatches
  /\ Goes(c, "terminate")
  /\ after' = [after EXCEPT ![c] = "cleanup"]
  /\ UNCHANGED <<wlock, files, daemons>>

\* The client waits 15 s: that a daemon has not even written who it is by then
\* is possible with SlowStart only, unless it is dead.
WaitTimesOut(c) ==
  /\ cpc[c] = "wait"
  /\ SlowStart \/ HolderMatches \/ Live = {}
  /\ Goes(c, IF HolderMatches THEN "terminate" ELSE "cleanup")
  /\ after' = [after EXCEPT ![c] = "cleanup"]
  /\ UNCHANGED <<wlock, files, daemons>>

\* (mutant: the lock is left out of the error path)
CleanupLocked(c) ==
  /\ cpc[c] = "cleanup"
  /\ CleanupStaleState
  /\ Goes(c, "idle") /\ UNCHANGED <<after, wlock>>
  /\ UNCHANGED daemons

\* The start failed: its state goes, and so does the client.
Cleanup(c) ==
  /\ cpc[c] = "cleanup"
  /\ CleanupStaleState
  /\ Leave(c)
  /\ UNCHANGED daemons

\* The session is the client's own now, or its devices cannot be opened.
Joined(c) ==
  /\ cpc[c] = "joined"
  /\ Leave(c)
  /\ UNCHANGED <<files, daemons>>

Stop(c) ==
  /\ cpc[c] = "stop"
  /\ IF NoState THEN Goes(c, "stopped") /\ UNCHANGED <<after, wlock>>
     ELSE IF ~HolderMatches /\ (SessionAlive \/ pidFile \in Live) THEN Leave(c)
     ELSE /\ Goes(c, IF HolderMatches THEN "terminate" ELSE "unregister")
          /\ after' = [after EXCEPT ![c] = "unregister"]
          /\ UNCHANGED wlock
  /\ UNCHANGED <<files, daemons>>

\* The placeholders of the session are removed, under the policy lock if there
\* is a policy; the state goes only if that succeeds.
StopCleans(c) ==
  /\ cpc[c] = "unregister"
  /\ \/ /\ policy => plock = None
        /\ CleanupStaleState
        /\ Goes(c, "stopped") /\ UNCHANGED <<after, wlock>>
     \/ policy /\ plock = None /\ Leave(c) /\ UNCHANGED files
  /\ UNCHANGED daemons

\* stop --all takes the policy from the session instead of resolving it.  A
\* session without session.info is not listed; one that contradicts itself is
\* left alone, and the client fails.
ListSessions(c) ==
  /\ cpc[c] = "resolve"
  /\ \/ /\ info = None
        /\ Goes(c, "allstopped") /\ UNCHANGED <<after, wlock>>
     \/ /\ info # None /\ policy /\ pidFile = info
        /\ Goes(c, "stop") /\ UNCHANGED <<after, wlock>>
     \/ /\ info # None /\ ~(policy /\ pidFile = info)
        /\ Leave(c)
  /\ UNCHANGED <<files, daemons>>

Stopped(c) ==
  /\ cpc[c] \in {"stopped", "allstopped"}
  /\ Leave(c)
  /\ UNCHANGED <<files, daemons>>

\* Its locks go with it; the daemon it started has no copy of them.  In the
\* middle of a cleanup the control directory may be gone and the rest not.
ClientKilled(c) ==
  /\ cpc[c] # "idle"
  /\ KillsUnseen \/ Live = {} \/ HolderMatches
  /\ Leave(c)
  /\ \/ UNCHANGED files
     \/ /\ cpc[c] \in {"start", "cleanup", "unregister"}
        /\ control' = None /\ ready' = None /\ release' = FALSE /\ sock' = None
        /\ UNCHANGED <<policy, pidFile, info>>
  /\ UNCHANGED daemons

----------------------------------------------------------------------------
(* The daemon *)

Go(d, label) == dpc' = [dpc EXCEPT ![d] = label] /\ UNCHANGED plock

Verify(d) ==
  /\ dpc[d] = "verify"
  /\ Go(d, IF policy /\ control # None THEN "pid" ELSE "dead")
  /\ UNCHANGED <<clients, files, term, sand, bound>>

WritePid(d) ==
  /\ dpc[d] = "pid"
  /\ pidFile' = d
  /\ Go(d, "info")
  /\ UNCHANGED <<clients, control, policy, info, ready, release, sock, term, sand, bound>>

WriteInfo(d) ==
  /\ dpc[d] = "info"
  /\ info' = d
  /\ Go(d, "plan")
  /\ UNCHANGED <<clients, control, policy, pidFile, ready, release, sock, term, sand, bound>>

\* The mount plan is made from the policy, and stale acknowledgements go.
Plan(d) ==
  /\ dpc[d] = "plan"
  /\ IF policy
     THEN Go(d, "lock") /\ ready' = None /\ release' = FALSE
     ELSE Go(d, "dead") /\ UNCHANGED <<ready, release>>
  /\ UNCHANGED <<clients, control, policy, pidFile, info, sock, term, sand, bound>>

TakePolicyLock(d) ==
  /\ dpc[d] = "lock" /\ plock = None
  /\ plock' = d
  /\ dpc' = [dpc EXCEPT ![d] = "register"]
  /\ UNCHANGED <<clients, files, term, sand, bound>>

Register(d) ==
  /\ dpc[d] = "register"
  /\ Go(d, "shutdown") \/ (policy /\ Go(d, "launch"))
  /\ UNCHANGED <<clients, files, term, sand, bound>>

Launch(d) ==
  /\ dpc[d] = "launch"
  /\ IF control = None \/ ~policy
     THEN Go(d, "shutdown") /\ UNCHANGED <<sand, bound>>
     ELSE /\ sand' = [sand EXCEPT ![d] = "booting"]
          /\ bound' = [bound EXCEPT ![d] = control]
          /\ Go(d, "ack")
  /\ UNCHANGED <<clients, files, term>>

Acknowledged(d) ==
  /\ dpc[d] = "ack" /\ ready # None
  /\ release' = TRUE
  /\ plock' = None
  /\ dpc' = [dpc EXCEPT ![d] = "up"]
  /\ UNCHANGED <<clients, control, policy, pidFile, info, ready, sock, term, sand, bound>>

\* No acknowledgement in time, a device that changed, or bubblewrap has ended.
GivesUp(d) ==
  /\ dpc[d] = "ack" \/ (dpc[d] = "up" /\ sand[d] = "gone")
  /\ Go(d, "shutdown")
  /\ UNCHANGED <<clients, files, term, sand, bound>>

\* Before the trap is set a signal just ends the daemon.
TermTaken(d) ==
  /\ term[d]
  /\ \/ dpc[d] \in Untrapped /\ Dead(d)
     \/ dpc[d] \in Trapped /\ Go(d, "shutdown")
  /\ UNCHANGED <<clients, files, term, sand, bound>>

Shutdown(d) ==
  /\ dpc[d] = "shutdown"
  /\ sand' = [sand EXCEPT ![d] = IF @ \in Sandboxed THEN "gone" ELSE @]
  /\ Go(d, "unregister")
  /\ UNCHANGED <<clients, files, term, bound>>

Unregister(d) ==
  /\ dpc[d] = "unregister" /\ plock \in {None, d}
  /\ Dead(d)
  /\ ready' = None /\ release' = FALSE
  /\ UNCHANGED <<clients, control, policy, pidFile, info, sock, term, sand, bound>>

\* The daemon is in the process group of the client that started it, which is one of
\* the groups that an MCP server signals.
GroupSignalled(d) ==
  /\ d \in Live /\ ~term[d]
  /\ term' = [term EXCEPT ![d] = TRUE]
  /\ UNCHANGED <<clients, files, dpc, sand, bound, plock>>

DaemonKilled(d) ==
  /\ d \in Live
  /\ Dead(d)
  /\ UNCHANGED <<clients, files, term, sand, bound>>

\* Another session's resolution, start or stop uses the policy lock.
OtherLocks ==
  /\ plock = None
  /\ plock' = Other
  /\ UNCHANGED <<files, clients, dpc, term, sand, bound>>

OtherUnlocks ==
  /\ plock = Other
  /\ plock' = None
  /\ UNCHANGED <<files, clients, dpc, term, sand, bound>>

----------------------------------------------------------------------------
(* The sandbox, from the bootstrap script to the end of its listener *)

Sees(d) == bound[d] = control
Sand(d, label) == sand' = [sand EXCEPT ![d] = label]

Acknowledge(d) ==
  /\ sand[d] = "booting"
  /\ Sand(d, "acked")
  /\ ready' = IF Sees(d) THEN d ELSE ready
  /\ UNCHANGED <<clients, control, policy, pidFile, info, release, sock, dpc, term, bound, plock>>

Released(d) ==
  /\ sand[d] = "acked" /\ Sees(d) /\ release
  /\ ready' = None /\ release' = FALSE
  /\ Sand(d, "preparing")
  /\ UNCHANGED <<clients, control, policy, pidFile, info, sock, dpc, term, bound, plock>>

Listen(d) ==
  /\ sand[d] = "preparing"
  /\ Sand(d, "serving")
  /\ sock' = IF Sees(d) THEN d ELSE sock
  /\ UNCHANGED <<clients, control, policy, pidFile, info, ready, release, dpc, term, bound, plock>>

\* It fails, is not released in time, or dies with its daemon; the trap that
\* removes the socket may not get to run.
SandboxEnds(d) ==
  /\ sand[d] \in Sandboxed
  /\ Sand(d, "gone")
  /\ (sand[d] = "serving" /\ Sees(d) /\ sock' = None) \/ UNCHANGED sock
  /\ UNCHANGED <<clients, control, policy, pidFile, info, ready, release, dpc, term, bound, plock>>

----------------------------------------------------------------------------

ClientStep(c) ==
  \/ Resolve(c) \/ EnsureFirst(c) \/ Ensure(c) \/ TermSent(c) \/ HolderGone(c) \/ KillHolder(c)
  \/ StartSession(c) \/ WaitReady(c) \/ WaitTimesOut(c) \/ Cleanup(c) \/ Joined(c)
  \/ Stop(c) \/ StopCleans(c) \/ ListSessions(c) \/ Stopped(c)
DaemonStep(d) ==
  \/ Verify(d) \/ WritePid(d) \/ WriteInfo(d) \/ Plan(d) \/ TakePolicyLock(d)
  \/ Register(d) \/ Launch(d) \/ Acknowledged(d) \/ GivesUp(d)
  \/ Shutdown(d) \/ Unregister(d)
SandboxStep(d) == Acknowledge(d) \/ Released(d) \/ Listen(d)

Next ==
  \/ \E c \in Client : Enter(c) \/ ClientStep(c) \/ ClientKilled(c)
  \/ \E d \in Daemon : \/ DaemonStep(d) \/ TermTaken(d) \/ GroupSignalled(d) \/ DaemonKilled(d)
                       \/ SandboxStep(d) \/ SandboxEnds(d)
  \/ OtherLocks \/ OtherUnlocks

(* Processes run; one that waits for a lock gets it in the end, for flock   *)
(* serves its waiters, other sessions give it back, and a sandbox whose     *)
(* daemon is dead is killed by the kernel.  Only one client is ever past    *)
(* the workspace lock, so that it is enough that some client goes on.       *)
Fairness ==
  /\ WF_vars(OtherUnlocks)
  /\ SF_vars(\E c \in Client : ClientStep(c))
  /\ SF_vars(\E d \in Daemon : DaemonStep(d))
  /\ WF_vars(\E d \in Daemon : TermTaken(d))
  /\ WF_vars(\E d \in Daemon : SandboxStep(d))
  /\ WF_vars(\E d \in Daemon \ Live : SandboxEnds(d))

Spec == Init /\ [][Next]_vars
FairSpec == Spec /\ Fairness

----------------------------------------------------------------------------
(* Properties *)

\* Every variable has its type, and exactly the client in progress holds the
\* workspace lock.
TypeOK ==
  /\ \A c \in Client : wlock = c <=> cpc[c] # "idle"
  /\ wlock \in Client \union {None}
  /\ plock \in Daemon \union {None, Other}
  /\ {pidFile, info, ready, sock, control} \subseteq Daemon \union {None}
  /\ cpc \in [Client -> {"idle", "resolve", "run", "ensure", "terminate", "grace", "start", "wait",
       "cleanup", "joined", "stop", "unregister", "stopped", "allstopped"}]
  /\ after \in [Client -> {"start", "cleanup", "unregister", "fail"}]
  /\ dpc \in [Daemon -> Untrapped \union Trapped \union Ending \union {"unused", "dead"}]
  /\ sand \in [Daemon -> Sandboxed \union {"none", "gone"}]
  /\ bound \in [Daemon -> Daemon \union {None}]
  /\ term \in [Daemon -> BOOLEAN]
  /\ {policy, release} \subseteq BOOLEAN

\* Startup is serialized: there is never a second daemon for the session.
\* (README.en.md: "Concurrent startup is serialized with flock".)
OneDaemon == Cardinality(Live) <= 1

\* What a client is told, and whom, is what a session that is on or off says of
\* itself: a daemon starts alone and while no client believes anything, the state
\* of a session goes only when its daemon is dead, a client joins only a session
\* that is installed, and is told that it is gone only when it is.
S == INSTANCE Session WITH
  live <- Live, spent <- {d \in Daemon : dpc[d] # "unused"}, session <- control,
  told <- [c \in Client |->
    CASE cpc[c] = "joined" -> "joined" [] cpc[c] = "stopped" -> "gone"
      [] cpc[c] = "allstopped" -> "ended" [] OTHER -> "nothing"]
ImplementsSession == S!Spec

\* When stop has reported success, no daemon of the session is left, and no file
\* from which another client would conclude that there is one.  stop --all may
\* leave files, of a session that it does not list, but no daemon and no session
\* that answers.
StopLeavesNothing ==
  \A c \in Client :
    /\ cpc[c] = "stopped" => Live = {} /\ NoState /\ sock = None
    /\ cpc[c] = "allstopped" => Live = {} /\ ~SessionAlive

\* What a run joins is supervised: the sandbox that answers is that of the
\* daemon in holder.pid, which stop will signal, and never an earlier one's.
RunJoinsHolder ==
  \A c \in Client : cpc[c] = "joined" /\ SessionAlive => pidFile = sock

\* A sandbox is released only by the daemon that launched it, with its placeholders
\* registered: acknowledgements of earlier sandboxes do not count.
OwnAcknowledgement ==
  \A d \in Daemon : dpc[d] = "up" => sand[d] \notin {"none", "booting"}

\* Every client ends, whatever becomes of the daemon it waits for.
ClientEnds == \A c \in Client : wlock = c ~> wlock # c
=============================================================================
