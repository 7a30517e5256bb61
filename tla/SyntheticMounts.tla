-------------------------- MODULE SyntheticMounts --------------------------
(* The registry of synthetic mountpoints of one workspace.                  *)
(*                                                                          *)
(* A protected name (.git, .agents, .codex) that is missing from the        *)
(* workspace is given an empty placeholder directory on the host for as     *)
(* long as a session needs a mountpoint there.  Ownership is recorded in    *)
(* one marker file per session and target; resolution, registration and     *)
(* removal run in the Python helper under policy-mount.lock.  The user, who *)
(* takes no lock, keeps working in the same directory, and daemons and      *)
(* helpers may be killed between any two steps.                             *)
(*                                                                          *)
(* Process identity (pid, start_ticks) is abstracted to `alive': a marker   *)
(* is active exactly when the daemon that wrote it lives.  A session id is  *)
(* abstracted to the daemon's slot, which is used again after the daemon is *)
(* gone; the slot starts a second life only through a new resolution.       *)
EXTENDS Naturals

CONSTANTS
  Daemon,       \* sessions of the workspace, one daemon each
  NTarget,      \* the protected names, in the order the masks are handled
  Ino,          \* inode numbers; a number is used again once it is free
  NoInode,      \* the identity of what does not exist
  NoMarker,     \* no marker file
  Provisional,  \* a marker whose target_dev and target_ino are still None
  Missing,      \* the mask kind "missing-directory"
  Nobody,       \* a lock that is free
  UserKinds,    \* what the user creates besides directories
  HelperKills   \* whether the Python helper itself may be killed

Target == 1 .. NTarget

ASSUME NTargetAssumption == NTarget \in Nat \ {0}
ASSUME MarkerAssumption ==
  NoMarker \notin Ino \union {Provisional, NoInode} /\ Provisional \notin Ino
ASSUME IdentityAssumption == Ino \intersect {NoInode, Missing} = {}
ASSUME NobodyAssumption  == Nobody \notin Daemon
ASSUME KindsAssumption   == UserKinds \subseteq {"file", "link"}
ASSUME KillsAssumption   == HelperKills \in BOOLEAN

VARIABLES
  obj,      \* what is found at each target in the workspace
  mdir,     \* whether the marker directory of the target exists
  marker,   \* the marker of each daemon for each target
  alive,    \* whether the daemon process (bash, native-labd) exists
  pc,       \* where the session's client, daemon or helper is
  cur,      \* the mask the helper is at
  plan,     \* the resolved kind of each mask: Missing, or an identity
  lock,     \* the holder of policy-mount.lock
  starter   \* the session whose client holds the workspace lock

vars == <<obj, mdir, marker, alive, pc, cur, plan, lock, starter>>

Kind   == {"absent", "dir", "file", "link"}
\* who made the object: `adopted' is a placeholder the user has put content in
Origin == {"lab", "adopted", "user"}

Object == [kind: Kind, ino: Ino \union {NoInode}, empty: BOOLEAN, origin: Origin]
Marker == Ino \union {NoMarker, Provisional, NoInode}

Absent == [kind |-> "absent", ino |-> NoInode, empty |-> TRUE, origin |-> "user"]
Made(k, i, who) == [kind |-> k, ino |-> i, empty |-> TRUE, origin |-> who]

Resolving     == {"resInspect", "resClassify"}
Registering   == {"register", "regReserve", "regMkdir", "regFinal"}
Unregistering == {"unrDrop", "unrScan", "unrRemove"}
Helping       == Resolving \union Registering \union Unregistering
Locked        == Helping \union {"launch"}
PC == Locked \union {"idle", "entered", "resolved", "starting", "up", "stopping"}

Init ==
  /\ obj = [t \in Target |-> Absent]
  /\ mdir = [t \in Target |-> FALSE]
  /\ marker = [t \in Target |-> [d \in Daemon |-> NoMarker]]
  /\ alive = [d \in Daemon |-> FALSE]
  /\ pc = [d \in Daemon |-> "idle"]
  /\ cur = [d \in Daemon |-> 1]
  /\ plan = [d \in Daemon |-> [t \in Target |-> Missing]]
  /\ lock = Nobody
  /\ starter = Nobody

----------------------------------------------------------------------------
(* What the helper reads *)

Marked(t) == {e \in Daemon : marker[t][e] # NoMarker}
Active(t) == {e \in Marked(t) : alive[e]}
Exists(t) == obj[t].kind # "absent"
\* a real directory with no entry in it
Bare(t) == obj[t].kind = "dir" /\ obj[t].empty
FreshIno(i) == \A u \in Target : obj[u].ino # i

\* (mutant: the markers of live daemons are unlinked too)
SweptAll(t) == [marker EXCEPT ![t] = [e \in Daemon |-> NoMarker]]
\* the markers left when those of dead daemons are unlinked
Swept(t) == [marker EXCEPT ![t] =
               [e \in Daemon |-> IF alive[e] THEN marker[t][e] ELSE NoMarker]]

----------------------------------------------------------------------------
(* Control *)

Goto(d, label) == pc' = [pc EXCEPT ![d] = label] /\ UNCHANGED cur
Begin(d, label) == pc' = [pc EXCEPT ![d] = label] /\ cur' = [cur EXCEPT ![d] = 1]
NextMask(d, label) ==
  pc' = [pc EXCEPT ![d] = label] /\ cur' = [cur EXCEPT ![d] = @ + 1]

Release(d) == lock' = IF lock = d THEN Nobody ELSE lock

\* the slot is free again: the daemon, if any, has exited
Gone(d) ==
  /\ Begin(d, "idle")
  /\ alive' = [alive EXCEPT ![d] = FALSE]
  /\ plan' = [plan EXCEPT ![d] = [t \in Target |-> Missing]]
  /\ Release(d)

ResolveFails(d) == Gone(d) /\ starter' = Nobody

\* set -e and the EXIT trap: the daemon unregisters what it registered, still
\* under the lock; the helper of a daemon that was killed just ends
RegisterFails(d) ==
  /\ IF alive[d] THEN Begin(d, "unrDrop") /\ UNCHANGED <<alive, plan, lock>>
                 ELSE Gone(d)
  /\ UNCHANGED starter

----------------------------------------------------------------------------
(* The client: native-lab up to the start of the daemon *)

\* The client takes the workspace lock and asks for a resolution.
ClientEnters(d) ==
  /\ pc[d] = "idle" /\ starter = Nobody
  /\ starter' = d
  /\ Goto(d, "entered")
  /\ UNCHANGED <<obj, mdir, marker, alive, plan, lock>>

ResolveLock(d) ==
  /\ pc[d] = "entered" /\ lock = Nobody
  /\ lock' = d
  /\ Begin(d, "resInspect")
  /\ UNCHANGED <<obj, mdir, marker, alive, plan, starter>>

\* (mutant: the placeholder of the dead daemon stays)
InspectInactiveLeaves(d, t, label) ==
  /\ Active(t) = {}
  /\ Marked(t) # {} /\ Exists(t) => Bare(t)
  /\ mdir' = [mdir EXCEPT ![t] = FALSE]
  /\ marker' = Swept(t)
  /\ Goto(d, label)
  /\ UNCHANGED <<obj, alive, plan, lock, starter>>

\* An unmarked target, or one whose last marker was of a dead daemon: the
\* empty placeholder of the dead daemon is removed, then the marker directory.
InspectInactive(d, t, label) ==
  /\ Active(t) = {}
  /\ Marked(t) # {} /\ Exists(t) => Bare(t)
  /\ obj' = IF Marked(t) # {} THEN [obj EXCEPT ![t] = Absent] ELSE obj
  /\ mdir' = [mdir EXCEPT ![t] = FALSE]
  /\ marker' = Swept(t)
  /\ Goto(d, label)
  /\ UNCHANGED <<alive, plan, lock, starter>>

\* A target with a live holder must still be the directory that was marked.
HeldAsMarked(t) == Bare(t) /\ \A e \in Active(t) : marker[t][e] = obj[t].ino

InspectActive(t) ==
  /\ Active(t) # {} /\ HeldAsMarked(t)
  /\ marker' = Swept(t)
  /\ UNCHANGED <<obj, mdir, alive, plan, lock, starter>>

InspectRefuses(t) ==
  /\ IF Active(t) # {} THEN ~HeldAsMarked(t)
                       ELSE Marked(t) # {} /\ Exists(t) /\ ~Bare(t)
  /\ marker' = Swept(t)
  /\ UNCHANGED <<obj, mdir>>

ResolveInspect(d) ==
  /\ pc[d] = "resInspect" /\ cur[d] <= NTarget
  /\ LET t == cur[d] IN
       \/ InspectActive(t) /\ NextMask(d, "resInspect")   \* plan[d][t] is Missing
       \/ InspectInactive(d, t, "resClassify")
       \/ InspectRefuses(t) /\ ResolveFails(d)

\* (mutant: the mask kind is recorded instead of the identity)
ResolveClassifyKind(d) ==
  /\ pc[d] = "resClassify"
  /\ LET t == cur[d] IN
       /\ obj[t].kind # "link"
       /\ plan' = [plan EXCEPT ![d][t] = IF Exists(t) THEN obj[t].kind ELSE Missing]
       /\ NextMask(d, "resInspect")
  /\ UNCHANGED <<obj, mdir, marker, alive, lock, starter>>

ResolveClassify(d) ==
  /\ pc[d] = "resClassify"
  /\ LET t == cur[d] IN
       IF obj[t].kind = "link"
       THEN ResolveFails(d)
       ELSE /\ plan' = [plan EXCEPT ![d][t] = IF Exists(t) THEN obj[t].ino ELSE Missing]
            /\ NextMask(d, "resInspect")
            /\ UNCHANGED <<alive, lock, starter>>
  /\ UNCHANGED <<obj, mdir, marker>>

\* The policy is written and the policy lock released.
Resolved(d) ==
  /\ pc[d] = "resInspect" /\ cur[d] > NTarget
  /\ lock' = Nobody
  /\ Begin(d, "resolved")
  /\ UNCHANGED <<obj, mdir, marker, alive, plan, starter>>

StartDaemon(d) ==
  /\ pc[d] = "resolved"
  /\ alive' = [alive EXCEPT ![d] = TRUE]
  /\ Goto(d, "starting")
  /\ UNCHANGED <<obj, mdir, marker, plan, lock, starter>>

\* The client releases the workspace lock: the session is ready, the client
\* gave up waiting for it, or it was interrupted.
ClientLeaves(d) ==
  /\ starter = d /\ pc[d] \notin Resolving
  /\ starter' = Nobody
  /\ IF pc[d] \in {"entered", "resolved"}
     THEN Gone(d)
     ELSE UNCHANGED <<pc, cur, alive, plan, lock>>
  /\ UNCHANGED <<obj, mdir, marker>>

----------------------------------------------------------------------------
(* The daemon and its register-synthetics helper *)

StartLock(d) ==
  /\ pc[d] = "starting" /\ lock = Nobody
  /\ lock' = d
  /\ Begin(d, "register")
  /\ UNCHANGED <<obj, mdir, marker, alive, plan, starter>>

\* A mask over something that existed: its identity is checked again.
RegisterExisting(d) ==
  /\ pc[d] = "register" /\ cur[d] <= NTarget /\ plan[d][cur[d]] # Missing
  /\ LET t == cur[d] IN
       IF obj[t].kind \in {"dir", "file"} /\ obj[t].ino = plan[d][t]
       THEN NextMask(d, "register") /\ UNCHANGED <<alive, plan, lock, starter>>
       ELSE RegisterFails(d)
  /\ UNCHANGED <<obj, mdir, marker>>

RegisterInspect(d) ==
  /\ pc[d] = "register" /\ cur[d] <= NTarget /\ plan[d][cur[d]] = Missing
  /\ LET t == cur[d] IN
       \/ InspectActive(t) /\ Goto(d, "regFinal")
       \/ InspectInactive(d, t, "regReserve")
       \/ InspectRefuses(t) /\ RegisterFails(d)

\* (mutant: no marker precedes the placeholder)
RegisterReserveUnmarked(d) ==
  /\ pc[d] = "regReserve"
  /\ mdir' = [mdir EXCEPT ![cur[d]] = TRUE]
  /\ IF Exists(cur[d]) THEN RegisterFails(d)
                       ELSE Goto(d, "regMkdir") /\ UNCHANGED <<alive, plan, lock, starter>>
  /\ UNCHANGED <<obj, marker>>

\* The marker directory is made first; the provisional marker precedes the
\* placeholder, so that a crash between them leaves a marker to find.
RegisterReserve(d) ==
  /\ pc[d] = "regReserve"
  /\ LET t == cur[d] IN
       /\ mdir' = [mdir EXCEPT ![t] = TRUE]
       /\ IF Exists(t)
          THEN RegisterFails(d) /\ UNCHANGED marker
          ELSE /\ marker' = [marker EXCEPT ![t][d] = Provisional]
               /\ Goto(d, "regMkdir")
               /\ UNCHANGED <<alive, plan, lock, starter>>
  /\ UNCHANGED obj

RegisterMkdir(d) ==
  /\ pc[d] = "regMkdir"
  /\ LET t == cur[d] IN
       IF Exists(t)
       THEN RegisterFails(d) /\ UNCHANGED obj
       ELSE /\ \E i \in Ino : FreshIno(i) /\ obj' = [obj EXCEPT ![t] = Made("dir", i, "lab")]
            /\ Goto(d, "regFinal")
            /\ UNCHANGED <<alive, plan, lock, starter>>
  /\ UNCHANGED <<mdir, marker>>

RegisterFinal(d) ==
  /\ pc[d] = "regFinal"
  /\ LET t == cur[d] IN
       IF Bare(t)
       THEN /\ marker' = [marker EXCEPT ![t][d] = obj[t].ino]
            /\ NextMask(d, "register")
            /\ UNCHANGED <<alive, plan, lock, starter>>
       ELSE RegisterFails(d) /\ UNCHANGED marker
  /\ UNCHANGED <<obj, mdir>>

\* The helper is done; one whose daemon was killed meanwhile just ends.
Registered(d) ==
  /\ pc[d] = "register" /\ cur[d] > NTarget
  /\ IF alive[d] THEN Begin(d, "launch") /\ UNCHANGED <<alive, plan, lock>>
                 ELSE Gone(d)
  /\ UNCHANGED <<obj, mdir, marker, starter>>

\* (mutant: the policy lock is kept)
LaunchSucceedsLocked(d) ==
  /\ pc[d] = "launch"
  /\ Goto(d, "up")
  /\ UNCHANGED <<obj, mdir, marker, alive, plan, lock, starter>>

\* The bootstrap acknowledged its mounts: it is released, and so is the lock.
LaunchSucceeds(d) ==
  /\ pc[d] = "launch"
  /\ Release(d)
  /\ Goto(d, "up")
  /\ UNCHANGED <<obj, mdir, marker, alive, plan, starter>>

\* GPU validation failed, bubblewrap exited, no acknowledgement in time, or a
\* signal came: the EXIT trap runs with the lock still held.
LaunchFails(d) ==
  /\ pc[d] = "launch"
  /\ Begin(d, "unrDrop")
  /\ UNCHANGED <<obj, mdir, marker, alive, plan, lock, starter>>

\* The sandbox ended, or the daemon was told to stop and has reaped it.
Stop(d) ==
  /\ pc[d] = "up"
  /\ Goto(d, "stopping")
  /\ UNCHANGED <<obj, mdir, marker, alive, plan, lock, starter>>

\* (mutant: the daemon unregisters without the policy lock)
StopUnlocked(d) ==
  /\ pc[d] = "stopping"
  /\ Begin(d, "unrDrop")
  /\ UNCHANGED <<obj, mdir, marker, alive, plan, lock, starter>>

StopLock(d) ==
  /\ pc[d] = "stopping" /\ lock = Nobody
  /\ lock' = d
  /\ Begin(d, "unrDrop")
  /\ UNCHANGED <<obj, mdir, marker, alive, plan, starter>>

----------------------------------------------------------------------------
(* The unregister-synthetics helper *)

\* (mutant: the lock is not released on the error path)
UnregisterFailsLocked(d) ==
  /\ Begin(d, "idle")
  /\ alive' = [alive EXCEPT ![d] = FALSE]
  /\ plan' = [plan EXCEPT ![d] = [t \in Target |-> Missing]]
  /\ UNCHANGED <<lock, starter>>

UnregisterFails(d) == Gone(d) /\ UNCHANGED starter

\* The session's own marker goes first; masks of another kind are passed over.
UnregisterDrop(d) ==
  /\ pc[d] = "unrDrop" /\ cur[d] <= NTarget
  /\ LET t == cur[d] IN
       IF plan[d][t] = Missing
       THEN marker' = [marker EXCEPT ![t][d] = NoMarker] /\ Goto(d, "unrScan")
       ELSE NextMask(d, "unrDrop") /\ UNCHANGED marker
  /\ UNCHANGED <<obj, mdir, alive, plan, lock, starter>>

\* (mutant: any other marker keeps the placeholder, that of a dead daemon too)
UnregisterScanMarked(d) ==
  /\ pc[d] = "unrScan"
  /\ LET t == cur[d] IN
       /\ marker' = IF mdir[t] THEN Swept(t) ELSE marker
       /\ IF mdir[t] /\ Marked(t) = {} THEN Goto(d, "unrRemove")
                                        ELSE NextMask(d, "unrDrop")
  /\ UNCHANGED <<obj, mdir, alive, plan, lock, starter>>

\* An active marker of another session keeps the placeholder; it must name the
\* directory that is there, or the helper fails, having unlinked the markers of
\* dead daemons it came across first.
UnregisterScan(d) ==
  /\ pc[d] = "unrScan"
  /\ LET t == cur[d] IN
       IF mdir[t] /\ Exists(t) /\ \E e \in Active(t) : marker[t][e] # obj[t].ino
       THEN /\ \/ marker' = Swept(t)
               \/ UNCHANGED marker
            /\ UnregisterFails(d)
       ELSE /\ marker' = IF mdir[t] THEN Swept(t) ELSE marker
            /\ IF mdir[t] /\ Active(t) = {} THEN Goto(d, "unrRemove")
                                            ELSE NextMask(d, "unrDrop")
            /\ UNCHANGED <<alive, plan, lock, starter>>
  /\ UNCHANGED <<obj, mdir>>

UnregisterRemove(d) ==
  /\ pc[d] = "unrRemove"
  /\ LET t == cur[d] IN
       IF Exists(t) => Bare(t)
       THEN /\ obj' = [obj EXCEPT ![t] = Absent]
            /\ mdir' = [mdir EXCEPT ![t] = FALSE]
            /\ NextMask(d, "unrDrop")
            /\ UNCHANGED <<alive, plan, lock, starter>>
       ELSE UnregisterFails(d) /\ UNCHANGED <<obj, mdir>>
  /\ UNCHANGED marker

Unregistered(d) ==
  /\ pc[d] = "unrDrop" /\ cur[d] > NTarget
  /\ Gone(d)
  /\ UNCHANGED <<obj, mdir, marker, starter>>

\* The stop command of the client, after the daemon is gone: it unregisters the
\* session once more, from the policy file the session left.  Which masks that
\* file has is not kept here; where there is a marker there is one.
ClientCleans(d) ==
  /\ pc[d] = "idle" /\ starter = Nobody /\ lock = Nobody
  /\ starter' = d /\ lock' = d
  /\ \E left \in [Target -> {Missing, NoInode}] :
       /\ \A t \in Target : marker[t][d] # NoMarker => left[t] = Missing
       /\ plan' = [plan EXCEPT ![d] = left]
  /\ Begin(d, "unrDrop")
  /\ UNCHANGED <<obj, mdir, marker, alive>>

----------------------------------------------------------------------------
(* Crashes *)

\* SIGKILL of the daemon.  A helper it started has inherited the lock's file
\* description and runs to its end; bubblewrap has not, and dies.
DaemonKilled(d) ==
  /\ alive[d]
  /\ IF pc[d] \in Helping
     THEN alive' = [alive EXCEPT ![d] = FALSE] /\ UNCHANGED <<pc, cur, plan, lock>>
     ELSE Gone(d)
  /\ UNCHANGED <<obj, mdir, marker, starter>>

\* The helper dies between two steps; while it inspects a target it may have
\* unlinked the markers of dead daemons and nothing else.
HelperKilled(d) ==
  /\ HelperKills /\ pc[d] \in Helping
  /\ \/ pc[d] \in Resolving /\ ResolveFails(d)
     \/ pc[d] \in Registering /\ RegisterFails(d)
     \/ pc[d] \in Unregistering /\ UnregisterFails(d)
  /\ \/ UNCHANGED marker
     \/ /\ pc[d] \in {"resInspect", "register"} /\ cur[d] <= NTarget
        /\ plan[d][cur[d]] = Missing
        /\ marker' = Swept(cur[d])
  /\ UNCHANGED <<obj, mdir>>

----------------------------------------------------------------------------
(* The user, or any host program, at work in the workspace *)

UserWorks(t, o) ==
  /\ obj' = [obj EXCEPT ![t] = o]
  /\ UNCHANGED <<mdir, marker, alive, pc, cur, plan, lock, starter>>

UserCreates(t) ==
  /\ ~Exists(t)
  /\ \E i \in Ino, k \in {"dir"} \union UserKinds :
       FreshIno(i) /\ UserWorks(t, Made(k, i, "user"))

UserDeletes(t) ==
  /\ Exists(t)
  /\ UserWorks(t, Absent)

\* The user puts something into the directory, or takes everything out again.
UserFills(t) ==
  /\ Bare(t)
  /\ UserWorks(t, [kind |-> "dir", ino |-> obj[t].ino, empty |-> FALSE,
       origin |-> IF obj[t].origin = "lab" THEN "adopted" ELSE obj[t].origin])

UserEmpties(t) ==
  /\ obj[t].kind = "dir" /\ ~obj[t].empty
  /\ UserWorks(t, Made("dir", obj[t].ino, obj[t].origin))

----------------------------------------------------------------------------

ClientStep(d) == ClientEnters(d) \/ StartDaemon(d) \/ ClientCleans(d)
TakeLock(d) == ResolveLock(d) \/ StartLock(d) \/ StopLock(d)
HelperStep(d) ==
  \/ ResolveInspect(d) \/ ResolveClassify(d) \/ Resolved(d)
  \/ RegisterExisting(d) \/ RegisterInspect(d) \/ RegisterReserve(d)
  \/ RegisterMkdir(d) \/ RegisterFinal(d) \/ Registered(d)
  \/ UnregisterDrop(d) \/ UnregisterScan(d) \/ UnregisterRemove(d)
  \/ Unregistered(d)
LaunchStep(d) == LaunchSucceeds(d) \/ LaunchFails(d)
UserStep(t) == UserCreates(t) \/ UserDeletes(t) \/ UserFills(t) \/ UserEmpties(t)

Next ==
  \/ \E d \in Daemon : \/ ClientStep(d) \/ ClientLeaves(d)
                       \/ TakeLock(d) \/ HelperStep(d) \/ LaunchStep(d) \/ Stop(d)
                       \/ DaemonKilled(d) \/ HelperKilled(d)
  \/ \E t \in Target : UserStep(t)

(* A helper that runs finishes, and the daemon waits at most ten seconds for *)
(* its bootstrap; nothing obliges a client to leave or a session to stop.    *)
(* Linux wakes the waiters of a flock when it is released: a process that    *)
(* waits for it again and again gets it.                                     *)
Fairness ==
  \A d \in Daemon :
    WF_vars(HelperStep(d)) /\ WF_vars(LaunchStep(d)) /\ SF_vars(TakeLock(d))

Spec == Init /\ [][Next]_vars
FairSpec == Spec /\ Fairness

----------------------------------------------------------------------------
(* Properties *)

\* Every variable has its type; obj, marker and plan hold the identities that
\* lstat returned.
DataOK ==
  /\ obj \in [Target -> Object]
  /\ mdir \in [Target -> BOOLEAN]
  /\ marker \in [Target -> [Daemon -> Marker]]
ControlOK ==
  /\ alive \in [Daemon -> BOOLEAN]
  /\ pc \in [Daemon -> PC]
  /\ cur \in [Daemon -> 1 .. NTarget + 1]
  /\ plan \in [Daemon -> [Target -> Ino \union {Missing, NoInode}]]
  /\ lock \in Daemon \union {Nobody}
  /\ starter \in Daemon \union {Nobody}
TypeOK == DataOK /\ ControlOK

\* The session's sandbox has, or is about to have, its mask on the placeholder
\* at t: from the final marker to the start of its own removal of t.
Holding(d, t) ==
  /\ alive[d] /\ plan[d][t] = Missing
  /\ \/ pc[d] \in {"launch", "up", "stopping"}
     \/ pc[d] \in Registering /\ t < cur[d]

\* Reference counting: no session's resolution, failed start or stop removes a
\* placeholder under the mask of another live session, whatever the user and
\* the crashes of other sessions did to the directory and its markers.
LabRemoves(t) == Exists(t) /\ obj'[t].kind = "absent" /\ pc' # pc
OnlyUnheldRemoved ==
  \A t \in Target : LabRemoves(t) => \A d \in Daemon : ~Holding(d, t)
HeldPlaceholderKept == [][OnlyUnheldRemoved]_vars

\* Crash recovery: whenever the policy lock is free, a placeholder that the user
\* never touched has a marker through which it will be found, although daemons
\* are killed at any point of registration and removal.
PlaceholderTracked ==
  lock = Nobody =>
    \A t \in Target : obj[t].kind = "dir" /\ obj[t].origin = "lab" => Marked(t) # {}

\* A placeholder is never made before its marker: when a daemon and then its
\* helper are killed while the helper makes one, it can still be found.
MakerLeavesMarker ==
  \A d \in Daemon :
    LET t == cur[d] IN
      /\ pc[d] \in {"regMkdir", "regFinal"} /\ lock' = Nobody
      /\ obj'[t].kind = "dir" /\ obj'[t].origin = "lab"
      => \E e \in Daemon : marker'[t][e] # NoMarker
CrashLeavesMarker == [][MakerLeavesMarker]_vars

\* A resolution never takes NativeLab's own placeholder for the user's metadata:
\* what it classifies after the registry was inspected is the user's or absent.
PlaceholderNotMistaken ==
  \A d \in Daemon :
    pc[d] = "resClassify" => ~(obj[cur[d]].kind = "dir" /\ obj[cur[d]].origin = "lab")

\* No session keeps the global policy lock for ever.
LockReleased == \A d \in Daemon : lock = d ~> lock # d

\* A stopped daemon, even if its removal fails or it is killed, ends.
StopEnds == \A d \in Daemon : pc[d] = "stopping" ~> pc[d] = "idle"
============================================================================
