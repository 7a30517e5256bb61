---------------------- MODULE SessionLifecycle_proofs -----------------------
(* One session, for any number of clients and daemons: what clients are     *)
(* told is true, provided no client is killed before the daemon it started  *)
(* has written who it is, and none gives up waiting for one that has not.   *)
EXTENDS SessionLifecycle, FiniteSetTheorems, TLAPS

\* A daemon that runs is that of the control directory, and the files name it as
\* soon as it has written them; so there is no second one.
LiveInv ==
  \A d \in Live :
    /\ control = d /\ policy
    /\ pidFile = IF dpc[d] \in {"verify", "pid"} THEN None ELSE d
    /\ info = IF dpc[d] \in {"verify", "pid", "info"} THEN None ELSE d

\* Except while its client waits for it, a daemon that runs can be verified; and
\* whoever removes the state, or reports the end, knows that none runs.
Settled == Live = {} \/ HolderMatches
PhaseInv ==
  /\ wlock = None => Settled
  /\ \A c \in Client :
       /\ cpc[c] \in {"resolve", "run", "ensure", "terminate", "grace", "joined", "stop"} => Settled
       /\ cpc[c] \in {"start", "cleanup", "unregister", "stopped", "allstopped"} => Live = {}
       /\ cpc[c] = "stopped" => NoState /\ sock = None
       /\ cpc[c] = "allstopped" => info = None

\* A sandbox has the control directory of its own daemon bound into it.  It may
\* outlive the daemon, but while the directory is there the files still name it.
SandInv ==
  \A d \in Daemon :
    /\ dpc[d] \in Untrapped \union {"unused", "register", "launch"} => sand[d] = "none"
    /\ bound[d] = IF sand[d] = "none" THEN None ELSE d
    /\ sand[d] # "none" /\ control = d => policy /\ pidFile = d /\ info = d
    /\ dpc[d] = "up" => sand[d] \notin {"none", "booting"}

\* An acknowledgement, or a socket, that is found was left by the sandbox of the
\* present control directory.
MarkInv ==
  /\ {ready, sock} \subseteq {None, control}
  /\ ready # None => sand[ready] \notin {"none", "booting"}
  /\ sock # None => sand[sock] # "none"

SafeInv == LiveInv /\ PhaseInv /\ SandInv /\ MarkInv
IInv == TypeOK /\ SafeInv

----------------------------------------------------------------------------
(* Types, whatever clients and daemons are killed and however slow they are *)

LEMMA ClientTypes ==
  ASSUME TypeOK, NEW c \in Client, Enter(c) \/ ClientStep(c) \/ ClientKilled(c)
  PROVE  TypeOK'
<1> USE NamesAssumption DEF TypeOK, files, daemons, clients
<1>1. CASE \/ Enter(c) \/ Resolve(c) \/ EnsureFirst(c) \/ Ensure(c) \/ WaitReady(c)
           \/ WaitTimesOut(c) \/ Joined(c) \/ Stop(c) \/ ListSessions(c) \/ Stopped(c)
  BY <1>1 DEF Enter, Resolve, EnsureFirst, Ensure, Join, WaitReady, WaitTimesOut, Joined, Stop,
              ListSessions, Stopped, Leave, Goes
<1>2. CASE TermSent(c)
  <2>1. cpc[c] = "terminate" /\ UNCHANGED <<files, dpc, sand, bound, plock>>
    BY <1>2 DEF TermSent
  <2>2. \/ Goes(c, "grace") /\ UNCHANGED <<after, wlock>>
        \/ Leave(c)
        \/ Goes(c, after[c]) /\ after[c] # "fail" /\ UNCHANGED <<after, wlock>>
    BY <1>2 DEF TermSent, GoesOn
  <2>3. term' = [term EXCEPT ![pidFile] = TRUE] \/ term' = term
    BY <1>2 DEF TermSent
  <2>4. term' \in [Daemon -> BOOLEAN]
    BY <2>3
  <2> QED BY <2>1, <2>2, <2>4 DEF Goes, Leave
<1>3. CASE HolderGone(c)
  BY <1>3 DEF HolderGone, GoesOn, Leave, Goes
<1>4. CASE KillHolder(c)
  BY <1>4 DEF KillHolder, HolderMatches, Live, Dead
<1>5. CASE StartSession(c)
  <2>1. PICK d \in Daemon : dpc' = [dpc EXCEPT ![d] = "verify"] /\ control' = d
    BY <1>5 DEF StartSession
  <2>2. policy' \in BOOLEAN /\ release' \in BOOLEAN
    BY <1>5 DEF StartSession
  <2>3. cpc[c] # "idle" /\ Goes(c, "wait")
        /\ pidFile' = None /\ info' = None /\ ready' = None /\ sock' = None
        /\ UNCHANGED <<after, wlock, term, sand, bound, plock>>
    BY <1>5 DEF StartSession
  <2>4. dpc' \in [Daemon -> Untrapped \union Trapped \union Ending \union {"unused", "dead"}]
    BY <2>1 DEF Untrapped
  <2> QED BY <2>1, <2>2, <2>3, <2>4 DEF Goes
<1>6. CASE Cleanup(c) \/ StopCleans(c) \/ ClientKilled(c)
  <2>1. {policy', release'} \subseteq BOOLEAN
    BY <1>6 DEF Cleanup, StopCleans, ClientKilled, CleanupStaleState
  <2>2. {pidFile', info', ready', sock', control'} \subseteq Daemon \union {None}
    BY <1>6 DEF Cleanup, StopCleans, ClientKilled, CleanupStaleState
  <2>3. cpc[c] # "idle" /\ UNCHANGED daemons
        /\ (Leave(c) \/ (Goes(c, "stopped") /\ UNCHANGED <<after, wlock>>))
    BY <1>6 DEF Cleanup, StopCleans, ClientKilled
  <2> QED BY <2>1, <2>2, <2>3 DEF Leave, Goes
<1> QED BY <1>1, <1>2, <1>3, <1>4, <1>5, <1>6 DEF ClientStep

LEMMA DaemonTypes ==
  ASSUME TypeOK, NEW d \in Daemon,
         DaemonStep(d) \/ TermTaken(d) \/ GroupSignalled(d) \/ DaemonKilled(d)
  PROVE  TypeOK'
<1> USE NamesAssumption DEF TypeOK, files, clients, Untrapped, Trapped, Ending
<1>1. CASE Verify(d) \/ WritePid(d) \/ WriteInfo(d) \/ TakePolicyLock(d) \/ Register(d)
  BY <1>1 DEF Verify, WritePid, WriteInfo, TakePolicyLock, Register, Go
<1>2. CASE Plan(d)
  <2>1. release' \in BOOLEAN /\ ready' \in Daemon \union {None}
    BY <1>2 DEF Plan
  <2>2. \E label \in {"lock", "dead"} : Go(d, label)
    BY <1>2 DEF Plan
  <2>3. UNCHANGED <<clients, control, policy, pidFile, info, sock, term, sand, bound>>
    BY <1>2 DEF Plan
  <2> QED BY <2>1, <2>2, <2>3 DEF Go
<1>3. CASE Acknowledged(d)
  <2>1. release' \in BOOLEAN
    BY <1>3 DEF Acknowledged
  <2>2. plock' = None /\ dpc' = [dpc EXCEPT ![d] = "up"]
        /\ UNCHANGED <<clients, control, policy, pidFile, info, ready, sock, term, sand, bound>>
    BY <1>3 DEF Acknowledged
  <2> QED BY <2>1, <2>2
<1>4. CASE Unregister(d)
  <2>1. release' \in BOOLEAN /\ ready' = None
    BY <1>4 DEF Unregister
  <2>2. Dead(d) /\ UNCHANGED <<clients, control, policy, pidFile, info, sock, term, sand, bound>>
    BY <1>4 DEF Unregister
  <2> QED BY <2>1, <2>2 DEF Dead
<1>5. CASE Launch(d) \/ GivesUp(d) \/ Shutdown(d)
  BY <1>5 DEF Launch, GivesUp, Shutdown, Go, Sandboxed
<1>6. CASE TermTaken(d) \/ DaemonKilled(d)
  BY <1>6 DEF TermTaken, DaemonKilled, Go, Dead
<1>7. CASE GroupSignalled(d)
  <2>1. term' \in [Daemon -> BOOLEAN]
    BY <1>7 DEF GroupSignalled
  <2> QED BY <1>7, <2>1 DEF GroupSignalled
<1> QED BY <1>1, <1>2, <1>3, <1>4, <1>5, <1>6, <1>7 DEF DaemonStep

LEMMA SandboxTypes ==
  ASSUME TypeOK, NEW d \in Daemon, SandboxStep(d) \/ SandboxEnds(d)
  PROVE  TypeOK'
<1>1. {policy', release'} \subseteq BOOLEAN
  BY DEF TypeOK, SandboxStep, Acknowledge, Released, Listen, SandboxEnds
<1>2. \E label \in Sandboxed \union {"gone"} : Sand(d, label)
  BY DEF SandboxStep, Acknowledge, Released, Listen, SandboxEnds, Sandboxed
<1>3. {pidFile', info', ready', sock', control'} \subseteq Daemon \union {None}
  BY DEF TypeOK, SandboxStep, Acknowledge, Released, Listen, SandboxEnds
<1>4. UNCHANGED <<clients, dpc, term, bound, plock>>
  BY DEF SandboxStep, Acknowledge, Released, Listen, SandboxEnds
<1> QED BY <1>1, <1>2, <1>3, <1>4 DEF TypeOK, Sand, clients

LEMMA TypeInit == Init => TypeOK
<1> SUFFICES ASSUME Init PROVE TypeOK
  OBVIOUS
<1>1. {policy, release} \subseteq BOOLEAN /\ term \in [Daemon -> BOOLEAN]
  BY DEF Init
<1> QED BY <1>1, NamesAssumption DEF Init, TypeOK

LEMMA TypeStep == TypeOK /\ [Next]_vars => TypeOK'
<1> SUFFICES ASSUME TypeOK, [Next]_vars PROVE TypeOK'
  OBVIOUS
<1>1. CASE OtherLocks \/ OtherUnlocks
  BY <1>1 DEF OtherLocks, OtherUnlocks, TypeOK, files, clients
<1>2. CASE UNCHANGED vars
  BY <1>2 DEF vars, files, daemons, clients, TypeOK
<1> QED BY <1>1, <1>2, ClientTypes, DaemonTypes, SandboxTypes DEF Next

\* Every variable has its type, and the workspace lock its holder.
THEOREM TypeCorrect == Spec => []TypeOK
BY TypeInit, TypeStep, PTL DEF Spec

----------------------------------------------------------------------------
(* The invariant, under the two assumptions *)

\* A client that only moves on does not disturb what the files and the daemons say.
LEMMA OnlyMoves ==
  ASSUME IInv, UNCHANGED <<files, daemons>>
  PROVE  /\ LiveInv' /\ SandInv' /\ MarkInv'
         /\ Live' = Live /\ (Settled' <=> Settled) /\ (NoState' <=> NoState)
BY DEF IInv, SafeInv, LiveInv, SandInv, MarkInv, Settled, NoState, HolderMatches, Live, files,
       daemons

\* A session that answers is the holder's, so that none answers whose daemon is
\* neither dead nor to be verified.
LEMMA AliveSettled ==
  ASSUME IInv, SessionAlive
  PROVE  Settled /\ sock = control /\ pidFile = sock /\ info = sock
<1>1. sock \in Daemon /\ sock = control /\ sand[sock] # "none"
  BY DEF IInv, TypeOK, SafeInv, MarkInv, SessionAlive
<1>2. policy /\ pidFile = sock /\ info = sock
  BY <1>1 DEF IInv, SafeInv, SandInv
<1>3. \A d \in Live : d = sock
  BY <1>1 DEF IInv, SafeInv, LiveInv
<1> QED BY <1>1, <1>2, <1>3, NamesAssumption DEF Settled, HolderMatches

\* Where a client goes, it knows what it has to know there.
LEMMA MoveStep ==
  ASSUME IInv, ~SlowStart, NEW c \in Client,
         \/ Enter(c) \/ Resolve(c) \/ EnsureFirst(c) \/ Ensure(c) \/ HolderGone(c)
         \/ WaitReady(c) \/ WaitTimesOut(c) \/ Joined(c) \/ Stop(c) \/ ListSessions(c)
         \/ Stopped(c)
  PROVE  SafeInv'
<1>1. UNCHANGED <<files, daemons>>
  BY DEF Enter, Resolve, EnsureFirst, Ensure, HolderGone, WaitReady, WaitTimesOut, Joined,
         Stop, ListSessions, Stopped
<1>2. LiveInv' /\ SandInv' /\ MarkInv'
      /\ Live' = Live /\ (Settled' <=> Settled) /\ (NoState' <=> NoState)
  BY <1>1, OnlyMoves
<1>3. sock' = sock /\ info' = info
  BY <1>1 DEF files
<1> USE DEF IInv, TypeOK, SafeInv, PhaseInv, Leave, Goes
<1>4. CASE Enter(c) \/ Resolve(c) \/ Joined(c) \/ Stopped(c)
  BY <1>2, <1>3, <1>4, NamesAssumption DEF Enter, Resolve, Joined, Stopped, Settled
<1>5. CASE EnsureFirst(c) \/ Ensure(c)
  BY <1>2, <1>3, <1>5, NamesAssumption DEF EnsureFirst, Ensure, Join, Settled
<1>6. CASE HolderGone(c)
  BY <1>2, <1>3, <1>6, NamesAssumption DEF HolderGone, GoesOn, Settled
<1>7. CASE WaitReady(c)
  <2>1. Settled
    BY <1>7, AliveSettled DEF WaitReady
  <2> QED BY <1>2, <1>3, <1>7, <2>1, NamesAssumption DEF WaitReady
<1>8. CASE WaitTimesOut(c)
  BY <1>2, <1>3, <1>8, NamesAssumption DEF WaitTimesOut, Settled
<1>9. CASE Stop(c)
  <2>1. NoState => sock = None /\ Live = {}
    BY NamesAssumption DEF NoState, MarkInv, LiveInv
  <2> QED BY <1>2, <1>3, <1>9, <2>1, NamesAssumption DEF Stop, Settled
<1>10. CASE ListSessions(c)
  <2>1. Settled /\ info = None => Live = {}
    BY NamesAssumption DEF Settled, HolderMatches
  <2> QED BY <1>2, <1>3, <1>10, <2>1, NamesAssumption DEF ListSessions
<1> QED BY <1>4, <1>5, <1>6, <1>7, <1>8, <1>9, <1>10

\* A client signals the holder, or kills it.
LEMMA SignalStep ==
  ASSUME IInv, NEW c \in Client, TermSent(c) \/ KillHolder(c)
  PROVE  SafeInv'
<1> USE NamesAssumption DEF IInv, TypeOK, SafeInv, files
<1>1. CASE TermSent(c)
  <2>1. /\ cpc[c] = "terminate" /\ Settled
        /\ UNCHANGED <<files, dpc, sand, bound, plock>>
    BY <1>1 DEF TermSent, PhaseInv
  <2>2. LiveInv' /\ SandInv' /\ MarkInv' /\ Live' = Live /\ (Settled' <=> Settled)
    BY <2>1 DEF LiveInv, SandInv, MarkInv, Settled, HolderMatches, Live
  <2>3. PhaseInv'
    BY <1>1, <2>1, <2>2 DEF TermSent, PhaseInv, Settled, GoesOn, Leave, Goes, NoState
  <2> QED BY <2>2, <2>3
<1>2. CASE KillHolder(c)
  <2>1. pidFile \in Live /\ Dead(pidFile) /\ UNCHANGED <<clients, files, term, sand, bound>>
    BY <1>2 DEF KillHolder, HolderMatches
  <2>2. Live' = {}
    BY <2>1 DEF Live, Dead, LiveInv, Untrapped, Trapped, Ending
  <2>3. LiveInv' /\ MarkInv' /\ PhaseInv'
    BY <2>1, <2>2 DEF LiveInv, MarkInv, PhaseInv, Settled, NoState, clients
  <2>4. SandInv'
    BY <2>1 DEF SandInv, Dead, Untrapped
  <2> QED BY <2>3, <2>4
<1> QED BY <1>1, <1>2

\* No daemon runs when the state of a session is removed, so that nobody is misled;
\* a client that is killed has left behind a daemon that can be verified.
LEMMA RemovalStep ==
  ASSUME IInv, ~KillsUnseen, NEW c \in Client, Cleanup(c) \/ StopCleans(c) \/ ClientKilled(c)
  PROVE  SafeInv'
<1> USE NamesAssumption DEF IInv, TypeOK, SafeInv
<1> DEFINE Removes == Live = {} /\ control' = None /\ ready' = None /\ sock' = None
<1>1. CASE Leave(c) /\ Settled /\ UNCHANGED <<files, daemons>>
  <2>1. PhaseInv'
    BY <1>1, OnlyMoves DEF PhaseInv, Leave, Goes, files
  <2> QED BY <1>1, <2>1, OnlyMoves
<1>2. CASE Removes
  <2>1. Live = {} /\ UNCHANGED daemons
    BY <1>2 DEF Cleanup, StopCleans, ClientKilled
  <2>2. Live' = {}
    BY <2>1 DEF Live, daemons
  <2>3. control' = None /\ ready' = None /\ sock' = None
    BY <1>2 DEF Cleanup, StopCleans, ClientKilled, CleanupStaleState
  <2>4. LiveInv' /\ SandInv' /\ MarkInv'
    BY <2>1, <2>2, <2>3 DEF LiveInv, SandInv, MarkInv, daemons
  <2>5. PhaseInv'
    BY <1>2, <2>2, <2>3 DEF Cleanup, StopCleans, ClientKilled, CleanupStaleState, PhaseInv,
                            Settled, NoState, Leave, Goes
  <2> QED BY <2>4, <2>5
<1>3. \/ Leave(c) /\ Settled /\ UNCHANGED <<files, daemons>>
      \/ Removes
  BY DEF Cleanup, StopCleans, ClientKilled, PhaseInv, Settled, CleanupStaleState
<1> QED BY <1>1, <1>2, <1>3

\* A session is started on a clean slate: no other daemon runs, and no file is left.
LEMMA StartStep ==
  ASSUME IInv, NEW c \in Client, StartSession(c)
  PROVE  SafeInv'
<1> USE NamesAssumption DEF IInv, TypeOK, SafeInv
<1>1. PICK d \in Daemon :
        dpc[d] = "unused" /\ dpc' = [dpc EXCEPT ![d] = "verify"] /\ control' = d
  BY DEF StartSession
<1>2. /\ cpc[c] = "start" /\ Goes(c, "wait") /\ Live = {}
      /\ policy' /\ pidFile' = None /\ info' = None /\ ready' = None /\ sock' = None
      /\ UNCHANGED <<wlock, sand, bound>>
  BY DEF StartSession, PhaseInv
<1>3. Live' = {d}
  BY <1>1, <1>2 DEF Live, Untrapped
<1>4. LiveInv' /\ MarkInv'
  BY <1>1, <1>2, <1>3 DEF LiveInv, MarkInv
<1>5. PhaseInv'
  BY <1>2 DEF PhaseInv, Goes
<1>6. SandInv'
  BY <1>1, <1>2 DEF SandInv, Untrapped
<1> QED BY <1>4, <1>5, <1>6

\* The end of a daemon leaves the files alone, and nothing that was known is lost.
LEMMA DeathStep ==
  ASSUME IInv, NEW d \in Live, dpc' = [dpc EXCEPT ![d] = "dead"],
         UNCHANGED <<clients, control, policy, pidFile, info, sock, sand, bound>>,
         ready' \in {None, ready}
  PROVE  SafeInv'
<1> USE DEF IInv, TypeOK, SafeInv
<1>1. Live' = {}
  BY DEF Live, LiveInv, Untrapped, Trapped, Ending
<1>2. LiveInv' /\ MarkInv' /\ SandInv'
  BY <1>1 DEF LiveInv, MarkInv, SandInv, Untrapped
<1>3. PhaseInv'
  BY <1>1 DEF PhaseInv, Settled, NoState, clients
<1> QED BY <1>2, <1>3

\* A daemon that starts writes what its clients verify it by.
LEMMA WriteStep ==
  ASSUME IInv, NEW d \in Daemon, WritePid(d) \/ WriteInfo(d)
  PROVE  SafeInv'
<1> USE NamesAssumption DEF IInv, TypeOK, SafeInv, Untrapped, Trapped, Ending
<1>1. /\ d \in Live /\ sand[d] = "none" /\ control = d /\ ~Settled
      /\ UNCHANGED <<clients, control, policy, ready, release, sock, term, sand, bound>>
  BY DEF WritePid, WriteInfo, Live, SandInv, LiveInv, Settled, HolderMatches
<1>2. LiveInv' /\ Live' = Live
  BY <1>1 DEF WritePid, WriteInfo, Go, LiveInv, Live
<1>3. SandInv' /\ MarkInv'
  BY <1>1 DEF WritePid, WriteInfo, Go, SandInv, MarkInv
<1>4. PhaseInv'
  BY <1>1 DEF PhaseInv, clients
<1> QED BY <1>2, <1>3, <1>4

\* A daemon that goes on has written the files by then, or is about to.
LEMMA DaemonGoesOn ==
  ASSUME IInv, NEW d \in Live, NEW label, dpc' = [dpc EXCEPT ![d] = label],
         \/ dpc[d] = "verify" /\ label = "pid"
         \/ /\ dpc[d] \notin {"verify", "pid", "info"}
            /\ label \in {"lock"} \union Trapped \union Ending,
         UNCHANGED <<clients, control, policy, pidFile, info, sock>>
  PROVE  LiveInv' /\ PhaseInv'
<1> USE DEF IInv, TypeOK, SafeInv, Untrapped, Trapped, Ending
<1>1. Live' = Live
  BY DEF Live
<1>2. LiveInv'
  BY <1>1 DEF LiveInv, Live
<1>3. PhaseInv'
  BY <1>1 DEF PhaseInv, Settled, HolderMatches, NoState, clients
<1> QED BY <1>2, <1>3

LEMMA DaemonStepSafe ==
  ASSUME IInv, NEW d \in Daemon,
         DaemonStep(d) \/ TermTaken(d) \/ GroupSignalled(d) \/ DaemonKilled(d)
  PROVE  SafeInv'
<1> USE NamesAssumption DEF IInv, TypeOK, SafeInv, Untrapped, Trapped, Ending
<1>1. CASE Verify(d) \/ Plan(d) \/ TakePolicyLock(d) \/ Register(d)
  <2>1. d \in Live /\ sand[d] = "none"
        /\ UNCHANGED <<clients, control, policy, pidFile, info, sock, sand, bound>>
        /\ ready' \in {None, ready}
    BY <1>1 DEF Verify, Plan, TakePolicyLock, Register, Live, SandInv, files
  <2>2. CASE dpc' = [dpc EXCEPT ![d] = "dead"]
    BY <2>1, <2>2, DeathStep
  <2>3. CASE dpc' # [dpc EXCEPT ![d] = "dead"]
    <3>1. \E label \in {"pid", "lock", "register", "launch", "shutdown"} :
            /\ dpc' = [dpc EXCEPT ![d] = label]
            /\ \/ dpc[d] = "verify" /\ label = "pid"
               \/ dpc[d] \notin {"verify", "pid", "info"} /\ label # "pid"
      BY <1>1, <2>3 DEF Verify, Plan, TakePolicyLock, Register, Go
    <3>2. LiveInv' /\ PhaseInv'
      BY <2>1, <3>1, DaemonGoesOn
    <3>3. SandInv' /\ MarkInv'
      BY <2>1, <3>1 DEF SandInv, MarkInv
    <3> QED BY <3>2, <3>3
  <2> QED BY <2>2, <2>3
<1>2. CASE WritePid(d) \/ WriteInfo(d)
  BY <1>2, WriteStep
<1>3. CASE Launch(d)
  <2>1. d \in Live /\ control = d /\ policy /\ pidFile = d /\ info = d /\ sand[d] = "none"
    BY <1>3 DEF Launch, Live, LiveInv, SandInv
  <2>2. LiveInv' /\ PhaseInv'
    BY <1>3, <2>1, DaemonGoesOn DEF Launch, Go, files
  <2>3. SandInv' /\ MarkInv'
    BY <1>3, <2>1 DEF Launch, Go, SandInv, MarkInv, files
  <2> QED BY <2>2, <2>3
<1>4. CASE Acknowledged(d)
  <2>1. d \in Live /\ control = d /\ ready = d /\ sand[d] \notin {"none", "booting"}
    BY <1>4 DEF Acknowledged, Live, LiveInv, MarkInv
  <2>2. LiveInv' /\ PhaseInv'
    BY <1>4, <2>1, DaemonGoesOn DEF Acknowledged
  <2>3. SandInv' /\ MarkInv'
    BY <1>4, <2>1 DEF Acknowledged, SandInv, MarkInv
  <2> QED BY <2>2, <2>3
<1>5. CASE GivesUp(d) \/ Shutdown(d)
  <2>1. d \in Live
    BY <1>5 DEF GivesUp, Shutdown, Live
  <2>2. LiveInv' /\ PhaseInv'
    BY <1>5, <2>1, DaemonGoesOn DEF GivesUp, Shutdown, Go, files
  <2>3. SandInv' /\ MarkInv'
    BY <1>5 DEF GivesUp, Shutdown, Go, SandInv, MarkInv, Sandboxed, files
  <2> QED BY <2>2, <2>3
<1>6. CASE Unregister(d)
  BY <1>6, DeathStep DEF Unregister, Dead, Live
<1>7. CASE TermTaken(d) \/ DaemonKilled(d)
  <2>1. d \in Live /\ UNCHANGED <<clients, files, term, sand, bound>>
    BY <1>7 DEF TermTaken, DaemonKilled, Live
  <2>2. CASE Dead(d)
    BY <2>1, <2>2, DeathStep DEF Dead, files
  <2>3. CASE ~Dead(d)
    <3>1. dpc[d] \in Trapped /\ dpc' = [dpc EXCEPT ![d] = "shutdown"]
      BY <1>7, <2>3 DEF TermTaken, DaemonKilled, Go
    <3>2. LiveInv' /\ PhaseInv'
      BY <2>1, <3>1, DaemonGoesOn DEF files
    <3>3. SandInv' /\ MarkInv'
      BY <2>1, <3>1 DEF SandInv, MarkInv, files
    <3> QED BY <3>2, <3>3
  <2> QED BY <2>2, <2>3
<1>8. CASE GroupSignalled(d)
  BY <1>8 DEF GroupSignalled, LiveInv, PhaseInv, SandInv, MarkInv, Settled, HolderMatches,
              NoState, Live, files, clients
<1> QED BY <1>1, <1>2, <1>3, <1>4, <1>5, <1>6, <1>7, <1>8 DEF DaemonStep

\* A sandbox leaves its marks in the control directory of its own daemon only.
LEMMA SandboxStepSafe ==
  ASSUME IInv, NEW d \in Daemon, SandboxStep(d) \/ SandboxEnds(d)
  PROVE  SafeInv'
<1> USE NamesAssumption DEF IInv, TypeOK, SafeInv
<1>1. /\ sand[d] \notin {"none", "gone"} /\ bound[d] = d
      /\ UNCHANGED <<clients, control, policy, pidFile, info, dpc, bound>>
  BY DEF SandboxStep, Acknowledge, Released, Listen, SandboxEnds, SandInv, Sandboxed
<1>2. \E label \in {"acked", "preparing", "serving", "gone"} : Sand(d, label)
  BY DEF SandboxStep, Acknowledge, Released, Listen, SandboxEnds
<1>3. LiveInv' /\ SandInv'
  BY <1>1, <1>2 DEF LiveInv, SandInv, Sand, Live
<1>4. ready' \in {ready, None} \/ (ready' = d /\ control = d)
  BY <1>1 DEF SandboxStep, Acknowledge, Released, Listen, SandboxEnds, Sees
<1>5. sock' \in {sock, None} \/ (sock' = d /\ control = d)
  BY <1>1 DEF SandboxStep, Acknowledge, Released, Listen, SandboxEnds, Sees
<1>6. MarkInv'
  BY <1>1, <1>2, <1>4, <1>5 DEF MarkInv, Sand
<1>7. PhaseInv'
  <2>1. Live' = Live /\ (Settled' <=> Settled) /\ (NoState' <=> NoState)
    BY <1>1 DEF Live, Settled, HolderMatches, NoState
  <2>2. NoState => sock' = None
    BY <1>1, <1>5 DEF NoState, MarkInv
  <2> QED BY <1>1, <2>1, <2>2 DEF PhaseInv, clients
<1> QED BY <1>3, <1>6, <1>7

\* The invariant: at any time at most one daemon runs, and what the files say of it,
\* and of its sandbox, is true.
THEOREM SessionInvariant == ASSUME ~KillsUnseen, ~SlowStart PROVE Spec => []IInv
<1>1. Init => IInv
  <2> SUFFICES ASSUME Init PROVE SafeInv
    BY TypeInit DEF IInv
  <2>1. Live = {}
    BY DEF Init, Live, Untrapped, Trapped, Ending
  <2> QED BY <2>1, NamesAssumption
          DEF Init, SafeInv, LiveInv, PhaseInv, SandInv, MarkInv, Settled
<1>2. IInv /\ [Next]_vars => IInv'
  <2> SUFFICES ASSUME IInv, [Next]_vars PROVE SafeInv'
    BY TypeStep DEF IInv
  <2>1. ASSUME NEW c \in Client, Enter(c) \/ ClientStep(c) \/ ClientKilled(c)
        PROVE  SafeInv'
    BY <2>1, MoveStep, SignalStep, RemovalStep, StartStep DEF ClientStep
  <2>2. CASE OtherLocks \/ OtherUnlocks \/ UNCHANGED vars
    <3>1. UNCHANGED <<files, clients, dpc, term, sand, bound>>
      BY <2>2 DEF OtherLocks, OtherUnlocks, vars, daemons
    <3> QED BY <3>1 DEF IInv, SafeInv, LiveInv, PhaseInv, SandInv, MarkInv, Settled,
                        HolderMatches, NoState, Live, files, clients
  <2> QED BY <2>1, <2>2, DaemonStepSafe, SandboxStepSafe DEF Next
<1> QED BY <1>1, <1>2, PTL DEF Spec

----------------------------------------------------------------------------
(* What follows from it *)

\* There is never a second daemon.
THEOREM NoSecondDaemon == ASSUME ~KillsUnseen, ~SlowStart PROVE Spec => []OneDaemon
<1>1. IInv => OneDaemon
  <2> SUFFICES ASSUME IInv PROVE Cardinality(Live) <= 1
    BY DEF OneDaemon
  <2>1. Live \subseteq {control}
    BY DEF IInv, SafeInv, LiveInv
  <2>2. CASE Live = {}
    BY <2>2, FS_EmptySet
  <2>3. CASE Live = {control}
    BY <2>3, FS_Singleton
  <2> QED BY <2>1, <2>2, <2>3
<1> QED BY <1>1, SessionInvariant, PTL

\* What a stop reports is true: no daemon runs, and no other client is misled.
THEOREM StopIsThorough == ASSUME ~KillsUnseen, ~SlowStart PROVE Spec => []StopLeavesNothing
<1>1. IInv => StopLeavesNothing
  <2> SUFFICES ASSUME IInv, NEW c \in Client
               PROVE  /\ cpc[c] = "stopped" => Live = {} /\ NoState /\ sock = None
                      /\ cpc[c] = "allstopped" => Live = {} /\ ~SessionAlive
    BY DEF StopLeavesNothing
  <2>1. cpc[c] = "allstopped" => ~SessionAlive
    BY AliveSettled, NamesAssumption DEF IInv, TypeOK, SafeInv, PhaseInv, SessionAlive
  <2> QED BY <2>1 DEF IInv, SafeInv, PhaseInv
<1> QED BY <1>1, SessionInvariant, PTL

\* A client joins the sandbox of the daemon that stop will signal.
THEOREM JoinedIsHeld == ASSUME ~KillsUnseen, ~SlowStart PROVE Spec => []RunJoinsHolder
<1>1. IInv => RunJoinsHolder
  BY AliveSettled DEF RunJoinsHolder
<1> QED BY <1>1, SessionInvariant, PTL

\* No daemon takes the acknowledgement of another's sandbox for its own's.
THEOREM AcknowledgedByOwn ==
  ASSUME ~KillsUnseen, ~SlowStart PROVE Spec => []OwnAcknowledgement
<1>1. IInv => OwnAcknowledgement
  BY DEF IInv, SafeInv, SandInv, OwnAcknowledgement
<1> QED BY <1>1, SessionInvariant, PTL

----------------------------------------------------------------------------
(* The session that is on or off *)

Spent == {d \in Daemon : dpc[d] # "unused"}
Told(c) ==
  CASE cpc[c] = "joined" -> "joined" [] cpc[c] = "stopped" -> "gone"
    [] cpc[c] = "allstopped" -> "ended" [] OTHER -> "nothing"
AllTold == [c \in Client |-> Told(c)]

\* What a client that goes to a label has been told; the others are told what they were.
LEMMA TellsOne ==
  ASSUME IInv, NEW c \in Client, NEW label, Goes(c, label)
  PROVE  /\ label = "joined" => AllTold' = [AllTold EXCEPT ![c] = "joined"]
         /\ label = "stopped" => AllTold' = [AllTold EXCEPT ![c] = "gone"]
         /\ label = "allstopped" => AllTold' = [AllTold EXCEPT ![c] = "ended"]
         /\ label \notin {"joined", "stopped", "allstopped"} =>
              AllTold' = [AllTold EXCEPT ![c] = "nothing"]
BY DEF Goes, AllTold, Told, IInv, TypeOK

\* A client alone, that is told nothing, leaves all as it is.
LEMMA TellsNobody ==
  ASSUME IInv, NEW c \in Client, cpc[c] \notin {"joined", "stopped", "allstopped"},
         NEW label, label \notin {"joined", "stopped", "allstopped"}, Goes(c, label)
  PROVE  AllTold' = AllTold
BY DEF Goes, AllTold, Told, IInv, TypeOK

LEMMA SessionMoves ==
  ASSUME IInv, NEW c \in Client, UNCHANGED <<control, daemons>>,
         NEW label, label \notin {"joined", "stopped", "allstopped"}, Goes(c, label)
  PROVE  S!Leave(c)
<1>1. Live' = Live /\ Spent' = Spent
  BY DEF Live, Spent, daemons
<1> QED BY <1>1, TellsOne DEF S!Leave, AllTold, Told, Spent

\* A client joins, or is told that the session is gone.
LEMMA SessionTells ==
  ASSUME IInv, NEW c \in Client, UNCHANGED daemons,
         cpc[c] \notin {"joined", "stopped", "allstopped"},
         \/ Goes(c, "joined") /\ SessionAlive /\ control' = control
         \/ Goes(c, "stopped") /\ Live = {} /\ control' = None
         \/ Goes(c, "allstopped") /\ Live = {} /\ control' = control
  PROVE  S!Join(c) \/ S!Gone(c) \/ S!Ended(c)
<1>1. Live' = Live /\ Spent' = Spent
  BY DEF Live, Spent, daemons
<1>2. AllTold[c] = "nothing"
  BY DEF AllTold, Told
<1>3. SessionAlive => control # None
  BY AliveSettled DEF SessionAlive
<1> QED BY <1>1, <1>2, <1>3, TellsOne
        DEF S!Join, S!Gone, S!Ended, S!Tell, AllTold, Told, Spent

\* Each step of a client is one of the session, or tells it nothing.
LEMMA ClientSession ==
  ASSUME IInv, IInv', NEW c \in Client, Enter(c) \/ ClientStep(c) \/ ClientKilled(c)
  PROVE  \/ S!Join(c) \/ S!Ended(c) \/ S!Gone(c) \/ S!Leave(c)
         \/ S!Forget \/ S!End \/ \E d \in Daemon : S!Start(d)
<1>1. CASE \/ Enter(c) \/ Resolve(c) \/ EnsureFirst(c) \/ Ensure(c) \/ HolderGone(c)
           \/ WaitReady(c) \/ WaitTimesOut(c) \/ Joined(c) \/ Stop(c) \/ ListSessions(c)
           \/ Stopped(c)
  <2>1. UNCHANGED <<control, daemons>>
    BY <1>1 DEF Enter, Resolve, EnsureFirst, Ensure, HolderGone, WaitReady, WaitTimesOut,
                Joined, Stop, ListSessions, Stopped, files
  <2>2. \/ \E label \in {"idle", "resolve", "run", "stop", "ensure", "terminate", "start",
                          "cleanup", "unregister"} : Goes(c, label)
        \/ /\ cpc[c] \in {"run", "ensure", "wait"}
           /\ Goes(c, "joined") /\ SessionAlive
        \/ cpc[c] = "stop" /\ Goes(c, "stopped") /\ Live = {} /\ NoState
        \/ cpc[c] = "resolve" /\ Goes(c, "allstopped") /\ info = None
    <3>1. CASE Enter(c) \/ Resolve(c) \/ HolderGone(c) \/ WaitTimesOut(c) \/ Joined(c) \/ Stopped(c)
      BY <3>1 DEF Enter, Resolve, HolderGone, WaitTimesOut, Joined, Stopped, GoesOn, Leave, IInv,
                  TypeOK
    <3>2. CASE EnsureFirst(c) \/ Ensure(c) \/ WaitReady(c)
      BY <3>2 DEF EnsureFirst, Ensure, WaitReady, Join, Leave
    <3>3. CASE Stop(c)
      BY <3>3, NamesAssumption DEF Stop, Leave, NoState, IInv, SafeInv, LiveInv
    <3>4. CASE ListSessions(c)
      BY <3>4 DEF ListSessions, Leave
    <3> QED BY <1>1, <3>1, <3>2, <3>3, <3>4
  <2>3. cpc[c] = "resolve" /\ info = None => Live = {}
    BY NamesAssumption DEF IInv, SafeInv, PhaseInv, Settled, HolderMatches
  <2> QED BY <2>1, <2>2, <2>3, SessionMoves, SessionTells DEF NoState
<1>2. CASE TermSent(c)
  <2>1. Live' = Live /\ Spent' = Spent /\ control' = control
    BY <1>2 DEF TermSent, Live, Spent, files
  <2>2. \E label \in {"idle", "grace", "start", "cleanup", "unregister"} : Goes(c, label)
    BY <1>2 DEF TermSent, GoesOn, Leave, IInv, TypeOK
  <2> QED BY <2>1, <2>2, TellsOne DEF S!Leave, AllTold, Told, Spent
<1>3. CASE KillHolder(c)
  <2>1. pidFile \in Live /\ Dead(pidFile) /\ UNCHANGED <<clients, files>>
    BY <1>3 DEF KillHolder, HolderMatches
  <2>2. Live' = {} /\ Spent' = Spent
    BY <2>1 DEF Live, Spent, Dead, IInv, TypeOK, SafeInv, LiveInv, Untrapped, Trapped, Ending
  <2>3. AllTold' = AllTold /\ control' = control
    BY <2>1 DEF AllTold, Told, clients, files
  <2> QED BY <2>2, <2>3 DEF S!End, AllTold, Told, Spent
<1>4. CASE StartSession(c)
  <2>1. PICK d \in Daemon :
          dpc[d] = "unused" /\ dpc' = [dpc EXCEPT ![d] = "verify"] /\ control' = d
    BY <1>4 DEF StartSession
  <2>2. cpc[c] = "start" /\ Goes(c, "wait") /\ Live = {}
    BY <1>4 DEF StartSession, IInv, SafeInv, PhaseInv
  <2>3. Live' = {d} /\ Spent' = Spent \union {d} /\ d \notin Spent
    BY <2>1, <2>2 DEF Live, Spent, IInv, TypeOK, Untrapped
  <2>4. AllTold' = AllTold
    BY <2>2, TellsNobody
  <2>5. AllTold = [e \in Client |-> "nothing"]
    BY <2>2 DEF AllTold, Told, IInv, TypeOK
  <2>6. S!Start(d)
    BY <2>1, <2>2, <2>3, <2>4, <2>5 DEF S!Start, S!Quiet, AllTold, Told, Spent
  <2> QED BY <2>6
<1>5. CASE Cleanup(c) \/ StopCleans(c) \/ ClientKilled(c)
  <2>1. UNCHANGED daemons
    BY <1>5 DEF Cleanup, StopCleans, ClientKilled
  <2>2. \/ Leave(c) /\ UNCHANGED <<files, daemons>>
        \/ cpc[c] = "unregister" /\ Goes(c, "stopped") /\ control' = None /\ Live = {}
        \/ /\ cpc[c] \in {"start", "cleanup", "unregister"}
           /\ Leave(c) /\ control' = None /\ Live = {}
    BY <1>5 DEF Cleanup, StopCleans, ClientKilled, CleanupStaleState, IInv, SafeInv, PhaseInv
  <2>3. CASE Leave(c) /\ UNCHANGED <<files, daemons>>
    BY <2>3, SessionMoves DEF Leave, files
  <2>4. CASE cpc[c] = "unregister" /\ Goes(c, "stopped") /\ control' = None /\ Live = {}
    BY <2>1, <2>4, SessionTells
  <2>5. CASE /\ cpc[c] \in {"start", "cleanup", "unregister"}
             /\ Leave(c) /\ control' = None /\ Live = {}
    <3>1. Live' = Live /\ Spent' = Spent
      BY <2>1 DEF Live, Spent, daemons
    <3>2. AllTold' = AllTold
      BY <2>5, TellsNobody DEF Leave
    <3> QED BY <2>5, <3>1, <3>2 DEF S!Forget, AllTold, Told, Spent
  <2> QED BY <2>2, <2>3, <2>4, <2>5
<1> QED BY <1>1, <1>2, <1>3, <1>4, <1>5 DEF ClientStep

\* A daemon goes on or ends.
LEMMA DaemonSession ==
  ASSUME IInv, NEW d \in Daemon,
         \/ DaemonStep(d) \/ TermTaken(d) \/ GroupSignalled(d) \/ DaemonKilled(d)
         \/ SandboxStep(d) \/ SandboxEnds(d)
  PROVE  S!End \/ UNCHANGED S!vars
<1> USE DEF IInv, TypeOK, Untrapped, Trapped, Ending
<1>1. UNCHANGED <<clients, control>>
  BY DEF DaemonStep, Verify, WritePid, WriteInfo, Plan, TakePolicyLock, Register, Launch,
         Acknowledged, GivesUp, Shutdown, Unregister, TermTaken, GroupSignalled, DaemonKilled,
         SandboxStep, Acknowledge, Released, Listen, SandboxEnds, files
<1>2. \/ dpc' = dpc
      \/ d \in Live /\ dpc' = [dpc EXCEPT ![d] = "dead"]
      \/ d \in Live /\ \E label \in Untrapped \union Trapped \union Ending :
                         dpc' = [dpc EXCEPT ![d] = label]
  <2>1. CASE DaemonStep(d)
    BY <2>1 DEF DaemonStep, Verify, WritePid, WriteInfo, Plan, TakePolicyLock, Register, Launch,
                Acknowledged, GivesUp, Shutdown, Unregister, Go, Dead, Live
  <2>2. CASE TermTaken(d) \/ GroupSignalled(d) \/ DaemonKilled(d)
    BY <2>2 DEF TermTaken, GroupSignalled, DaemonKilled, Go, Dead, Live
  <2>3. CASE SandboxStep(d) \/ SandboxEnds(d)
    BY <2>3 DEF SandboxStep, Acknowledge, Released, Listen, SandboxEnds
  <2> QED BY <2>1, <2>2, <2>3
<1>3. Spent' = Spent
  BY <1>2 DEF Spent, Live
<1>4. AllTold' = AllTold
  BY <1>1 DEF AllTold, Told, clients
<1>5. Live' = {} \/ Live' = Live
  BY <1>2 DEF Live, SafeInv, LiveInv
<1> QED BY <1>1, <1>3, <1>4, <1>5 DEF S!End, S!vars, AllTold, Told, Spent

\* The files, processes and locks of a session implement one that is on or off.
THEOREM SessionImplemented == ASSUME ~KillsUnseen, ~SlowStart PROVE Spec => ImplementsSession
<1>1. Init => S!Init
  BY DEF Init, S!Init, S!Quiet, Live, Untrapped, Trapped, Ending
<1>2. IInv /\ IInv' /\ [Next]_vars => [S!Next]_S!vars
  <2> SUFFICES ASSUME IInv, IInv', [Next]_vars PROVE [S!Next]_S!vars
    OBVIOUS
  <2>1. CASE OtherLocks \/ OtherUnlocks \/ UNCHANGED vars
    BY <2>1 DEF OtherLocks, OtherUnlocks, vars, daemons, files, clients, S!vars, Live
  <2>2. ASSUME NEW c \in Client, Enter(c) \/ ClientStep(c) \/ ClientKilled(c)
        PROVE  S!Next
    BY <2>2, ClientSession DEF S!Next
  <2>3. ASSUME NEW d \in Daemon,
               \/ DaemonStep(d) \/ TermTaken(d) \/ GroupSignalled(d) \/ DaemonKilled(d)
               \/ SandboxStep(d) \/ SandboxEnds(d)
        PROVE  S!Next \/ UNCHANGED S!vars
    BY <2>3, DaemonSession DEF S!Next
  <2> QED BY <2>1, <2>2, <2>3 DEF Next
<1> QED BY <1>1, <1>2, SessionInvariant, PTL DEF Spec, ImplementsSession, S!Spec
=============================================================================
