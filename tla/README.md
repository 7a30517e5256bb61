# NativeLab in TLA+

NativeLab runs development commands in a persistent bubblewrap sandbox, one
session per workspace and policy, and gives an MCP server tools to start and
watch processes in it. This directory holds TLA+ models of the parts of it that
are concurrent, crash and recover, or keep bounded state; TLC configurations
that check them on small instances; and TLAPS proofs of what matters most for
instances of any size. `PROJECT.json` maps every definition to the lines of
`src/` it was translated from.

## 1. The system

| part | state it keeps | operations | files |
|---|---|---|---|
| client | a lock per workspace, a lock per session; otherwise none | `run`, `stop`, `stop --all`, `status`, `doctor` | `native-lab` |
| session daemon | `holder.pid`, `session.info`, the policy lock while mounts are set up, the bubblewrap child | start, register, launch, acknowledge, supervise, shut down | `native-labd` |
| sandbox bootstrap | `.mounts-ready`, keys, the socket | acknowledge, wait for release, listen | `native-lab-session` |
| synthetic-mount registry | marker files in the runtime directory, placeholder directories in the workspace | inspect, register, unregister | `native-lab-policy.py` |
| policy compiler | none; a digest and a manifest as output | compile, verify, emit bubblewrap arguments | `native-lab-policy.py` |
| GPU resources | none; device identities in the manifest | resolve, validate, revalidate | `native_lab_gpu.py` |
| output buffer | events, cursor, counts of one process | append, trim, head, tail, expect, wait | `native_lab_mcp/core.py` |
| process registry | handles by id, `_closed` | run, write, kill, close | `native_lab_mcp/core.py` |
| MCP adapter | the registry | forwards tools | `native_lab_mcp/server.py` |

How they interact:

- A client takes the workspace lock, has the policy compiled under the global
  `policy-mount.lock`, and joins the session if `ssh true` answers. Otherwise it
  terminates a holder that does not answer, removes what is left, puts a daemon
  in the background and probes for 15 s. The daemon has no copy of the client's
  locks.
- The daemon writes its identity, takes the policy lock, registers the
  placeholders, launches bubblewrap and waits for `.mounts-ready`; it answers
  with `.mounts-release` and gives the lock back. Its trap terminates the
  sandbox and takes the lock again to unregister.
- Markers are files under a lock; placeholders are directories in a workspace
  where the user works without any lock. A dead daemon's markers are found by
  whoever inspects the target next.
- In the MCP server everything runs on one event loop. Two drain tasks per
  process append to its buffer, a third marks the exit after both, and calls
  sleep on the process's condition with a timeout.

What is hard: processes that die between any two steps of a protocol on files;
locks that some parties do not take; a sandbox that outlives its daemon by a
moment; timeouts that race with what they wait for; a quota that is checked
before an await; buffers that cut within an event. `PROJECT.json` lists the
hazards at the lines where they bite, with the properties about them.

What makes each part correct:

- registry: a placeholder in use stays, an unused one is found and removed, and
  NativeLab never takes its own placeholder for the user's metadata nor the
  user's directory for its own; the policy lock is always given back.
- daemon, client, bootstrap: one daemon per session; `stop` leaves nothing; a
  run joins only what `stop` will find; every client ends.
- output: what is retained is the end of the history, selections and matches
  carry true cursors, no call sleeps through its answer, the exit comes last.
- process registry: the quota, the order of eviction, and a `close` that returns
  with nothing of what it found alive.
- policy compiler: the workspace, and nothing else of the host, can be written;
  all metadata and denied files are masked; leaving out covered mounts shows
  nothing and hides nothing.
- GPU resources: a sandbox has exactly the nodes of the cards it was validated
  for, no command runs in one that has lost its card, and a manifest that one
  stage writes is accepted by all the later ones.

## 2. The modules

### SyntheticMounts (core), PlaceholderIdentity

One workspace, any number of sessions (`Daemon`) and protected names
(`NTarget`). `obj` is what is at each target, with an inode number that is used
again when it is free; `marker[t][d]` is the marker file, `mdir` its directory;
`pc` and `cur` say where the Python helper or the daemon of a session is and at
which mask; `plan` is the resolved policy; `lock` is `policy-mount.lock`;
`starter` is the client that holds the workspace lock.

| actions | code |
|---|---|
| `ClientEnters`, `ResolveLock`, `ResolveInspect`, `ResolveClassify`, `Resolved` | `resolve` and the first loop of `compile_policy` |
| `InspectActive`, `InspectInactive`, `InspectRefuses` | `inspect_synthetic_registry`, shared by resolution and registration |
| `StartDaemon`, `StartLock`, `LaunchSucceeds`, `LaunchFails`, `Stop`, `StopLock` | `native-labd` |
| `RegisterExisting` ... `Registered` | `register_synthetics`, one action per effect on the file system |
| `UnregisterDrop`, `UnregisterScan`, `UnregisterRemove`, `Unregistered` | `unregister_synthetics`, likewise |
| `ClientCleans` | `cleanup_session_synthetics` of `stop` |
| `DaemonKilled`, `HelperKilled` | SIGKILL; a helper holds an inherited lock and runs on |
| `User*` | anyone at work in the workspace |

Between the effects of the helper the user may act. What one helper does between
two of its effects without looking at `obj` is one step; the inspection of one
target is one step as well, so a user who acts within an inspection is seen
before or after it. A marker is active exactly when the daemon that wrote it is
alive: pid and start time are taken to be unique. A dead session's policy file
is not kept: `ClientCleans` chooses the masks it may have had.

`PlaceholderIdentity` adds a history variable for the run `foreign`, and restricts
nothing: `foreign[d][t]` is the directory that stands at `t` when the stop of `d`
takes the policy lock, if `d`'s marker records another identity. The code unlinks
that marker unread, so that SyntheticMounts alone cannot say at the `rmdir`
which directory the session had made. The trace is: a session comes up with its placeholder
(`i1`) and its marker; the user deletes the placeholder and makes a directory of
the same name (`i2`); the stop unlinks the marker and removes `i2`.

### OutputText, OutputBuffer

`OutputText` holds the pure selections: `TakeChars`, `DropChars`, `SelectHead`,
`SelectTail`, `SelectTailLines`, `FindLiteral`. The loops of the code are written as
what they keep. `Picked`, the code's list comprehensions with a condition, is a recursive
function, which the proofs can expand. `OutputBuffer` adds the state of one `ManagedProcess`, the three
tasks of the process and the calls. `written` is the whole history, which the
code forgets, kept for the reference definitions. A read decodes to any member
of `Chunk`, and may leave part of a character in the decoder, which becomes
U+FFFD at the end (`Replacement`). A call is `waiting`, then `notified` or
`expired`, and runs again some steps later: in between, tasks of the event loop
run. Context lines of a match are layout and left out.

### ProcessRegistry

Any set of processes. A process group has two parts that matter: the leader, who
is waited for, and descendants, who hold the same pipes. `run` is two steps
around its await, `close` is several. `Stubborn` says which parts ignore SIGTERM.
Descendants are taken to stay in the group and to keep the pipes until they end.
Keys are taken to be unique; process group numbers are not used again.

### SessionLifecycle

One session directory with its files, the clients that run and stop, the
daemons they start one after the other, and each daemon's sandbox. The control
directory is named after the start it was made for, so that a late sandbox
writes into one that is no longer there. Placeholders are abstracted to
registration and removal that succeed or fail; `Other` stands for the sessions
of other workspaces at the policy lock.

`GroupSignalled` is a `kill` or a shutdown in the MCP
server: the daemon is in the process group of the client that started it, so that killing
the process of that client sends SIGTERM to the daemon as well, at any moment. `ListSessions` is `stop --all`: the policy comes from the session instead of a
resolution, and a session without `session.info` is passed over.

### MountPlan, GpuResources, Launch

MountPlan and GpuResources are definitions: the policy compiler and the emitter
of bubblewrap's arguments, and the resolution and validation of cards. A path is
a sequence of names, a host a tree of directories, files and links. Launch is
the state machine that calls them:

| actions | code |
|---|---|
| `Resolve` | `compile_policy` with `gpu.resolve`, called by the client |
| `Discover`, `Validate` | `revalidate`, at each of its five callers: emitter, daemon before bubblewrap, bootstrap, daemon after the acknowledgement, client before a command |
| `Emit` | `emit_bwrap` |
| `LaunchBubblewrap`, `BindNode` | the start of bubblewrap, which binds one node after the other |
| `EnterBootstrap`, `Acknowledge`, `Release` | `native-lab-session` and the handshake of `native-labd` |
| `Connect`, `RunCommand` | `validate_session_gpu_access` and what follows it in `ensure_session` |
| `Unplug`, `Plug`, `ReloadKfd` | cards and the driver, at any moment after the resolution |

A validation looks at all cards at once and then at one node at a time; the
resolution is one step, as its result is validated again before anything rests
on it. The tree of files does not change within a scene. A render node's device
number goes with its name, so that its inode number is the rest of its identity. `View` says
what bubblewrap's mounts show: at each path the last one that covers it.
A validation that fails for a client that joins turns away the command only;
for the client that started the session it ends the session.

### HandleTable, Session

The abstract specifications. `HandleTable` is what a user of the MCP tools may
rely on of handles: a new one is younger than all before it, a running one stays,
completed ones go in the order they came, there are no more than `Fits` allows.
`ProcessRegistry!Table` is the mapping: handles are running or completed by
their exit code. `Session` is a session that is on or off: a daemon starts alone
and while no client has been told anything, the state is removed only when no
daemon runs, a client joins only what is installed and is told `gone` only of
what is. `SessionLifecycle!S` maps the daemons that run, the start the control
directory belongs to, and the client's last steps before it gives its lock back.

SyntheticMounts and SessionLifecycle share the daemon: the first follows its
placeholders through every step of the helper, the second its identity and its
sandbox. OutputBuffer and ProcessRegistry share a process in the same way: the
moment `MarkExited` is in both, guarded by the ends of the pipes. Launch is the
third view of the daemon, with what SessionLifecycle takes to succeed or fail
(the plan, the validations) spelled out and its signals and timeouts left out.

## 3. What is checked

| run | instance | question |
|---|---|---|
| `track` | 2 sessions, 2 names, 3 inodes | Is a placeholder ever without a marker when the lock is free, or taken for the user's? |
| `hold` | 2 sessions, 1 name, helpers killed too | Does anyone remove a placeholder in use, or make one that could not be found again? Is the lock given back, does a stop end? |
| `foreign` | 2 sessions, 1 name | **violated**: does a stop leave alone a directory that replaced the session's placeholder before? |
| `text` | up to 5 characters, buffer of 3 in 2 events | Are trimming, selections and search right? |
| `calls` | 2 callers, 1 character | Lost wakeups, early exits, stale timeouts; does the exit return every call? |
| `race` | 1 caller | **violated**: does a timed-out `expect` skip nothing? |
| `handles` | 3 processes whose leaders ignore SIGTERM, quota 2, 1 run at a time | Refinement of HandleTable, thoroughness of `close`; does a forced kill complete a handle, does `close` return? |
| `limit` | 3 processes, quota 2, 2 runs at a time | **violated**: is the quota never exceeded? |
| `hang` | 2 processes, descendants ignore SIGTERM | **violated**: does `close` return? |
| `session` | 2 clients, 2 daemons, all of them killed at some point | Refinement of Session, nothing left after `stop` and `stop --all`, joins, acknowledgements; does every client end? |
| `orphan` | the same, clients killed before their daemon is known | **violated**: is there one daemon? |
| `launch` | 1536 configurations over a tree of 33 entries, 480 over runtime directories, 4 with cards that change up to 2 or 4 times | Pruning, masks, write access, runtime links, authorized nodes; does a lost card stop commands, does a quiet host launch, and does nothing but a change of the cards make a launch fail? |

Why the bounds are enough. In `track` the two sessions play every pair of roles
(holder and remover, dead and recovering), two names are needed for a failure at
one mask that skips another, and a third inode lets both targets exist while the
user makes a new one. In `text` five characters overfill a buffer of three by
more than one event, three fit in an event that is cut in the middle, and two
streams interleave. In `calls` two callers are needed to tell waking one from
waking all; one written character is enough to be the awaited one, and
`NoLostWakeup`, `ExitReportedLast` and `WaitTimeoutIsRunning` are proved for
any amount. In `handles` three processes are needed for two completed handles of
which one goes, and of a third that would be one too many; that overlapping runs exceed the quota, which is checked before an
await and the handle inserted after it, is shown by `limit`, by how far they may is proved for any number of them
(`HandlesBounded`, and `Fits` in the table). A new process takes the first free name (`Fresh`), which is
as good as any other. In `session` two daemons are a dying one and its successor: the
clients are serialized by the workspace lock, and a third adds states of the
same kind. In `launch` the tree has what the
compiler's cases are about: projects nested in each other, around the workspace
and in it, metadata that is a directory, a file or absent, denied files at each
level, a link out of a project and one to it, an alias of the home, a link into a
mounted root; `MAX_DENY_MATCHES` is 3 so that configurations are refused for it. Of
the cards, one slot with two nodes, two slots, and a card that is another
vendor's are there; in one scene the cards change four times, which is enough to
unplug a card, put another in its place and change back between any two
validations (`Ino` has a free inode number for each node). Bounds of the models: `changes` of a scene,
`MaxWritten` (characters in all), `MaxCalls`
(runs at a time), the sets `Ino`, `Proc` and `Daemon`; a client of
SessionLifecycle goes on to run only while a daemon is left to start.

`CHECK_DEADLOCK FALSE` appears where the system really stops: in `text`, when
the process has exited and no call can come; in ProcessRegistry, when all has
been run and closed; in `launch`, when a launch has failed or been refused.

The `violation` runs are disagreements between a document and the code, with the
quotation in `PROJECT.json`. In short: the removal of a placeholder at a stop does not
compare identities, so that a directory the user made in its place while the session was up goes with the session; an `expect` that times out does not look again, as `wait` does;
overlapping runs exceed the quota; a descendant that ignores SIGTERM and
outlives its leader makes `close` hang; a client killed right after it started a
daemon leaves a daemon that the next client cannot see.

`RuntimeRootsReachable` leaves out what lies below a link that is made. There the plan is not what
the comment at `native_lab_gpu.py:249` says ("Links already inside mounted trees retain
their original host contents"): `resolve` leaves out a link only if its configured path lies in a
mount, and does not follow the path. If one runtime directory is a link and another a link
below it, the second is emitted as well, in the tree that is mounted where
the first one leads; `View` takes its destination as it is written, and bubblewrap would follow the link that is
there by then. A root below a mask is left out too, as the mask hides it.

Assumptions of the `session` run that are not the code's doing: a client that is
killed is not killed between starting a daemon and the daemon's identity being
written (`KillsUnseen`; `orphan` shows why it matters), and a daemon has written
its identity within the 15 s its client waits (`SlowStart`), unless it is dead.

### Fairness

- SyntheticMounts: a helper that runs finishes, a launch is decided within the
  daemon's 10 s timeout, and a process that waits for a `flock` that is released
  again and again gets it (strong fairness), since the kernel wakes the waiters in
  turn. No client is obliged to leave, no session to stop.
- OutputBuffer: the event loop runs ready tasks. The child need not exit, and no
  timeout need go off: `ExitReturnsCalls` rests on the notification alone.
- ProcessRegistry: signals kill those who do not ignore them, ready tasks run,
  the timer of `close` goes off.
- SessionLifecycle: some client, daemon and sandbox that can go on does (the workspace
  lock lets one client in at a time, so it is enough); waiting for locks as above; other sessions
  give the policy lock back, which is what `LockReleased` shows of them; a sandbox whose
  daemon is dead dies, by `--die-with-parent`.
- Launch: the daemon, the bootstrap and the client that started the session go
  on. Cards need not change, and no other client need come.

## 4. What is proved

The proof modules `SyntheticMounts_proofs`, `OutputBuffer_proofs`, `OutputText_proofs`,
`OutputSelections_proofs`, `ProcessRegistry_proofs`, `SessionLifecycle_proofs`, `MountPlan_proofs` and
`Launch_proofs` hold for every value of the constants allowed by the
named assumptions of the component's module.

**SyntheticMounts.** Type correctness and `HeldPlaceholderKept` follow from an inductive
invariant: a session is in a locked step exactly when it has the lock; before
its daemon starts, a session has no marker of a former life; a live holder has a
marker; whoever is about to remove a placeholder has seen no other active
marker. None of these is inductive alone: that a remover has seen no marker
lasts only because nobody else can write one without the lock, and because a
session that starts has none that could become active. `PlaceholderTracked` and
`PlaceholderNotMistaken` need a second invariant about the step in the middle of
a mask, and the assumption `HelperKills = FALSE`: a helper that is killed
between unlinking its marker and removing the directory loses the placeholder.
`CrashLeavesMarker` needs no such assumption: a placeholder is made only once
the marker of the session that makes it is on disk, so that whoever dies between
the two leaves a marker without a placeholder (`CrashFindsPlaceholder`).

**OutputBuffer.** The states of calls, the order of drains and exit, and the
replies form an inductive invariant. The proof never opens `FindLiteral`: that no
call sleeps through its answer holds for any search, since every change of the
buffer or the exit code wakes all sleepers.

What the buffer holds is proved in `OutputText_proofs` and the second half of
`OutputBuffer_proofs`. `OutputText_proofs` is about any
list of events: the texts of the events, joined, and their cursors, joined, are
two sequences that are cut at the same places, so that `DropChars` drops exactly the
first characters of both. It is induction over the length of the list; as
tlapm cannot instantiate the induction theorems, the least counterexample is
taken from the well-foundedness of the natural numbers, as a set. The invariant of the buffer is
`BufferInv`: every event holds the characters of the history that its cursors
name, and the cursors of all events are the last `buffered` ones. An append adds
the next cursors at the end; a trim drops some at the front, whole events
for the limit of events and then characters for the limit of characters. `RetainedIsSuffix`,
`NothingDroppedNeedlessly` and `TypeOK` follow, for any chunks and limits.
`TextAssumption` says that what is read is a sequence.

What is selected from the buffer is proved in `OutputSelections_proofs`, from the same
invariant, for every stream, limit and cursor, any chunks and any limits of the
buffer (`SelectionsKept`, `SearchKept`). Events that are not empty are in order
(`Orderly`: each starts behind the one before it) exactly when the cursors of all
their characters, joined, grow; the cursors of the buffer are an interval, so its
events are in order, and so are those of one stream, in which no character is
missing. Two growing sequences with the same members are equal, and this
carries the properties from sets to sequences: the cursors of the eligible events are the
places of the history at which that stream was written (`Retained`), and the
first or last so many of either are the same. The text needs no argument of its
own, since each event says of its cursors what was written there. For lines, the
places after which a line starts are counted, in the text by `LineStarts` and in
the history by `LastLines`; the last `n` lines begin at the start of a line that has
`n - 1` others behind it. For the search, an
occurrence in the joined text of one stream is an occurrence in the history
that uses that stream's characters only, and the first one of each stream ends
before all others of it, so that the smaller of two ends is the smallest of all.
Nothing of this depends on where the reads and the trims have cut the events.

**ProcessRegistry.** `HandlesBounded` is inductive together with the number of
calls in their await: handles and spawning calls together never exceed the
bound, and the check passes only below the quota. `FoundAreGone` rests on the
fact that what `close` found keeps its handle until it is completed, and is
waited for. `TableImplemented` shows the refinement of HandleTable: with the
order of insertion as an invariant (`born` numbers the started processes without
a gap), an eviction takes the oldest completed handles, by comparing how many are older
than each (`OldestGo`), and an insertion fits because calls in their await have
been counted already.

**SessionLifecycle.** Type correctness holds without hypotheses. The rest holds
under the two of the `session` run, `~KillsUnseen` and `~SlowStart`; `orphan`
shows what becomes of it without the first. The invariant says which daemon each file may name.
At most one daemon is alive, it is the one that the control directory was made for, and once
it has written its identity the files name it; until then its client holds the
session's lock and waits for it (`NoSecondDaemon`). A sandbox that is alive
was started by the daemon whose control directory it was given, and it
writes its acknowledgement and its socket only there: a late sandbox finds its
directory gone (`AcknowledgedByOwn`). A client that is about to join has had
its answer from the sandbox of the daemon that the files name (`JoinedIsHeld`), and one that
reports a stop leaves no daemon and no file that would tell of one (`StopIsThorough`).
`SessionImplemented` is the refinement of Session: each step of a client, daemon or
sandbox is a step of the abstract session or changes nothing of it.

**Launch.** Type correctness and `NodesAuthorized`, for any hosts and configurations and
any number of changes of the cards, given that each node has an inode number of
its own and that KFD is not a render node (`SceneAssumption`, `RendersAssumption`).
No stage knows all of it: a look from inside cannot tell whose card a
node is (there, the nodes are those that were bound, but `/sys` is the host's), and one from outside does not see what was
bound. The inductive invariant puts them together. A bound node keeps its inode
number, so what has that number on the host is still that node, of the card it was bound
from (`KeptInv`); the bootstrap leaves only if each bound node has the number in the
manifest (`SameNode`); hence the daemon's look at the host after the
acknowledgement is at the nodes that were bound, and it finds their card to be
the one selected (`RightCard`). Neither of the two validations could be left out.

**The mount plan.** `PruningInvisible` and `OnlyWorkspaceWritable` are proved for any tree,
links, configuration and list of cards, at every path and not only at those the run looks at
(`PruningNotSeen`, `WorkspaceOnlyWritable`). `MountPlan_proofs` has what they rest on. `Sorted` and
`ByDepth` list a finite set without loss (`OrderedIs`: the number of members that precede one tells
all of them apart, so that each place is taken once). `View` is what the last covering operation shows,
and of two lists one after the other the second counts where it covers a path (`ViewJoined`), so that
what looks the same still does when the same operations follow (`AlikeJoined`). For pruning, each path
is followed through the read-only entries one by one: the entries that are kept lead it to the same
place on the host as all of them, and a path in a directory that counts as mounted is led to itself, so
that one more identity mount below that directory would lead it there again
(`PruneInv`, `AddRootKeeps`). The second half would not survive a remapped root, which may lie on top of a directory that
was mounted: there `Prune` forgets what is mounted, and the proof needs it to. For write access, the masks that
`collapse_masks` keeps cover the same paths as all masks (`CollapseIs`, as being within is transitive), they
come after the workspace's bind, which is the only one, and the bind after all the
rest. `NamesAssumption` says that the names the code mentions occur, `ConfigurationOK` that a scene's lists are finite
sets of paths and that its links lead to paths; that the manifest keeps to them is an invariant of its own (`ManifestNamed`).

`MasksHide` and `RuntimeRootsReachable` say which entry of the host is shown at a path, and so
need to know where a path leads. `HostOK` says that the host is a tree (what is in it is in a
directory), that the targets of its links are canonical, and that `/sys` is a directory; `ConfigurationOK` that the workspace is
named by its canonical path. From that it follows by induction over the names of a path that
`realpath` leads to a canonical path, and leaves such a one where it is (`RealpathCanonical`,
`CanonicalStays`), and that a path can be followed in two parts (`RealpathJoined`). A read-only mount at a canonical path shows
that path if it is mounted on itself, and a remapped one shows where its link leads (`Faithful`), so that the plan
shows, where read-only mounts cover a path, just what the path is on the host (`ReadOnlySeen`, `BaseSeen`, `PlanSeen`). For masks
(`MasksHidden`), it is left to see that none is made below one that hides it (`MasksInOrder`),
that each was recorded for a canonical entry, and
that the files of a project are masked exactly if they are its metadata, or denied and not
excepted (`ProjectFiles`). For runtime directories (`RootsFound`), each
one lies below one that is mounted, as there is a shortest one above it (`ShortestOf`), and a link that is made
is the first operation to cover its path besides the sandbox's own file systems, unless it is below another link (`LinkPlaced`).
That the resources in the manifest are those of a resolution that succeeded is
an invariant (`ManifestResolved`).

**What makes a launch fail.** `LostStaysOut` is about what happens after a card is lost for good: from the
moment a client, or the daemon for the last time, begins to look, every way leads to a
failure, as the look at all cards comes before any other step (`Watched`, `LostKeeps`). `QuietNeverFails` is
the converse: as long as the cards stay as they were, nothing fails, whatever the host, the
configuration, the cards and the request. The inductive invariant (`QuietInv`) says that a
resolution would still give the same manifest, and that what is bound has the inode numbers of the
host. So it remains to show of a resolution that succeeds that `validate_schema`, the look at the cards, that
at each node and that at the sources accept it (`ResolvedAccepted`): the rules of the five are written in
different places of `native_lab_gpu.py`, and a request that passes the first and none of
the others could never be launched. That the features of a request are
graphics or compute is part of `ConfigurationOK` (`native_lab_gpu.py:75`). `QuietHostLaunches`, the
liveness property, adds to it only that the stages go on.

**Only model-checked** are the seven liveness properties, which rest on fairness and
`ENABLED`: `StopEnds`, `LockReleased`, `ExitReturnsCalls`, `ForcedKillCompletes`,
`CloseReturns`, `ClientEnds` and `QuietHostLaunches`. All invariants and action properties of
the passing runs, and both refinements, are proved. Of the violated properties there is
nothing to prove.

## 5. Not modelled

- `write` is one write to a pipe that asyncio owns; the MCP adapter, `status`,
  `doctor`, `list` and the probe keep no state and change none.
- Of the policy compiler: the syntax of its configuration files, with what is
  refused there; glob syntax (here a glob matches a name); the digest. The lists
  a configuration resolves to are the input of MountPlan. That `rg` fails or is
  missing is one more reason to refuse, as is a tree that changes during the resolution.
- Of GPU resources: the wording of requests in the configuration, links among
  the parents of a node, permissions, and the report of `doctor`.
- How bubblewrap follows a link that is already in the sandbox when it makes a
  mount's destination: `View` takes destinations as they are written.
- Reuse of process and group numbers, and a reboot, which empties the runtime
  directory but not the workspace.
- A `run` that overlaps `close`: whether one can depends on the MCP library.
- The experiments and smoke scripts were read as statements about the program.

## 6. Plan

Done, in this order: SyntheticMounts with its proofs, OutputText and OutputBuffer
with theirs, ProcessRegistry with its, SessionLifecycle, MountPlan with
GpuResources and Launch, HandleTable with the proof of its refinement, Session,
the proofs of `NodesAuthorized`, of SessionLifecycle with its refinement, of
`CrashLeavesMarker`, of the bounds, contents, selections and search of the
output buffer, of pruning, write access, masks and runtime directories in the mount plan,
and of what makes a launch fail.

Next:

1. masks of trusted projects on another workspace's placeholder, and a reboot, as
   further actions of SyntheticMounts;
2. an append-only log with a window that OutputBuffer implements.
