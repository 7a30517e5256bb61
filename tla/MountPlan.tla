------------------------------ MODULE MountPlan ------------------------------
(* The policy compiler: from a configuration and what is on the host to a   *)
(* manifest, and from a manifest to the mounts bubblewrap is told to make.  *)
(* Definitions only; Launch composes them with the daemon.                  *)
(*                                                                          *)
(* A path is a sequence of names, the root is <<>>.  A host has the kind of *)
(* the entry at each path, and the canonical target of each link.  A        *)
(* configuration c has the host, the workspace, the logical and the         *)
(* canonical home, and the lists of the two configuration files, expanded.  *)
EXTENDS Integers, Sequences, FiniteSets, SequencesExt, FiniteSetsExt

CONSTANTS
  Names,            \* every name that occurs, in alphabetical order
  MAX_DENY_MATCHES

ASSUME DenyAssumption == MAX_DENY_MATCHES \in Nat

SYSTEM_READ_ONLY ==
  {<<"bin">>, <<"sbin">>, <<"usr">>, <<"etc">>, <<"lib">>, <<"lib64">>, <<"nix", "store">>,
   <<"run", "current-system", "sw">>}
PROTECTED_METADATA == {".git", ".agents", ".codex"}
PRIVATE_MOUNT_ROOTS == {<<"tmp">>, <<"run">>, <<"proc">>, <<"dev">>}

----------------------------------------------------------------------------
(* Paths *)

Path == Seq(ToSet(Names))

\* Names is a sequence, and the names that the code itself mentions are in it.
ASSUME NamesAssumption ==
  /\ Names \in Path
  /\ SYSTEM_READ_ONLY \union {<<"dev", "dri", "kfd">>, <<"tmp">>, <<"run">>, <<"sys">>} \subseteq Path
  /\ PROTECTED_METADATA \union {".npm-global", ".npm"} \subseteq ToSet(Names)

is_within(path, root) == IsPrefix(root, path)
overlaps(left, right) == is_within(left, right) \/ is_within(right, left)
WithinAny(path, roots) == \E root \in roots : is_within(path, root)

\* Alphabetical, so that a directory comes before what is in it.
Rank(name) == CHOOSE i \in DOMAIN Names : Names[i] = name
Before(p, q) ==
  \/ IsStrictPrefix(p, q)
  \/ \E i \in DOMAIN p \cap DOMAIN q :
       /\ \A j \in 1..(i - 1) : p[j] = q[j]
       /\ Rank(p[i]) < Rank(q[i])
Shallower(p, q) == Len(p) < Len(q) \/ (Len(p) = Len(q) /\ Before(p, q))
InOrder(paths, Less(_, _)) ==
  [i \in 1..Cardinality(paths) |->
     CHOOSE p \in paths : Cardinality({q \in paths : Less(q, p)}) = i - 1]
Sorted(paths) == InOrder(paths, Before)
ByDepth(paths) == InOrder(paths, Shallower)

realpath(host, path) ==
  LET at[n \in 0..Len(path)] ==
        IF n = 0 THEN <<>>
        ELSE LET p == Append(at[n - 1], path[n])
             IN IF p \in DOMAIN host.link THEN host.link[p] ELSE p
  IN at[Len(path)]
KindAt(host, path) == IF path \in DOMAIN host.kind THEN host.kind[path] ELSE "absent"
\* What is at a path, without following it if it is a link itself.
lstat(host, path) ==
  KindAt(host, IF path = <<>> THEN path ELSE Append(realpath(host, Front(path)), Last(path)))
exists(host, path) == KindAt(host, realpath(host, path)) # "absent"
isdir(host, path) == KindAt(host, realpath(host, path)) = "directory"

\* A tree, with /sys: what is below the root is in a directory.  The target of a link is
\* canonical, so that no part of it is a link.
Canonical(host, path) == \A l \in DOMAIN host.link : ~is_within(path, l)
HostOK(host) ==
  /\ IsFiniteSet(DOMAIN host.kind) /\ DOMAIN host.kind \subseteq Path
  /\ \A p \in {<<>>, <<"sys">>} : KindAt(host, p) = "directory"
  /\ \A p \in DOMAIN host.kind \ {<<>>} : KindAt(host, Front(p)) = "directory"
  /\ \A p \in DOMAIN host.link :
       KindAt(host, p) = "link" /\ host.link[p] \in Path /\ Canonical(host, host.link[p])

\* A configuration of finitely many paths, with the features there are, for a workspace
\* that is named as it is.
ConfigurationOK(c) ==
  /\ HostOK(c.host)
  /\ {c.workspace, c.home} \union c.allow \subseteq Path /\ Canonical(c.host, c.workspace)
  /\ \A paths \in {c.trusted, c.extra_read_only, c.gpu.readonly_roots} :
       IsFiniteSet(paths) /\ paths \subseteq Path
  /\ c.gpu.features \subseteq {"graphics", "compute"}

forbidden_home_root(path, home) == is_within(home, path)
conflicts_private_mount(path) == \E private \in PRIVATE_MOUNT_ROOTS : overlaps(path, private)

----------------------------------------------------------------------------
(* What is mounted *)

\* Trusted projects that exist, by their canonical path.  Roots that would expose the
\* home or hide a private mount are left out, and so is what the workspace holds.
collect_trusted_projects(c) ==
  {p \in {realpath(c.host, l) : l \in {t \in c.trusted : isdir(c.host, t)}} :
     /\ ~forbidden_home_root(p, c.home_canonical)
     /\ ~conflicts_private_mount(p)
     /\ ~is_within(p, c.workspace)}

default_user(c) == {Append(c.home, ".npm-global"), Append(c.home, ".npm")}
UnsafeReadOnlyRoot(c, destination) ==
  LET present == exists(c.host, destination)
      source == realpath(c.host, destination)
      comparison == IF present THEN source ELSE destination
  IN \/ /\ present
        /\ forbidden_home_root(source, c.home_canonical) \/ conflicts_private_mount(source)
     \/ /\ destination \notin default_user(c)
        /\ \/ forbidden_home_root(comparison, c.home_canonical)
           \/ conflicts_private_mount(comparison)
           \/ overlaps(comparison, c.workspace)
           \/ overlaps(destination, c.workspace)

Identity(paths) == [i \in DOMAIN paths |-> [source |-> paths[i], destination |-> paths[i]]]

\* A root is mounted where it was named, from where it is.
collect_read_only_roots(c) ==
  LET present == {d \in default_user(c) \union c.extra_read_only : exists(c.host, d)}
      paths == Sorted(present)
  IN [i \in DOMAIN paths |-> [source |-> realpath(c.host, paths[i]), destination |-> paths[i]]]
system_read_only(c) ==
  Identity(Sorted({p \in SYSTEM_READ_ONLY : lstat(c.host, p) # "absent"}))

----------------------------------------------------------------------------
(* What is masked *)

allow_paths(c) == {realpath(c.host, p) : p \in c.allow}

\* The files of a project that a deny glob matches.
run_rg(c, project) ==
  {f \in DOMAIN c.host.kind :
     is_within(f, project) /\ c.host.kind[f] = "file" /\ Last(f) \in c.deny}

\* A project that is allowed as a whole is not scanned; the workspace, which a project
\* may hold, and other exceptions are left out one by one.
deny_matches(c, project) ==
  LET excepted == allow_paths(c)
  IN IF WithinAny(project, excepted) THEN {}
     ELSE {f \in run_rg(c, project) : ~is_within(f, c.workspace) /\ ~WithinAny(f, excepted)}
match_count(c) ==
  MapThenSumSet(LAMBDA p : Cardinality(deny_matches(c, p)), collect_trusted_projects(c))

metadata(root) == {Append(root, name) : name \in PROTECTED_METADATA}
workspace_masks(c) ==
  {[path |-> p, kind |-> IF lstat(c.host, p) = "absent" THEN "missing-directory"
                                                       ELSE lstat(c.host, p)] :
     p \in metadata(c.workspace)}
trusted_masks(c) ==
  {[path |-> p, kind |-> lstat(c.host, p)] :
     p \in UNION {{m \in metadata(project) : lstat(c.host, m) # "absent"} \union deny_matches(c, project) :
                    project \in collect_trusted_projects(c)}}
raw_masks(c) == workspace_masks(c) \union trusted_masks(c)

Hides(mask) == mask.kind \in {"directory", "missing-directory"}

\* (mutant: masks in order, with those that lie below another)
sorted_masks(masks) ==
  LET paths == ByDepth({m.path : m \in masks})
  IN [i \in DOMAIN paths |-> CHOOSE m \in masks : m.path = paths[i]]

\* Nothing is masked below a directory that is masked, which is an empty file system
\* that cannot be written to.
AddMask(result, mask) ==
  IF \E i \in DOMAIN result : Hides(result[i]) /\ is_within(mask.path, result[i].path)
  THEN result
  ELSE Append(result, mask)
collapse_masks(masks) ==
  LET paths == ByDepth({m.path : m \in masks})
      result[n \in 0..Len(paths)] ==
        IF n = 0 THEN <<>>
        ELSE AddMask(result[n - 1], CHOOSE m \in masks : m.path = paths[n])
  IN result[Len(paths)]

----------------------------------------------------------------------------
(* The manifest *)

\* Every reason for which the compilation fails closed.
policy_fails(c) ==
  \/ ~isdir(c.host, c.workspace)
  \/ \E d \in default_user(c) \union c.extra_read_only : UnsafeReadOnlyRoot(c, d)
  \/ \E p \in allow_paths(c) : forbidden_home_root(p, c.home_canonical) \/ conflicts_private_mount(p)
  \/ \E m \in raw_masks(c) : m.kind \notin {"directory", "missing-directory", "file"}
  \/ match_count(c) > MAX_DENY_MATCHES

compile_policy(c) ==
  [workspace |-> c.workspace,
   home |-> c.home,
   system_read_only |-> system_read_only(c),
   user_read_only |-> collect_read_only_roots(c),
   trusted_projects |-> Sorted(collect_trusted_projects(c)),
   masks |-> collapse_masks(raw_masks(c))]

\* What of the host can be reached before the GPU's roots are added.
covered(m) ==
  {e.destination : e \in ToSet(m.system_read_only) \union ToSet(m.user_read_only)}
    \union ToSet(m.trusted_projects)

----------------------------------------------------------------------------
(* The mount plan.  An operation makes something appear at dst; src is the  *)
(* path of what, on the host for a bind, in the sandbox for a symlink.      *)

Op(op, src, dst) == [op |-> op, src |-> src, dst |-> dst]

\* (mutant: a root is left out when it touches one that is mounted)
PruneTouching(entries) ==
  FoldLeft(LAMBDA acc, e :
             IF e.source = e.destination /\ \E d \in acc.mounted : overlaps(e.destination, d)
             THEN acc
             ELSE [mounted |-> acc.mounted \union {e.destination}, kept |-> Append(acc.kept, e)],
           [mounted |-> {}, kept |-> <<>>], entries).kept

\* A root that is mounted on itself covers those below it.  One that is mounted
\* elsewhere may lie on top of what was covered: nothing is taken to be covered then.
AddRoot(acc, e) ==
  IF e.source # e.destination
  THEN [mounted |-> {}, kept |-> Append(acc.kept, e)]
  ELSE IF WithinAny(e.destination, acc.mounted) THEN acc
  ELSE [mounted |-> acc.mounted \union {e.destination}, kept |-> Append(acc.kept, e)]
Prune(entries) ==
  LET acc[n \in 0..Len(entries)] ==
        IF n = 0 THEN [mounted |-> {}, kept |-> <<>>] ELSE AddRoot(acc[n - 1], entries[n])
  IN acc[Len(entries)].kept

readonly(m, gpu) ==
  m.system_read_only \o m.user_read_only \o Identity(m.trusted_projects) \o gpu.readonly_mounts

private_ops(m) ==
  [i \in 1..5 |-> Op("tmpfs", <<>>, <<<<>>, <<"dev">>, <<"tmp">>, <<"run">>, m.home>>[i])]
ReadOnlyOps(entries) ==
  [i \in DOMAIN entries |-> Op("ro-bind", entries[i].source, entries[i].destination)]
SymlinkOps(gpu) ==
  [i \in DOMAIN gpu.symlinks |-> Op("symlink", gpu.symlinks[i].target, gpu.symlinks[i].path)]
NodeOps(gpu) ==
  LET paths == Sorted({IF n.path = "kfd" THEN <<"dev", "kfd">> ELSE <<"dev", "dri", n.path>> :
                         n \in gpu.nodes})
  IN [i \in DOMAIN paths |-> Op("dev-bind", paths[i], paths[i])]
MaskOps(masks) ==
  [i \in DOMAIN masks |-> Op(IF Hides(masks[i]) THEN "empty" ELSE "unreadable", <<>>, masks[i].path)]

\* (mutant: the workspace before the read-only roots)
WorkspaceFirst(m, gpu, entries) ==
  private_ops(m) \o <<Op("bind", m.workspace, m.workspace)>> \o ReadOnlyOps(entries)
    \o SymlinkOps(gpu) \o NodeOps(gpu) \o MaskOps(m.masks)

Plan(m, gpu, entries) ==
  private_ops(m) \o ReadOnlyOps(entries) \o SymlinkOps(gpu) \o NodeOps(gpu)
    \o <<Op("bind", m.workspace, m.workspace)>> \o MaskOps(m.masks)
emit_bwrap(m, gpu) == Plan(m, gpu, Prune(readonly(m, gpu)))

\* What bubblewrap makes of it: at each path the last operation that covers it counts,
\* and a bind shows the host's tree below its source, links followed.
View(host, ops, path) ==
  LET op == ops[CHOOSE i \in DOMAIN ops :
                  /\ is_within(path, ops[i].dst)
                  /\ \A j \in (i + 1)..Len(ops) : ~is_within(path, ops[j].dst)]
      below == op.src \o SubSeq(path, Len(op.dst) + 1, Len(path))
  IN [op |-> op.op,
      shows |-> IF op.op \in {"bind", "ro-bind"} THEN realpath(host, below)
                ELSE IF op.op = "symlink" THEN below ELSE <<>>]
=============================================================================
