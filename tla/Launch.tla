------------------------------- MODULE Launch -------------------------------
(* From a configuration to a sandbox at work: the policy is compiled, the   *)
(* daemon plans the mounts, has the GPU validated, starts bubblewrap and    *)
(* exchanges the acknowledgement with the bootstrap, and clients run        *)
(* commands.  Meanwhile cards come and go.                                  *)
(*                                                                          *)
(* The file tree of the host is that of the scene throughout.  A            *)
(* validation is a look at all cards and then at one node after the other,  *)
(* on the host or inside, where the nodes are those that were bound and     *)
(* /sys is the host's.  Locks, signals and timeouts are the subject of      *)
(* SessionLifecycle, placeholders of SyntheticMounts.                       *)
EXTENDS GpuResources

CONSTANTS
  Scenes,     \* configurations, with the cards at the start, and changes,
              \* a bound of the model: how often the cards change
  Cards,      \* vendor, device and driver of what may be plugged in
  Pci,        \* the addresses of slots
  Renders,    \* the names of render nodes
  Ino,        \* inode numbers, used again when free
  Unseen      \* no validation in progress

\* Each node has an inode number of its own, and each but KFD's is that of a card.
HardwareOK(h) ==
  /\ DOMAIN h.sys.render \subseteq Renders
  /\ DOMAIN h.dev \subseteq DOMAIN h.sys.render \union {KFD}
  /\ \A p, q \in DOMAIN h.dev : h.dev[p] \in Ino /\ (h.dev[p] = h.dev[q] => p = q)

ASSUME SceneAssumption == \A s \in Scenes : ConfigurationOK(s) /\ HardwareOK(s.hw) /\ s.changes \in Nat
ASSUME RendersAssumption == Renders \subseteq ToSet(Names) \ {KFD}
ASSUME UnseenAssumption == Unseen # {}

VARIABLES
  scene,    \* the configuration
  hw,       \* the cards, as /sys and /dev show them
  changes,  \* how often they have changed, a bound of the model
  touched,  \* whether they have since the policy was compiled
  pc,       \* where the launch is
  gpu,      \* the resources in the manifest
  left,     \* the nodes still to be validated, or to be bound
  bound     \* the nodes in the sandbox: inode number, and card they belonged to

vars == <<scene, hw, changes, touched, pc, gpu, left, bound>>

\* The validations: before the plan is made, before bubblewrap is started, in the
\* bootstrap, after its acknowledgement, and over SSH before each command.
OnHost == {"emit", "host", "again"}
Inside == {"inside", "first", "join"}
Running == {"released", "first", "working", "join", "declined"}

Init ==
  /\ scene \in Scenes
  /\ hw = scene.hw
  /\ changes = 0 /\ touched = FALSE
  /\ pc = "resolve"
  /\ gpu = disabled /\ left = Unseen /\ bound = <<>>

----------------------------------------------------------------------------
(* The client has the policy compiled *)

manifest == compile_policy(scene)

Resolve ==
  /\ pc = "resolve"
  /\ gpu' = resolve(scene, covered(manifest), hw)
  /\ pc' = IF policy_fails(scene) \/ gpu' = failed THEN "refused" ELSE "emit"
  /\ touched' = FALSE
  /\ UNCHANGED <<scene, hw, changes, left, bound>>

----------------------------------------------------------------------------
(* A validation *)

Goes(label) == pc' = label /\ left' = Unseen
\* The launch ends, and the sandbox with it; a later command is only turned away.
Fails == Goes(IF pc = "join" THEN "declined" ELSE "failed")

dev == IF pc \in Inside THEN [p \in DOMAIN bound |-> bound[p].ino] ELSE hw.dev

\* (mutant: only the nodes are looked at)
DiscoverNothing ==
  /\ pc \in OnHost \union Inside /\ left = Unseen
  /\ left' = gpu.nodes /\ UNCHANGED pc
  /\ UNCHANGED <<scene, hw, changes, touched, gpu, bound>>

\* The manifest is read, and every device in it found again.
Discover ==
  /\ pc \in OnHost \union Inside /\ left = Unseen
  /\ IF validate_schema(gpu) /\ DevicesUnchanged(gpu, discover(hw.sys))
     THEN left' = gpu.nodes /\ UNCHANGED pc
     ELSE Fails
  /\ UNCHANGED <<scene, hw, changes, touched, gpu, bound>>

\* (mutant: the bootstrap trusts what was bound)
ValidateOnHost ==
  /\ pc \in OnHost \union Inside /\ left \notin {Unseen, {}}
  /\ \E node \in left :
       IF pc \in Inside \/ NodeUnchanged(gpu, dev, hw.sys, node)
       THEN left' = left \ {node} /\ UNCHANGED pc
       ELSE Fails
  /\ UNCHANGED <<scene, hw, changes, touched, gpu, bound>>

Validate ==
  /\ pc \in OnHost \union Inside /\ left \notin {Unseen, {}}
  /\ \E node \in left :
       IF NodeUnchanged(gpu, dev, hw.sys, node)
       THEN left' = left \ {node} /\ UNCHANGED pc
       ELSE Fails
  /\ UNCHANGED <<scene, hw, changes, touched, gpu, bound>>

----------------------------------------------------------------------------
(* The daemon, the bootstrap and the clients *)

\* The mount plan, which is made once the sources have been looked at.
args == emit_bwrap(manifest, gpu)

Emit ==
  /\ pc = "emit" /\ left = {}
  /\ IF SourcesUnchanged(scene.host, gpu)
     THEN Goes("host")
     ELSE Fails
  /\ UNCHANGED <<scene, hw, changes, touched, gpu, bound>>

LaunchBubblewrap ==
  /\ pc = "host" /\ left = {}
  /\ pc' = "bind" /\ left' = {n.path : n \in gpu.nodes}
  /\ UNCHANGED <<scene, hw, changes, touched, gpu, bound>>

NodeNow(path) == [ino |-> hw.dev[path], pci |-> IF path = KFD THEN KFD ELSE hw.sys.render[path]]

\* (mutant: the whole directory of nodes is bound)
BindDirectory ==
  /\ pc = "bind" /\ left # {}
  /\ bound' = [path \in DOMAIN hw.dev |-> NodeNow(path)] /\ left' = {}
  /\ UNCHANGED <<scene, hw, changes, touched, pc, gpu>>

With(f, name, value) ==
  [x \in DOMAIN f \union {name} |-> IF x = name THEN value ELSE f[x]]

\* bubblewrap binds what is at the path by then.
BindNode ==
  /\ pc = "bind" /\ left # {}
  /\ \E path \in left :
       IF path \in DOMAIN hw.dev
       THEN /\ bound' = With(bound, path, NodeNow(path))
            /\ left' = left \ {path} /\ UNCHANGED pc
       ELSE Fails /\ UNCHANGED bound
  /\ UNCHANGED <<scene, hw, changes, touched, gpu>>

EnterBootstrap ==
  /\ pc = "bind" /\ left = {}
  /\ Goes("inside")
  /\ UNCHANGED <<scene, hw, changes, touched, gpu, bound>>

\* .mounts-ready: the daemon validates once more.
Acknowledge ==
  /\ pc = "inside" /\ left = {}
  /\ Goes("again")
  /\ UNCHANGED <<scene, hw, changes, touched, gpu, bound>>

\* .mounts-release.
Release ==
  /\ pc = "again" /\ left = {}
  /\ Goes("released")
  /\ UNCHANGED <<scene, hw, changes, touched, gpu, bound>>

\* (mutant: the first client waits for a validation where there is no GPU to validate)
ConnectWithGpu ==
  /\ pc \in {"released", "working", "declined"} /\ gpu # disabled
  /\ Goes(IF pc = "released" THEN "first" ELSE "join")
  /\ UNCHANGED <<scene, hw, changes, touched, gpu, bound>>

\* The client that started the session, and later ones, validate before they run.
Connect ==
  /\ \/ pc = "released" /\ Goes(IF gpu = disabled THEN "working" ELSE "first")
     \/ pc \in {"working", "declined"} /\ gpu # disabled /\ Goes("join")
  /\ UNCHANGED <<scene, hw, changes, touched, gpu, bound>>

RunCommand ==
  /\ pc \in {"first", "join"} /\ left = {}
  /\ Goes("working")
  /\ UNCHANGED <<scene, hw, changes, touched, gpu, bound>>

DaemonStep ==
  \/ Discover \/ Validate \/ Emit \/ LaunchBubblewrap \/ BindNode \/ EnterBootstrap
  \/ Acknowledge \/ Release \/ RunCommand

----------------------------------------------------------------------------
(* The cards.  Without a GPU request nobody looks at them. *)

FreeIno == Ino \ ({hw.dev[p] : p \in DOMAIN hw.dev} \union {bound[p].ino : p \in DOMAIN bound})
Without(f, names) == [x \in DOMAIN f \ names |-> f[x]]
Changes(new) ==
  /\ changes < scene.changes /\ changes' = changes + 1
  /\ scene.gpu.features # {}
  /\ pc \notin {"resolve", "refused", "failed"}
  /\ hw' = new /\ touched' = TRUE
  /\ UNCHANGED <<scene, pc, gpu, left, bound>>

Unplug(p) ==
  /\ p \in DOMAIN hw.sys.card
  /\ LET nodes == {r \in DOMAIN hw.sys.render : hw.sys.render[r] = p}
     IN Changes([sys |-> [card |-> Without(hw.sys.card, {p}), kfd |-> hw.sys.kfd,
                          render |-> Without(hw.sys.render, nodes)],
                 dev |-> Without(hw.dev, nodes)])

Plug(p) ==
  /\ p \notin DOMAIN hw.sys.card
  /\ \E card \in Cards, r \in Renders \ DOMAIN hw.sys.render, i \in FreeIno :
       Changes([sys |-> [card |-> With(hw.sys.card, p, card), kfd |-> hw.sys.kfd,
                         render |-> With(hw.sys.render, r, p)],
                dev |-> With(hw.dev, r, i)])

\* The driver is loaded again, which needs all of its cards to be gone.
ReloadKfd ==
  /\ hw.sys.kfd /\ \A p \in DOMAIN hw.sys.card : hw.sys.card[p].driver # "amdgpu"
  /\ \E i \in FreeIno : Changes([sys |-> hw.sys, dev |-> With(hw.dev, KFD, i)])

Next ==
  \/ Resolve \/ Connect \/ DaemonStep
  \/ \E p \in Pci : Unplug(p) \/ Plug(p)
  \/ ReloadKfd

\* The daemon, the bootstrap and a client that has begun go on.
Spec == Init /\ [][Next]_vars
FairSpec == Spec /\ WF_vars(DaemonStep) /\ WF_vars(pc = "released" /\ Connect)

----------------------------------------------------------------------------
(* Properties *)

Planned == pc = "host" /\ left = Unseen
\* What can be told apart: the paths of the host, and those in the plan.
Places(plan) ==
  DOMAIN scene.host.kind
    \union {plan[i].dst : i \in DOMAIN plan} \union {m.path : m \in raw_masks(scene)}
See(plan, path) == View(scene.host, plan, path)

\* Every variable has its type, and what is bound is in the plan.
TypeOK ==
  /\ scene \in Scenes /\ changes \in 0..scene.changes /\ touched \in BOOLEAN
  /\ pc \in OnHost \union Inside \union Running \union {"resolve", "refused", "failed", "bind"}
  /\ gpu.provider \in {"none", "amd", "failed"}
  /\ IF pc = "bind" THEN left \subseteq {n.path : n \in gpu.nodes}
                    ELSE left = Unseen \/ left \subseteq gpu.nodes
  /\ DOMAIN bound \subseteq {n.path : n \in gpu.nodes}
  /\ \A p \in DOMAIN bound : bound[p].ino \in Ino

\* Leaving out read-only mounts that another one covers changes nothing that can be
\* seen in the sandbox, whatever the order of nested, linked and remapped roots.
PruningInvisible ==
  Planned =>
    LET plan == args
        whole == Plan(manifest, gpu, readonly(manifest, gpu))
    IN \A p \in Places(whole) : See(plan, p) = See(whole, p)

\* Whatever is to be masked is masked at the end, and masks can be mounted one after
\* the other, each on the entry it was recorded for.  Of a trusted project exactly
\* that can be read which is not its metadata, not denied, or excepted from denial.
MasksHide ==
  Planned =>
    LET plan == args
        projects == collect_trusted_projects(scene)
        masks == {i \in DOMAIN plan : plan[i].op \in {"empty", "unreadable"}}
        reserved == UNION {metadata(r) : r \in projects \union {scene.workspace}}
        excepted == allow_paths(scene)
    IN /\ \A m \in raw_masks(scene) : See(plan, m.path).op \in {"empty", "unreadable"}
       /\ \A i \in masks :
            /\ \A j \in masks : j < i /\ plan[j].op = "empty" => ~is_within(plan[i].dst, plan[j].dst)
            /\ See(SubSeq(plan, 1, i - 1), plan[i].dst).shows = plan[i].dst
       /\ \A f \in DOMAIN scene.host.kind :
            scene.host.kind[f] = "file" /\ WithinAny(f, projects) /\ ~is_within(f, scene.workspace) =>
              (See(plan, f).shows = f <=>
                 ~WithinAny(f, reserved) /\ (Last(f) \in scene.deny => WithinAny(f, excepted)))

\* The workspace takes precedence over every read-only root it overlaps, and nothing
\* else of the host can be written.
OnlyWorkspaceWritable ==
  Planned =>
    LET plan == args
        masked == {m.path : m \in raw_masks(scene)}
    IN \A p \in Places(plan) :
         See(plan, p) = [op |-> "bind", shows |-> realpath(scene.host, p)] <=>
           is_within(p, scene.workspace) /\ ~WithinAny(p, masked)

\* Each runtime directory is found in the sandbox by the name it was configured
\* with, unless that lies in what is masked, or below a link that is made: through a
\* mount or a link, and where a link leads something is mounted.  But for links below
\* others, none is to be made in what a mount shows, where it would be there already.
RuntimeRootsReachable ==
  Planned /\ gpu # disabled =>
    LET plan == args
        masked == {m.path : m \in raw_masks(scene)}
        below(path) == \E l \in ToSet(gpu.symlinks) : IsStrictPrefix(l.path, path)
    IN /\ \A root \in scene.gpu.readonly_roots :
            LET source == realpath(scene.host, root)
            IN /\ ~WithinAny(source, masked) => See(plan, source) = [op |-> "ro-bind", shows |-> source]
               /\ ~WithinAny(root, masked) /\ ~below(root) => See(plan, root).shows = source
       /\ \A i \in DOMAIN plan :
            plan[i].op = "symlink" /\ ~below(plan[i].dst) =>
              See(SubSeq(plan, 1, i - 1), plan[i].dst).op = "tmpfs"

\* A sandbox that is released has exactly the nodes of the devices that were selected,
\* each bound from the card it was validated for, whatever was at its path between the
\* validations; and KFD only for compute.
NodesAuthorized ==
  pc \in Running =>
    /\ {[path |-> p, ino |-> bound[p].ino] : p \in DOMAIN bound} = gpu.nodes
    /\ \A p \in DOMAIN bound \ {KFD} :
         /\ p \in UNION {d.render_nodes : d \in {e \in gpu.devices : e.pci = bound[p].pci}}
         /\ scene.gpu.devices \in {{"auto"}, {"all"}} \/ bound[p].pci \in scene.gpu.devices
    /\ KFD \in DOMAIN bound => "compute" \in scene.gpu.features

\* No command is let into a sandbox whose card is gone, or another one in its place,
\* from when its client, or the daemon before the release, begins to look.
Lost == ~DevicesUnchanged(gpu, discover(hw.sys))
LostDeviceStops ==
  [](pc \in {"again", "first", "join"} /\ left = Unseen /\ []Lost => [](pc # "working"))

\* What one stage writes the next ones accept: a launch fails, or a later command is
\* turned away, only after the cards have changed.
OnlyChangesFail == pc \in {"failed", "declined"} => touched

\* On a host whose cards stay as they are, a policy that was compiled is launched.
QuietHostLaunches == pc = "emit" ~> (touched \/ pc = "working")
=============================================================================
