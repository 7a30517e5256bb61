---------------------------- MODULE GpuResources ----------------------------
(* Resolution and validation of GPU resources.  Definitions only.           *)
(*                                                                          *)
(* The kernel shows a card in two places.  sys is what /sys says: card maps *)
(* the PCI addresses in use to what is there, render the name of each       *)
(* render node to the address of its card, kfd says whether KFD is loaded.  *)
(* dev maps the names under /dev (or those bound into a sandbox) to inode   *)
(* numbers.  A render node's device number goes with its name (renderD128   *)
(* is 226:128), so that the inode number is what is left of its identity.   *)
(* That a file is a device, has no link for a parent and can be opened is   *)
(* taken for granted of the kernel's own nodes.                             *)
EXTENDS MountPlan

KFD == "kfd"
AMD == "0x1002"

\* The resources of a session without a GPU.
disabled ==
  [provider |-> "none", features |-> {}, devices |-> {}, nodes |-> {},
   readonly_mounts |-> <<>>, symlinks |-> <<>>]
failed == [disabled EXCEPT !.provider = "failed"]

\* The AMD cards that have a render node, with all of theirs.
discover(sys) ==
  {[pci |-> p, vendor |-> sys.card[p].vendor, device |-> sys.card[p].device,
    driver |-> sys.card[p].driver,
    render_nodes |-> {r \in DOMAIN sys.render : sys.render[r] = p}] :
     p \in {q \in DOMAIN sys.card :
              sys.card[q].vendor = AMD /\ \E r \in DOMAIN sys.render : sys.render[r] = q}}

\* A node is there, and /sys agrees that it is KFD's or one of the given device's.
NodeValid(dev, sys, path, device) ==
  /\ path \in DOMAIN dev
  /\ IF path = KFD THEN sys.kfd
     ELSE /\ path \in DOMAIN sys.render
          /\ \E d \in device : sys.render[path] = d.pci
NodeAt(dev, path) == [path |-> path, ino |-> dev[path]]

\* The devices a request selects, if it can be met.
selected(request, sys) ==
  LET discovered == discover(sys)
  IN IF request.devices \in {{"auto"}, {"all"}} THEN discovered
     ELSE {d \in discovered : d.pci \in request.devices}
SelectionFails(request, sys) ==
  \/ request.devices = {"auto"} /\ Cardinality(discover(sys)) # 1
  \/ /\ request.devices \notin {{"auto"}, {"all"}}
     /\ ~(request.devices \subseteq {d.pci : d \in discover(sys)})
  \/ selected(request, sys) = {}
  \/ \E d \in selected(request, sys) :
       d.driver \notin IF "compute" \in request.features THEN {"amdgpu"} ELSE {"amdgpu", "radeon"}

NodePaths(request, sys) ==
  (UNION {d.render_nodes : d \in selected(request, sys)})
    \union IF "compute" \in request.features THEN {KFD} ELSE {}
OwnerIn(devices, path) == {d \in devices : path \in d.render_nodes}

----------------------------------------------------------------------------
(* The runtime's directories *)

UnsafeRuntimeRoot(c, root) ==
  \/ ~isdir(c.host, root)
  \/ \E p \in {root, realpath(c.host, root)} :
       \/ p \in {<<>>, <<"opt">>}
       \/ is_within(c.home_canonical, p)
       \/ overlaps(p, c.workspace)
       \/ \E q \in PRIVATE_MOUNT_ROOTS \union {<<"sys">>} : overlaps(p, q)

SYS == [source |-> <<"sys">>, destination |-> <<"sys">>]

\* (mutant: roots are mounted from where they were configured)
RootsAsNamed(c, roots, reach) ==
  <<SYS>> \o Identity(ByDepth({r \in roots : ~WithinAny(r, reach \union {<<"sys">>} \union (roots \ {r}))}))

\* /sys, and the roots that nothing mounted covers, by their canonical path.
runtime_mounts(c, roots, reach) ==
  LET candidates == {realpath(c.host, r) : r \in roots}
      bare == {p \in candidates :
                 ~WithinAny(p, reach \union {<<"sys">>} \union (candidates \ {p}))}
  IN <<SYS>> \o Identity(ByDepth(bare))

\* (mutant: a link for every root that is one, wherever it lies)
LinksEverywhere(c, roots, reach) ==
  LET paths == Sorted({r \in roots : realpath(c.host, r) # r})
  IN [i \in DOMAIN paths |-> [path |-> paths[i], target |-> realpath(c.host, paths[i])]]

\* A root that is a link and lies outside what is mounted needs its link made.
runtime_symlinks(c, roots, reach) ==
  LET mounts == {m.destination : m \in ToSet(runtime_mounts(c, roots, reach))}
      paths == Sorted({r \in roots : realpath(c.host, r) # r /\ ~WithinAny(r, reach \union mounts)})
  IN [i \in DOMAIN paths |-> [path |-> paths[i], target |-> realpath(c.host, paths[i])]]

----------------------------------------------------------------------------

\* The resources of a request on the host as it is now.
resolve(c, reach, hw) ==
  LET request == c.gpu
      devices == selected(request, hw.sys)
      paths == NodePaths(request, hw.sys)
  IN IF request.features = {} THEN disabled
     ELSE IF \/ SelectionFails(request, hw.sys)
             \/ \E p \in paths : ~NodeValid(hw.dev, hw.sys, p, OwnerIn(devices, p))
             \/ \E r \in request.readonly_roots : UnsafeRuntimeRoot(c, r)
     THEN failed
     ELSE [provider |-> "amd", features |-> request.features,
           devices |-> devices, nodes |-> {NodeAt(hw.dev, p) : p \in paths},
           readonly_mounts |-> runtime_mounts(c, request.readonly_roots, reach),
           symlinks |-> runtime_symlinks(c, request.readonly_roots, reach)]

\* What is required of a manifest that is read back.
validate_schema(r) ==
  \/ r = disabled
  \/ /\ r.provider = "amd"
     /\ r.features # {} /\ r.features \subseteq {"graphics", "compute"}
     /\ r.devices # {}
     /\ \A d \in r.devices : d.vendor = AMD /\ d.render_nodes # {} /\ KFD \notin d.render_nodes
     /\ \A d, e \in r.devices : d # e => d.render_nodes \cap e.render_nodes = {}
     /\ {n.path : n \in r.nodes} =
          (UNION {d.render_nodes : d \in r.devices}) \union IF "compute" \in r.features THEN {KFD} ELSE {}
     /\ Cardinality({n.path : n \in r.nodes}) = Cardinality(r.nodes)
     /\ SYS \in ToSet(r.readonly_mounts)
     /\ \A m \in ToSet(r.readonly_mounts) :
          /\ m.source = m.destination
          /\ m.source \notin {<<>>, <<"opt">>}
          /\ ~conflicts_private_mount(m.source)
     /\ \A l \in ToSet(r.symlinks) : \A p \in {l.path, l.target} :
          ~conflicts_private_mount(p) /\ ~overlaps(p, <<"sys">>)

\* A session's devices are still what they were; seen is what has been discovered.
DevicesUnchanged(r, seen) == r.devices \subseteq seen
\* So is one of its nodes, in dev as the one who looks sees it.
NodeUnchanged(r, dev, sys, node) ==
  /\ NodeValid(dev, sys, node.path, OwnerIn(r.devices, node.path))
  /\ NodeAt(dev, node.path) = node

\* The links and sources in the plan are still what they were.
SourcesUnchanged(host, r) ==
  /\ \A m \in ToSet(r.readonly_mounts) : realpath(host, m.source) = m.source /\ isdir(host, m.source)
  /\ \A l \in ToSet(r.symlinks) : realpath(host, l.path) = l.target
=============================================================================
