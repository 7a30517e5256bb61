---------------------------- MODULE Launch_proofs ----------------------------
(* Which nodes a sandbox that is released has and what of the host can be   *)
(* written in it, for any host, configuration and number of changes of the  *)
(* cards.                                                                   *)
EXTENDS Launch, MountPlan_proofs, TLAPS

Paths == {n.path : n \in gpu.nodes}

\* The manifest names each node once, the devices are those of the request, and KFD is
\* there only for compute.
ManifestInv ==
  /\ gpu.provider \in {"none", "amd", "failed"}
  /\ \A n \in gpu.nodes : n = [path |-> n.path, ino |-> n.ino]
  /\ \A n, m \in gpu.nodes : n.path = m.path => n = m
  /\ KFD \in Paths => "compute" \in scene.gpu.features
  /\ \A d \in gpu.devices : scene.gpu.devices \in {{"auto"}, {"all"}} \/ d.pci \in scene.gpu.devices

\* What is bound at each stage.
StageInv ==
  /\ pc \in OnHost \union Inside \union Running \union {"resolve", "refused", "failed", "bind"}
  /\ IF pc = "bind" THEN left \subseteq Paths ELSE left = Unseen \/ left \subseteq gpu.nodes
  /\ DOMAIN bound \subseteq Paths
  /\ \A p \in DOMAIN bound : bound[p].ino \in Ino
  /\ pc = "resolve" => left = Unseen
  /\ pc \in {"resolve", "emit", "host"} => DOMAIN bound = {}
  /\ pc = "bind" => DOMAIN bound = Paths \ left
  /\ pc \in Inside \union Running \union {"again"} => DOMAIN bound = Paths

\* A bound node keeps its inode number from being used again: whatever has that number
\* on the host is the node that was bound, of the same card.
NodeKept(p) ==
  \A q \in DOMAIN hw.dev :
    hw.dev[q] = bound[p].ino => q = p /\ (p # KFD => hw.sys.render[p] = bound[p].pci)
KeptInv == \A p \in DOMAIN bound : NodeKept(p)

\* What the bootstrap has found out: that a node is the one in the manifest; and then
\* the daemon: that it is of the right card.
SameNode(n) == bound[n.path].ino = n.ino
RightCard(n) ==
  n.path # KFD => \E d \in gpu.devices : n.path \in d.render_nodes /\ d.pci = bound[n.path].pci
SeenInv ==
  /\ pc = "inside" => left = Unseen \/ \A n \in gpu.nodes \ left : SameNode(n)
  /\ pc \in Running \union {"again"} => \A n \in gpu.nodes : SameNode(n)
  /\ pc = "again" => left = Unseen \/ \A n \in gpu.nodes \ left : RightCard(n)
  /\ pc \in Running => \A n \in gpu.nodes : RightCard(n)

IInv ==
  /\ scene \in Scenes /\ changes \in 0..scene.changes /\ touched \in BOOLEAN
  /\ HardwareOK(hw)
  /\ ManifestInv /\ StageInv /\ KeptInv /\ SeenInv

----------------------------------------------------------------------------
(* The manifest *)

\* What a resolution selects is what was asked for.
LEMMA SelectedAsked ==
  ASSUME NEW request, NEW sys, NEW d \in selected(request, sys)
  PROVE  request.devices \in {{"auto"}, {"all"}} \/ d.pci \in request.devices
BY DEF selected

\* The nodes of the cards are render nodes, which KFD is not.
LEMMA RenderNodesNamed ==
  ASSUME NEW request, NEW sys, DOMAIN sys.render \subseteq Renders
  PROVE  /\ UNION {d.render_nodes : d \in selected(request, sys)} \subseteq DOMAIN sys.render
         /\ KFD \in NodePaths(request, sys) => "compute" \in request.features
<1>1. \A d \in discover(sys) : d.render_nodes \subseteq DOMAIN sys.render
  BY DEF discover
<1>2. selected(request, sys) \subseteq discover(sys)
  BY DEF selected
<1>3. UNION {d.render_nodes : d \in selected(request, sys)} \subseteq DOMAIN sys.render
  BY <1>1, <1>2
<1> QED BY <1>3, RendersAssumption DEF NodePaths

\* What a resolution writes into the manifest.
LEMMA ResolveWrites ==
  ASSUME scene \in Scenes, HardwareOK(hw), NEW reach, gpu' = resolve(scene, reach, hw),
         scene' = scene
  PROVE  ManifestInv'
<1> DEFINE paths == NodePaths(scene.gpu, hw.sys)
<1>1. CASE gpu' = disabled \/ gpu' = failed
  <2>1. gpu'.nodes = {} /\ gpu'.devices = {} /\ gpu'.provider \in {"none", "failed"}
    BY <1>1 DEF disabled, failed
  <2> QED BY <2>1 DEF ManifestInv, Paths
<1>2. CASE gpu' # disabled /\ gpu' # failed
  <2>1. /\ gpu'.provider = "amd"
        /\ gpu'.devices = selected(scene.gpu, hw.sys)
        /\ gpu'.nodes = {NodeAt(hw.dev, p) : p \in paths}
    BY <1>2 DEF resolve
  <2>2. \A n \in gpu'.nodes :
          n.path \in paths /\ n.ino = hw.dev[n.path] /\ n = [path |-> n.path, ino |-> n.ino]
    BY <2>1 DEF NodeAt
  <2>3. KFD \in paths => "compute" \in scene.gpu.features
    BY RenderNodesNamed DEF HardwareOK
  <2>4. \A d \in gpu'.devices :
          scene.gpu.devices \in {{"auto"}, {"all"}} \/ d.pci \in scene.gpu.devices
    BY <2>1, SelectedAsked
  <2> QED BY <2>1, <2>2, <2>3, <2>4 DEF ManifestInv, Paths
<1> QED BY <1>1, <1>2

----------------------------------------------------------------------------
(* The steps *)

\* A step that leaves the cards, the manifest and the sandbox alone keeps what is known
\* of them.
LEMMA OnlyStage ==
  ASSUME IInv, UNCHANGED <<scene, hw, changes, touched, gpu, bound>>
  PROVE  /\ scene' \in Scenes /\ changes' \in 0..scene'.changes /\ touched' \in BOOLEAN
         /\ HardwareOK(hw') /\ ManifestInv' /\ KeptInv'
         /\ Paths' = Paths
         /\ \A n : (SameNode(n)' <=> SameNode(n)) /\ (RightCard(n)' <=> RightCard(n))
BY DEF IInv, ManifestInv, KeptInv, NodeKept, Paths, SameNode, RightCard

LEMMA ResolveStep == IInv /\ Resolve => IInv'
<1> SUFFICES ASSUME IInv, Resolve PROVE IInv'
  OBVIOUS
<1> USE DEF IInv, Resolve
<1>1. ManifestInv'
  BY ResolveWrites
<1>2. pc' \in {"refused", "emit"} /\ DOMAIN bound = {}
  BY DEF StageInv
<1>3. StageInv' /\ KeptInv' /\ SeenInv'
  <2>1. left' = Unseen \/ left' \subseteq gpu'.nodes
    BY DEF StageInv
  <2> QED BY <1>2, <2>1 DEF StageInv, KeptInv, SeenInv, OnHost, Inside, Running
<1> QED BY <1>1, <1>3

LEMMA DiscoverStep == IInv /\ Discover => IInv'
<1> SUFFICES ASSUME IInv, Discover PROVE IInv'
  OBVIOUS
<1>1. UNCHANGED <<scene, hw, changes, touched, gpu, bound>>
  BY DEF Discover
<1>2. /\ pc \in OnHost \union Inside
      /\ \/ left' = gpu.nodes /\ pc' = pc
         \/ left' = Unseen /\ pc' = IF pc = "join" THEN "declined" ELSE "failed"
  BY DEF Discover, Fails, Goes
<1>3. StageInv'
  BY <1>1, <1>2, OnlyStage DEF IInv, StageInv, OnHost, Inside, Running
<1>4. SeenInv'
  BY <1>1, <1>2, OnlyStage DEF IInv, SeenInv, OnHost, Inside, Running
<1> QED BY <1>1, <1>3, <1>4, OnlyStage DEF IInv

LEMMA ValidateStep == IInv /\ Validate => IInv'
<1> SUFFICES ASSUME IInv, Validate PROVE IInv'
  OBVIOUS
<1>1. UNCHANGED <<scene, hw, changes, touched, gpu, bound>>
  BY DEF Validate
<1>2. PICK node \in left :
        IF NodeUnchanged(gpu, dev, hw.sys, node)
        THEN left' = left \ {node} /\ UNCHANGED pc
        ELSE Fails
  BY DEF Validate
<1>3. pc \in OnHost \union Inside /\ left # Unseen /\ left \subseteq gpu.nodes
  BY DEF Validate, IInv, StageInv, OnHost, Inside
<1>4. CASE ~NodeUnchanged(gpu, dev, hw.sys, node)
  <2>1. left' = Unseen /\ pc' = IF pc = "join" THEN "declined" ELSE "failed"
    BY <1>2, <1>4 DEF Fails, Goes
  <2>2. StageInv'
    BY <1>1, <1>3, <2>1, OnlyStage DEF IInv, StageInv, OnHost, Inside, Running
  <2>3. SeenInv'
    BY <1>1, <1>3, <2>1, OnlyStage DEF IInv, SeenInv, OnHost, Inside, Running
  <2> QED BY <1>1, <2>2, <2>3, OnlyStage DEF IInv
<1>5. CASE NodeUnchanged(gpu, dev, hw.sys, node)
  <2>1. left' = left \ {node} /\ pc' = pc
    BY <1>2, <1>5
  <2>2. NodeValid(dev, hw.sys, node.path, OwnerIn(gpu.devices, node.path))
        /\ NodeAt(dev, node.path) = node
    BY <1>5 DEF NodeUnchanged
  <2>3. node.path \in DOMAIN dev /\ dev[node.path] = node.ino
    BY <2>2 DEF NodeAt, NodeValid
  <2>4. StageInv'
    BY <1>1, <1>3, <2>1, OnlyStage DEF IInv, StageInv, OnHost, Inside, Running
  <2>5. ASSUME pc = "inside" PROVE SameNode(node)
    <3>1. dev = [p \in DOMAIN bound |-> bound[p].ino]
      BY <2>5 DEF dev, Inside
    <3> QED BY <2>3, <3>1 DEF SameNode
  <2>6. ASSUME pc = "again" PROVE RightCard(node)
    <3> SUFFICES ASSUME node.path # KFD
                 PROVE  \E d \in gpu.devices :
                          node.path \in d.render_nodes /\ d.pci = bound[node.path].pci
      BY DEF RightCard
    <3>1. dev = hw.dev
      BY <2>6 DEF dev, Inside
    <3>2. SameNode(node) /\ node.path \in DOMAIN bound
      BY <1>2, <1>3, <2>6 DEF IInv, SeenInv, StageInv, Paths
    <3>3. hw.sys.render[node.path] = bound[node.path].pci
      BY <2>3, <3>1, <3>2 DEF IInv, KeptInv, NodeKept, SameNode
    <3>4. PICK d \in OwnerIn(gpu.devices, node.path) : hw.sys.render[node.path] = d.pci
      BY <2>2 DEF NodeValid
    <3> QED BY <3>3, <3>4 DEF OwnerIn
  <2>7. SeenInv'
    <3>1. pc = "inside" => \A n \in gpu.nodes \ left' : SameNode(n)
      BY <1>3, <2>1, <2>5 DEF IInv, SeenInv
    <3>2. pc = "again" => \A n \in gpu.nodes \ left' : RightCard(n)
      BY <1>3, <2>1, <2>6 DEF IInv, SeenInv
    <3> QED BY <1>1, <2>1, <3>1, <3>2, OnlyStage DEF IInv, SeenInv
  <2> QED BY <1>1, <2>4, <2>7, OnlyStage DEF IInv
<1> QED BY <1>4, <1>5

\* The steps from one stage to the next: what has been validated is known from then on.
LEMMA StageStep ==
  IInv /\ (Emit \/ LaunchBubblewrap \/ EnterBootstrap \/ Acknowledge \/ Release \/ Connect
            \/ RunCommand) => IInv'
<1> SUFFICES ASSUME IInv,
                    Emit \/ LaunchBubblewrap \/ EnterBootstrap \/ Acknowledge \/ Release
                      \/ Connect \/ RunCommand
             PROVE  IInv'
  OBVIOUS
<1>1. UNCHANGED <<scene, hw, changes, touched, gpu, bound>>
  BY DEF Emit, LaunchBubblewrap, EnterBootstrap, Acknowledge, Release, Connect, RunCommand
<1>2. CASE Emit
  <2>1. pc = "emit" /\ pc' \in {"host", "failed"} /\ left' = Unseen
    BY <1>2 DEF Emit, Fails, Goes
  <2> QED BY <1>1, <2>1, OnlyStage DEF IInv, StageInv, SeenInv, OnHost, Inside, Running
<1>3. CASE LaunchBubblewrap
  <2>1. pc = "host" /\ pc' = "bind" /\ left' = Paths
    BY <1>3 DEF LaunchBubblewrap, Paths
  <2> QED BY <1>1, <2>1, OnlyStage DEF IInv, StageInv, SeenInv, OnHost, Inside, Running
<1>4. CASE EnterBootstrap
  <2>1. pc = "bind" /\ left = {} /\ pc' = "inside" /\ left' = Unseen
    BY <1>4 DEF EnterBootstrap, Goes
  <2> QED BY <1>1, <2>1, OnlyStage DEF IInv, StageInv, SeenInv, OnHost, Inside, Running
<1>5. CASE Acknowledge
  <2>1. pc = "inside" /\ left = {} /\ pc' = "again" /\ left' = Unseen
    BY <1>5 DEF Acknowledge, Goes
  <2>2. \A n \in gpu.nodes : SameNode(n)
    BY <2>1, UnseenAssumption DEF IInv, SeenInv
  <2> QED BY <1>1, <2>1, <2>2, OnlyStage DEF IInv, StageInv, SeenInv, OnHost, Inside, Running
<1>6. CASE Release
  <2>1. pc = "again" /\ left = {} /\ pc' = "released" /\ left' = Unseen
    BY <1>6 DEF Release, Goes
  <2>2. \A n \in gpu.nodes : SameNode(n) /\ RightCard(n)
    BY <2>1, UnseenAssumption DEF IInv, SeenInv
  <2> QED BY <1>1, <2>1, <2>2, OnlyStage DEF IInv, StageInv, SeenInv, OnHost, Inside, Running
<1>7. CASE Connect \/ RunCommand
  <2>1. pc \in Running /\ pc' \in {"working", "first", "join"} /\ left' = Unseen
    BY <1>7 DEF Connect, RunCommand, Goes, Running
  <2>2. StageInv'
    BY <1>1, <2>1, OnlyStage DEF IInv, StageInv, OnHost, Inside, Running
  <2> QED BY <1>1, <2>1, <2>2, OnlyStage DEF IInv, SeenInv, Inside, Running
<1> QED BY <1>2, <1>3, <1>4, <1>5, <1>6, <1>7

LEMMA BindStep == IInv /\ BindNode => IInv'
<1> SUFFICES ASSUME IInv, BindNode PROVE IInv'
  OBVIOUS
<1>1. /\ pc = "bind" /\ left \subseteq Paths /\ DOMAIN bound = Paths \ left
      /\ UNCHANGED <<scene, hw, changes, touched, gpu>>
  BY DEF BindNode, IInv, StageInv
<1>2. /\ scene' \in Scenes /\ changes' \in 0..scene'.changes /\ touched' \in BOOLEAN
      /\ HardwareOK(hw') /\ ManifestInv' /\ Paths' = Paths
  BY <1>1 DEF IInv, ManifestInv, Paths
<1>3. PICK path \in left :
        IF path \in DOMAIN hw.dev
        THEN /\ bound' = With(bound, path, NodeNow(path))
             /\ left' = left \ {path} /\ UNCHANGED pc
        ELSE Fails /\ UNCHANGED bound
  BY DEF BindNode
<1>4. CASE path \notin DOMAIN hw.dev
  <2>1. left' = Unseen /\ pc' = "failed" /\ bound' = bound
    BY <1>1, <1>3, <1>4 DEF Fails, Goes
  <2>2. KeptInv'
    BY <1>1, <2>1 DEF IInv, KeptInv, NodeKept
  <2> QED BY <1>1, <1>2, <2>1, <2>2 DEF IInv, StageInv, SeenInv, OnHost, Inside, Running
<1>5. CASE path \in DOMAIN hw.dev
  <2>1. left' = left \ {path} /\ pc' = "bind"
    BY <1>1, <1>3, <1>5
  <2>2. /\ DOMAIN bound' = DOMAIN bound \union {path}
        /\ \A p \in DOMAIN bound : bound'[p] = bound[p]
        /\ bound'[path] = NodeNow(path)
    BY <1>1, <1>3, <1>5 DEF With
  <2>3. bound'[path].ino = hw.dev[path] /\ hw.dev[path] \in Ino
    BY <1>5, <2>2 DEF NodeNow, IInv, HardwareOK
  <2>4. NodeKept(path)'
    <3>1. \A q \in DOMAIN hw.dev : hw.dev[q] = hw.dev[path] => q = path
      BY <1>5 DEF IInv, HardwareOK
    <3>2. path # KFD => hw.sys.render[path] = bound'[path].pci
      BY <2>2 DEF NodeNow
    <3> QED BY <1>1, <2>3, <3>1, <3>2 DEF NodeKept
  <2>5. KeptInv'
    BY <1>1, <2>2, <2>4 DEF IInv, KeptInv, NodeKept
  <2>6. StageInv'
    BY <1>1, <1>2, <2>1, <2>2, <2>3 DEF IInv, StageInv, OnHost, Inside, Running
  <2> QED BY <1>2, <2>1, <2>5, <2>6 DEF IInv, SeenInv, Inside, Running
<1> QED BY <1>4, <1>5

----------------------------------------------------------------------------
(* The cards *)

\* A change after which the nodes still have numbers of their own, and after which none
\* has taken the number of a bound one, keeps the invariant.
LEMMA ChangeKeeps ==
  ASSUME IInv, NEW new, Changes(new), HardwareOK(new), KeptInv'
  PROVE  IInv'
<1>1. /\ UNCHANGED <<scene, pc, gpu, left, bound>> /\ touched' = TRUE /\ hw' = new
      /\ changes < scene.changes /\ changes' = changes + 1
  BY DEF Changes
<1>2. changes' \in 0..scene'.changes
  BY <1>1, SceneAssumption DEF IInv
<1>3. ManifestInv' /\ StageInv' /\ SeenInv'
  BY <1>1 DEF IInv, ManifestInv, StageInv, SeenInv, Paths, SameNode, RightCard
<1> QED BY <1>1, <1>2, <1>3 DEF IInv

LEMMA UnplugStep == ASSUME IInv, NEW p, Unplug(p) PROVE IInv'
<1> DEFINE nodes == {r \in DOMAIN hw.sys.render : hw.sys.render[r] = p}
           new == [sys |-> [card |-> Without(hw.sys.card, {p}), kfd |-> hw.sys.kfd,
                            render |-> Without(hw.sys.render, nodes)],
                   dev |-> Without(hw.dev, nodes)]
<1>1. Changes(new)
  BY DEF Unplug
<1>3. /\ DOMAIN new.sys.render = DOMAIN hw.sys.render \ nodes
      /\ \A r \in DOMAIN new.sys.render : new.sys.render[r] = hw.sys.render[r]
      /\ DOMAIN new.dev = DOMAIN hw.dev \ nodes
      /\ \A q \in DOMAIN new.dev : new.dev[q] = hw.dev[q]
  BY DEF Without
<1> HIDE DEF new
<1>5. HardwareOK(new)
  BY <1>3 DEF IInv, HardwareOK
<1>6. hw' = new /\ bound' = bound
  BY <1>1 DEF Changes
<1>7. KeptInv'
  BY <1>3, <1>5, <1>6 DEF IInv, KeptInv, NodeKept, HardwareOK
<1> QED BY <1>1, <1>5, <1>7, ChangeKeeps

LEMMA PlugStep == ASSUME IInv, NEW p, Plug(p) PROVE IInv'
<1>1. PICK card \in Cards, r \in Renders \ DOMAIN hw.sys.render, i \in FreeIno :
        Changes([sys |-> [card |-> With(hw.sys.card, p, card), kfd |-> hw.sys.kfd,
                          render |-> With(hw.sys.render, r, p)],
                 dev |-> With(hw.dev, r, i)])
  BY DEF Plug
<1> DEFINE new == [sys |-> [card |-> With(hw.sys.card, p, card), kfd |-> hw.sys.kfd,
                            render |-> With(hw.sys.render, r, p)],
                   dev |-> With(hw.dev, r, i)]
<1>2. Changes(new)
  BY <1>1
<1>4. r \notin DOMAIN hw.sys.render /\ r \notin DOMAIN hw.dev /\ r # KFD
  BY RendersAssumption DEF IInv, HardwareOK
<1>5. /\ DOMAIN new.sys.render = DOMAIN hw.sys.render \union {r}
      /\ \A q \in DOMAIN hw.sys.render : new.sys.render[q] = hw.sys.render[q]
      /\ DOMAIN new.dev = DOMAIN hw.dev \union {r} /\ new.dev[r] = i
      /\ \A q \in DOMAIN hw.dev : new.dev[q] = hw.dev[q]
  BY <1>4 DEF With
<1> HIDE DEF new
<1>7. /\ i \in Ino /\ \A q \in DOMAIN hw.dev : hw.dev[q] # i
      /\ \A q \in DOMAIN bound : bound[q].ino # i
  BY DEF FreeIno
<1>8. HardwareOK(new)
  BY <1>4, <1>5, <1>7 DEF IInv, HardwareOK
<1>9. hw' = new /\ bound' = bound
  BY <1>2 DEF Changes
<1>10. KeptInv'
  BY <1>4, <1>5, <1>7, <1>9 DEF IInv, KeptInv, NodeKept, HardwareOK
<1> QED BY <1>2, <1>8, <1>10, ChangeKeeps

LEMMA ReloadStep == ASSUME IInv, ReloadKfd PROVE IInv'
<1>1. PICK i \in FreeIno : Changes([sys |-> hw.sys, dev |-> With(hw.dev, KFD, i)])
  BY DEF ReloadKfd
<1> DEFINE new == [sys |-> hw.sys, dev |-> With(hw.dev, KFD, i)]
<1>2. /\ new.sys = hw.sys /\ DOMAIN new.dev = DOMAIN hw.dev \union {KFD}
      /\ \A q \in DOMAIN new.dev : new.dev[q] = IF q = KFD THEN i ELSE hw.dev[q]
  BY DEF With
<1>3. Changes(new)
  BY <1>1
<1> HIDE DEF new
<1>4. /\ i \in Ino /\ \A q \in DOMAIN hw.dev : hw.dev[q] # i
      /\ \A q \in DOMAIN bound : bound[q].ino # i
  BY DEF FreeIno
<1>5. HardwareOK(new)
  BY <1>2, <1>4 DEF IInv, HardwareOK
<1>6. hw' = new /\ bound' = bound
  BY <1>3 DEF Changes
<1>7. KeptInv'
  BY <1>2, <1>4, <1>6 DEF IInv, KeptInv, NodeKept
<1> QED BY <1>3, <1>5, <1>7, ChangeKeeps

----------------------------------------------------------------------------
(* The theorems *)

\* The manifest, the stages and the bound nodes are related as above throughout.
THEOREM LaunchInvariant == Spec => []IInv
<1>1. Init => IInv
  <2> SUFFICES ASSUME Init PROVE IInv
    OBVIOUS
  <2>1. scene \in Scenes /\ changes = 0 /\ touched = FALSE /\ HardwareOK(hw)
        /\ scene.changes \in Nat
    BY SceneAssumption DEF Init
  <2>2. DOMAIN bound = {} /\ pc = "resolve" /\ left = Unseen
    BY DEF Init
  <2>3. gpu.provider = "none" /\ gpu.nodes = {} /\ gpu.devices = {}
    BY DEF Init, disabled
  <2>4. ManifestInv
    BY <2>3 DEF ManifestInv, Paths
  <2>5. StageInv /\ KeptInv /\ SeenInv
    BY <2>2 DEF StageInv, KeptInv, SeenInv, OnHost, Inside, Running
  <2>6. changes \in 0..scene.changes
    BY <2>1
  <2>7. touched \in BOOLEAN
    BY Zenon DEF Init
  <2> QED BY <2>1, <2>4, <2>5, <2>6, <2>7 DEF IInv
<1>2. IInv /\ [Next]_vars => IInv'
  <2> SUFFICES ASSUME IInv, [Next]_vars PROVE IInv'
    OBVIOUS
  <2>1. CASE Resolve
    BY <2>1, ResolveStep
  <2>2. CASE Connect
    BY <2>2, StageStep
  <2>3. CASE DaemonStep
    BY <2>3, DiscoverStep, ValidateStep, StageStep, BindStep DEF DaemonStep
  <2>4. CASE \E p \in Pci : Unplug(p) \/ Plug(p)
    BY <2>4, UnplugStep, PlugStep
  <2>5. CASE ReloadKfd
    BY <2>5, ReloadStep
  <2>6. CASE UNCHANGED vars
    BY <2>6 DEF vars, IInv, ManifestInv, StageInv, KeptInv, NodeKept, SeenInv, Paths,
                SameNode, RightCard
  <2> QED BY <2>1, <2>2, <2>3, <2>4, <2>5, <2>6 DEF Next
<1> QED BY <1>1, <1>2, PTL DEF Spec

\* Every variable of the launch has its type.
THEOREM TypeCorrect == Spec => []TypeOK
<1>1. IInv => TypeOK
  BY DEF IInv, ManifestInv, StageInv, Paths, TypeOK
<1> QED BY <1>1, LaunchInvariant, PTL

\* A sandbox that is released has the nodes that were selected, of the cards they were
\* validated for, and no others.
THEOREM NodesOnlyAuthorized == Spec => []NodesAuthorized
<1>1. IInv => NodesAuthorized
  <2> SUFFICES ASSUME IInv, pc \in Running PROVE NodesAuthorized
    BY DEF NodesAuthorized
  <2>1. DOMAIN bound = Paths /\ \A n \in gpu.nodes : SameNode(n) /\ RightCard(n)
    BY DEF IInv, StageInv, SeenInv
  <2>2. {[path |-> p, ino |-> bound[p].ino] : p \in DOMAIN bound} = gpu.nodes
    <3>1. \A p \in DOMAIN bound :
            \E n \in gpu.nodes : [path |-> p, ino |-> bound[p].ino] = n
      BY <2>1 DEF IInv, ManifestInv, Paths, SameNode
    <3>2. \A n \in gpu.nodes :
            n.path \in DOMAIN bound /\ n = [path |-> n.path, ino |-> bound[n.path].ino]
      BY <2>1 DEF IInv, ManifestInv, Paths, SameNode
    <3> QED BY <3>1, <3>2
  <2>3. ASSUME NEW p \in DOMAIN bound \ {KFD}
        PROVE  /\ p \in UNION {d.render_nodes : d \in {e \in gpu.devices : e.pci = bound[p].pci}}
               /\ scene.gpu.devices \in {{"auto"}, {"all"}} \/ bound[p].pci \in scene.gpu.devices
    <3>1. PICK d \in gpu.devices : p \in d.render_nodes /\ d.pci = bound[p].pci
      BY <2>1 DEF Paths, RightCard
    <3> QED BY <3>1 DEF IInv, ManifestInv
  <2>4. KFD \in DOMAIN bound => "compute" \in scene.gpu.features
    BY <2>1 DEF IInv, ManifestInv
  <2> QED BY <2>2, <2>3, <2>4 DEF NodesAuthorized
<1> QED BY <1>1, LaunchInvariant, PTL

----------------------------------------------------------------------------
(* What is seen of the host *)

\* The nodes of the manifest are those that the host had.
LEMMA NodesNamed ==
  ASSUME HardwareOK(hw), NEW n \in {NodeAt(hw.dev, p) : p \in NodePaths(scene.gpu, hw.sys)},
         \A p \in NodePaths(scene.gpu, hw.sys) :
           NodeValid(hw.dev, hw.sys, p, OwnerIn(selected(scene.gpu, hw.sys), p))
  PROVE  n.path \in ToSet(Names)
<1>1. n.path \in DOMAIN hw.dev
  BY DEF NodeAt, NodeValid
<1>2. n.path \in Renders \union {KFD}
  BY <1>1 DEF HardwareOK
<1>3. KFD \in ToSet(Names)
  <2> DEFINE N == ToSet(Names)
  <2>1. <<"dev", "dri", "kfd">> \in Seq(N)
    BY NamesAssumption DEF Path
  <2> HIDE DEF N
  <2>2. "kfd" \in N
    BY <2>1
  <2> QED BY <2>2 DEF N, KFD
<1> QED BY <1>2, <1>3, RendersAssumption

\* The roots of the runtime that are mounted, and the links to them.
LEMMA RootsNamed ==
  ASSUME NEW c, ConfigurationOK(c), NEW reach
  PROVE  /\ runtime_mounts(c, c.gpu.readonly_roots, reach) \in Seq(Entry)
         /\ runtime_symlinks(c, c.gpu.readonly_roots, reach) \in Seq([path : Path, target : Path])
<1> DEFINE roots == c.gpu.readonly_roots
<1>1. IsFiniteSet(roots) /\ roots \subseteq Path /\ LinksOK(c.host)
  BY ConfigurationIs
<1> HIDE DEF roots
<1>2. runtime_mounts(c, roots, reach) \in Seq(Entry)
  <2> DEFINE candidates == {realpath(c.host, r) : r \in roots}
             bare == {p \in candidates :
                        ~WithinAny(p, reach \union {<<"sys">>} \union (candidates \ {p}))}
  <2>1. IsFiniteSet(candidates) /\ candidates \subseteq Path
    BY <1>1, CanonicalIs
  <2>2. bare \in SUBSET candidates
    OBVIOUS
  <2>3. runtime_mounts(c, roots, reach) = <<SYS>> \o Identity(ByDepth(bare))
    BY DEF runtime_mounts
  <2> HIDE DEF bare, candidates
  <2>4. Identity(ByDepth(bare)) \in Seq(Entry)
    BY <2>1, <2>2, FS_Subset, ListIs, IdentityIs
  <2>5. <<SYS>> \in Seq(Entry)
    <3>1. <<"sys">> \in Path
      BY NamesAssumption
    <3>2. SYS \in Entry
      BY <3>1 DEF SYS, Entry
    <3> QED BY <3>2
  <2> QED BY <2>3, <2>4, <2>5, ConcatProperties
<1>3. runtime_symlinks(c, roots, reach) \in Seq([path : Path, target : Path])
  <2> DEFINE mounts == {m.destination : m \in ToSet(runtime_mounts(c, roots, reach))}
             S == {r \in roots : realpath(c.host, r) # r /\ ~WithinAny(r, reach \union mounts)}
             paths == Sorted(S)
             t == runtime_symlinks(c, roots, reach)
             L == [path : Path, target : Path]
  <2>1. S \in SUBSET roots
    OBVIOUS
  <2>2. t = [i \in DOMAIN paths |-> [path |-> paths[i], target |-> realpath(c.host, paths[i])]]
    BY DEF runtime_symlinks
  <2> HIDE DEF S, t
  <2>3. paths \in Seq(Path)
    BY <1>1, <2>1, FS_Subset, ListIs
  <2> HIDE DEF paths
  <2>4. \A i \in DOMAIN paths : paths[i] \in Path
    BY <2>3
  <2>5. \A i \in DOMAIN paths : realpath(c.host, paths[i]) \in Path
    BY <1>1, <2>4, RealpathIs
  <2>6. t = [i \in DOMAIN paths |-> t[i]] /\ \A i \in DOMAIN paths : t[i] \in L
    BY <2>2, <2>4, <2>5
  <2> HIDE DEF L
  <2>7. t \in Seq(L)
    BY <2>3, <2>6, MadeFrom
  <2> QED BY <2>7 DEF t, L
<1> QED BY <1>2, <1>3 DEF roots

LEMMA ResolvePaths == IInv /\ Resolve => GpuPathsOK(gpu')
<1> SUFFICES ASSUME IInv, Resolve PROVE GpuPathsOK(gpu')
  OBVIOUS
<1>1. ConfigurationOK(scene) /\ HardwareOK(hw)
  BY SceneAssumption DEF IInv
<1>2. gpu' = resolve(scene, covered(manifest), hw)
  BY DEF Resolve
<1>3. CASE gpu' = disabled \/ gpu' = failed
  <2>1. gpu'.readonly_mounts = <<>> /\ gpu'.symlinks = <<>> /\ gpu'.nodes = {}
    BY <1>3 DEF disabled, failed
  <2> QED BY <2>1, EmptySeq DEF GpuPathsOK
<1>4. CASE gpu' # disabled /\ gpu' # failed
  <2> DEFINE paths == NodePaths(scene.gpu, hw.sys)
             roots == scene.gpu.readonly_roots
             reach == covered(manifest)
  <2>1. /\ gpu'.nodes = {NodeAt(hw.dev, p) : p \in paths}
        /\ \A p \in paths : NodeValid(hw.dev, hw.sys, p, OwnerIn(selected(scene.gpu, hw.sys), p))
        /\ gpu'.readonly_mounts = runtime_mounts(scene, roots, reach)
        /\ gpu'.symlinks = runtime_symlinks(scene, roots, reach)
    BY <1>2, <1>4 DEF resolve
  <2>2. \A n \in gpu'.nodes : n.path \in ToSet(Names)
    BY <1>1, <2>1, NodesNamed
  <2> HIDE DEF reach
  <2>3. /\ gpu'.readonly_mounts \in Seq(Entry)
        /\ gpu'.symlinks \in Seq([path : Path, target : Path])
    BY <1>1, <2>1, RootsNamed
  <2> QED BY <2>2, <2>3 DEF GpuPathsOK
<1> QED BY <1>3, <1>4

\* Whatever the manifest names is a path of the host.
THEOREM ManifestNamed == Spec => []GpuPathsOK(gpu)
<1>1. Init => GpuPathsOK(gpu)
  <2> SUFFICES ASSUME Init PROVE GpuPathsOK(gpu)
    OBVIOUS
  <2>1. gpu.readonly_mounts = <<>> /\ gpu.symlinks = <<>> /\ gpu.nodes = {}
    BY DEF Init, disabled
  <2> QED BY <2>1, EmptySeq DEF GpuPathsOK
<1>2. IInv /\ GpuPathsOK(gpu) /\ [Next]_vars => GpuPathsOK(gpu)'
  <2> SUFFICES ASSUME IInv, GpuPathsOK(gpu), [Next]_vars PROVE GpuPathsOK(gpu')
    OBVIOUS
  <2>1. CASE Resolve
    BY <2>1, ResolvePaths
  <2>2. CASE gpu' = gpu
    BY <2>2
  <2>3. Resolve \/ gpu' = gpu
    BY DEF Next, vars, Connect, DaemonStep, Discover, Validate, Emit, LaunchBubblewrap,
           BindNode, EnterBootstrap, Acknowledge, Release, RunCommand, Unplug, Plug,
           ReloadKfd, Changes
  <2> QED BY <2>1, <2>2, <2>3
<1> QED BY <1>1, <1>2, LaunchInvariant, PTL DEF Spec

\* What the properties look at is a path.
LEMMA PlacesArePaths ==
  ASSUME scene \in Scenes, GpuPathsOK(gpu), NEW entries \in Seq(Entry)
  PROVE  Places(Plan(manifest, gpu, entries)) \subseteq Path
<1> DEFINE plan == Plan(manifest, gpu, entries)
<1>1. ConfigurationOK(scene)
  BY SceneAssumption
<1>2. plan \in Seq(Operations(AnyKind))
  BY <1>1, PlanIs DEF manifest
<1> HIDE DEF plan
<1>3. \A i \in DOMAIN plan : plan[i].dst \in Path
  <2>1. \A i \in DOMAIN plan : plan[i] \in Operations(AnyKind)
    BY <1>2
  <2> QED BY <2>1 DEF Operations
<1>4. DOMAIN scene.host.kind \subseteq Path
  BY <1>1, ConfigurationIs
<1>5. \A m \in raw_masks(scene) : m.path \in Path
  BY <1>1, RawMasksAre
<1>6. Places(plan) \subseteq Path
  BY <1>3, <1>4, <1>5 DEF Places
<1> QED BY <1>6 DEF plan

\* That read-only mounts are left out which another one covers cannot be seen in the
\* sandbox.
THEOREM PruningNotSeen == Spec => []PruningInvisible
<1>1. IInv /\ GpuPathsOK(gpu) => PruningInvisible
  <2> SUFFICES ASSUME scene \in Scenes, GpuPathsOK(gpu) PROVE PruningInvisible
    BY DEF IInv
  <2> DEFINE whole == Plan(manifest, gpu, readonly(manifest, gpu))
  <2>1. ConfigurationOK(scene)
    BY SceneAssumption
  <2>2. Places(whole) \subseteq Path
    <3>1. readonly(manifest, gpu) \in Seq(Entry)
      BY <2>1, ReadOnlyAre DEF manifest
    <3> QED BY <3>1, PlacesArePaths
  <2>3. \A p \in Path : See(args, p) = See(whole, p)
    BY <2>1, PlanPruned DEF See, args, manifest
  <2> HIDE DEF whole
  <2>4. \A p \in Places(whole) : See(args, p) = See(whole, p)
    BY <2>2, <2>3
  <2> QED BY <2>4 DEF PruningInvisible, whole
<1> QED BY <1>1, LaunchInvariant, ManifestNamed, PTL

\* Of the host the workspace can be written, but for what is masked in it, whatever
\* read-only root it overlaps, and nothing else.
THEOREM WorkspaceOnlyWritable == Spec => []OnlyWorkspaceWritable
<1>1. IInv /\ GpuPathsOK(gpu) => OnlyWorkspaceWritable
  <2> SUFFICES ASSUME scene \in Scenes, GpuPathsOK(gpu) PROVE OnlyWorkspaceWritable
    BY DEF IInv
  <2> DEFINE masked == {m.path : m \in raw_masks(scene)}
  <2>1. ConfigurationOK(scene)
    BY SceneAssumption
  <2>2. Places(args) \subseteq Path
    <3>1. Prune(readonly(manifest, gpu)) \in Seq(Entry)
      BY <2>1, ReadOnlyAre, PruneIs DEF manifest
    <3> QED BY <3>1, PlacesArePaths DEF args, emit_bwrap
  <2>3. \A p \in Path :
          See(args, p) = [op |-> "bind", shows |-> realpath(scene.host, p)]
            <=> is_within(p, scene.workspace) /\ ~WithinAny(p, masked)
    BY <2>1, PlanWritable DEF See, args, manifest
  <2> HIDE DEF masked
  <2>4. \A p \in Places(args) :
          See(args, p) = [op |-> "bind", shows |-> realpath(scene.host, p)]
            <=> is_within(p, scene.workspace) /\ ~WithinAny(p, masked)
    BY <2>2, <2>3
  <2> QED BY <2>4 DEF OnlyWorkspaceWritable, masked
<1> QED BY <1>1, LaunchInvariant, ManifestNamed, PTL

\* Before a command is let in, or never to be: the devices are still to be looked at.
Watched ==
  \/ pc \in {"again", "first", "join"} /\ left = Unseen
  \/ pc \in {"failed", "declined"}

\* As long as a device is lost, no step leads from there to a command.
LEMMA LostKeeps == Watched /\ Lost /\ [Next]_vars => Watched'
<1> SUFFICES ASSUME Watched, Lost, [Next]_vars PROVE Watched'
  OBVIOUS
<1>1. CASE Discover
  BY <1>1 DEF Discover, Lost, Fails, Goes, Watched
<1>2. CASE Connect
  BY <1>2 DEF Connect, Goes, Watched
<1>3. CASE Resolve \/ Emit \/ LaunchBubblewrap \/ BindNode \/ EnterBootstrap \/ Acknowledge
  BY <1>3 DEF Goes, Fails, Resolve, Emit, LaunchBubblewrap, BindNode, EnterBootstrap, Acknowledge, Watched
<1>4. CASE Validate \/ Release \/ RunCommand
  BY <1>4, UnseenAssumption DEF Validate, Release, RunCommand, OnHost, Inside, Watched
<1>5. CASE ReloadKfd \/ \E p \in Pci : Unplug(p) \/ Plug(p)
  BY <1>5 DEF ReloadKfd, Unplug, Plug, Changes, Watched
<1>6. CASE UNCHANGED vars
  BY <1>6 DEF vars, Watched
<1> QED BY <1>1, <1>2, <1>3, <1>4, <1>5, <1>6 DEF Next, DaemonStep

\* When a device is lost for good before a client, or the daemon for the last time,
\* begins to look, no command is let in any more.
THEOREM LostStaysOut == Spec => LostDeviceStops
<1>1. pc \in {"again", "first", "join"} /\ left = Unseen => Watched
  BY DEF Watched
<1>2. Watched => pc # "working"
  BY DEF Watched
<1> QED BY <1>1, <1>2, LostKeeps, PTL DEF Spec, LostDeviceStops

----------------------------------------------------------------------------
(* What the resolution of GPU resources found *)

\* The paths at which a list of mounts, or of links, has something appear.
Destinations(s) == {e.destination : e \in ToSet(s)}
LinkPaths(s) == {l.path : l \in ToSet(s)}

Candidates(c) == {realpath(c.host, r) : r \in c.gpu.readonly_roots}
Bare(c, reach) ==
  {p \in Candidates(c) : ~WithinAny(p, reach \union {<<"sys">>} \union (Candidates(c) \ {p}))}
Linked(c, reach) ==
  {r \in c.gpu.readonly_roots :
     /\ realpath(c.host, r) # r
     /\ ~WithinAny(r, reach \union Destinations(runtime_mounts(c, c.gpu.readonly_roots, reach)))}

LEMMA RootsMounted ==
  ASSUME NEW c, ConfigurationOK(c), NEW reach
  PROVE  LET mounts == runtime_mounts(c, c.gpu.readonly_roots, reach)
         IN /\ \A e \in ToSet(mounts) : e.source = e.destination
            /\ Destinations(mounts) = {<<"sys">>} \union Bare(c, reach)
            /\ IsFiniteSet(Candidates(c)) /\ Candidates(c) \subseteq Path
<1> DEFINE mounts == runtime_mounts(c, c.gpu.readonly_roots, reach)
           bare == Bare(c, reach)
           paths == ByDepth(bare)
           own == Identity(paths)
<1>1. IsFiniteSet(Candidates(c)) /\ Candidates(c) \subseteq Path
  BY ConfigurationIs, CanonicalIs DEF Candidates
<1>2. IsFiniteSet(bare) /\ bare \subseteq Path
  <2>1. bare \in SUBSET Candidates(c)
    BY DEF Bare
  <2> HIDE DEF bare
  <2> QED BY <1>1, <2>1, FS_Subset
<1>3. mounts = <<SYS>> \o own
  BY DEF runtime_mounts, Bare, Candidates
<1> HIDE DEF bare, mounts
<1>4. paths \in Seq(Path) /\ ToSet(paths) = bare
  BY <1>2, ListIs, ByDepthIs
<1> HIDE DEF paths
<1>5. /\ own \in Seq(Entry) /\ (\A e \in ToSet(own) : e.source = e.destination)
      /\ Destinations(own) = bare
  BY <1>4, IdentityIs, IdentityShows DEF Destinations
<1>6. SYS \in Entry /\ SYS.source = SYS.destination /\ SYS.destination = <<"sys">>
  BY NamesAssumption DEF SYS, Entry
<1> HIDE DEF own
<1> DEFINE first == <<SYS>>
<1>7. first \in Seq(Entry) /\ ToSet(first) = {SYS}
  BY <1>6 DEF ToSet
<1> HIDE DEF first
<1>8. ToSet(first \o own) = ToSet(first) \union ToSet(own)
  BY <1>5, <1>7, RangeJoined
<1>9. ToSet(mounts) = {SYS} \union ToSet(own)
  BY <1>3, <1>7, <1>8 DEF first
<1>10. \A e \in ToSet(mounts) : e.source = e.destination
  BY <1>5, <1>6, <1>9
<1>11. Destinations(mounts) = {<<"sys">>} \union bare
  BY <1>5, <1>6, <1>9 DEF Destinations
<1> QED BY <1>1, <1>10, <1>11 DEF mounts, bare

LEMMA RootsLinked ==
  ASSUME NEW c, ConfigurationOK(c), NEW reach
  PROVE  LET links == runtime_symlinks(c, c.gpu.readonly_roots, reach)
         IN /\ links \in Seq([path : Path, target : Path])
            /\ LinkPaths(links) = Linked(c, reach)
            /\ \A l \in ToSet(links) : l.path \in Path /\ l.target = realpath(c.host, l.path) /\ l.target # l.path
            /\ \A i, j \in 1 .. Len(links) : links[i].path = links[j].path => i = j
<1> DEFINE links == runtime_symlinks(c, c.gpu.readonly_roots, reach)
           S == Linked(c, reach)
           paths == Sorted(S)
<1>1. links = [i \in DOMAIN paths |-> [path |-> paths[i], target |-> realpath(c.host, paths[i])]]
  BY DEF runtime_symlinks, Linked, Destinations
<1>2. IsFiniteSet(S) /\ S \subseteq Path
  <2>1. S \in SUBSET c.gpu.readonly_roots
    BY DEF Linked
  <2>2. IsFiniteSet(c.gpu.readonly_roots) /\ c.gpu.readonly_roots \subseteq Path
    BY ConfigurationIs
  <2> HIDE DEF S
  <2> QED BY <2>1, <2>2, FS_Subset
<1>3. \A p \in S : realpath(c.host, p) # p
  BY DEF Linked
<1>4. links \in Seq([path : Path, target : Path])
  BY RootsNamed
<1> HIDE DEF S, links
<1>5. paths \in Seq(S) /\ ToSet(paths) = S /\ Distinct(paths)
  BY <1>2, SortedIs
<1> HIDE DEF paths
<1>6. Len(paths) \in Nat /\ DOMAIN paths = 1 .. Len(paths) /\ \A i \in DOMAIN paths : paths[i] \in S
  BY <1>5
<1>7. Len(links) = Len(paths) /\ DOMAIN links = 1 .. Len(paths)
  <2>1. DOMAIN links = 1 .. Len(paths)
    BY <1>1, <1>6
  <2>2. Len(links) \in Nat /\ DOMAIN links = 1 .. Len(links)
    <3> DEFINE L == [path : Path, target : Path]
    <3>1. links \in Seq(L)
      BY <1>4
    <3> HIDE DEF L
    <3> QED BY <3>1
  <2>3. Len(links) = Len(paths)
    BY <1>6, <2>1, <2>2
  <2> QED BY <2>1, <2>3
<1>8. \A i \in 1 .. Len(paths) : links[i].path = paths[i] /\ links[i].target = realpath(c.host, paths[i])
  BY <1>1, <1>6
<1>9. ToSet(links) = {links[i] : i \in 1 .. Len(paths)} /\ S = {paths[i] : i \in 1 .. Len(paths)}
  BY <1>5, <1>6, <1>7 DEF ToSet
<1>10. LinkPaths(links) = S
  BY <1>8, <1>9 DEF LinkPaths
<1>11. \A l \in ToSet(links) : l.path \in Path /\ l.target = realpath(c.host, l.path) /\ l.target # l.path
  BY <1>2, <1>3, <1>6, <1>8, <1>9
<1>12. \A i, j \in 1 .. Len(links) : links[i].path = links[j].path => i = j
  BY <1>5, <1>6, <1>7, <1>8 DEF Distinct
<1> QED BY <1>4, <1>10, <1>11, <1>12 DEF links, S

\* A session goes on from the resolution with roots that may be shown, and what is
\* mounted and linked for them; and with a policy that did not fail.
ResolvedRoots ==
  /\ \A r \in scene.gpu.readonly_roots : ~UnsafeRuntimeRoot(scene, r)
  /\ gpu.readonly_mounts = runtime_mounts(scene, scene.gpu.readonly_roots, covered(manifest))
  /\ gpu.symlinks = runtime_symlinks(scene, scene.gpu.readonly_roots, covered(manifest))
ResolvedInv ==
  /\ gpu \in {disabled, failed} \/ ResolvedRoots
  /\ pc \notin {"resolve", "refused"} => ~policy_fails(scene) /\ gpu # failed

LEMMA ManifestResolved == Spec => []ResolvedInv
<1>1. Init => ResolvedInv
  BY DEF Init, ResolvedInv
<1>2. ResolvedInv /\ [Next]_vars => ResolvedInv'
  <2> SUFFICES ASSUME ResolvedInv, [Next]_vars PROVE ResolvedInv'
    OBVIOUS
  <2>1. CASE Resolve
    <3>1. /\ scene' = scene /\ gpu' = resolve(scene, covered(manifest), hw)
          /\ pc' = IF policy_fails(scene) \/ gpu' = failed THEN "refused" ELSE "emit"
      BY <2>1 DEF Resolve
    <3>2. manifest' = manifest
      BY <3>1 DEF manifest
    <3>3. gpu' \in {disabled, failed} \/ ResolvedRoots'
      BY <3>1, <3>2 DEF resolve, ResolvedRoots
    <3>4. pc' \notin {"resolve", "refused"} => ~policy_fails(scene') /\ gpu' # failed
      BY <3>1
    <3> QED BY <3>3, <3>4 DEF ResolvedInv
  <2>2. CASE scene' = scene /\ gpu' = gpu /\ (pc \in {"resolve", "refused"} => pc' = pc)
    BY <2>2 DEF ResolvedInv, ResolvedRoots, manifest
  <2>3. ASSUME DaemonStep PROVE scene' = scene /\ gpu' = gpu /\ (pc \in {"resolve", "refused"} => pc' = pc)
    BY <2>3 DEF DaemonStep, Discover, Validate, Emit, LaunchBubblewrap, BindNode, EnterBootstrap,
                Acknowledge, Release, RunCommand, OnHost, Inside
  <2>4. ASSUME Connect \/ ReloadKfd \/ (\E p \in Pci : Unplug(p) \/ Plug(p)) \/ UNCHANGED vars
        PROVE  scene' = scene /\ gpu' = gpu /\ (pc \in {"resolve", "refused"} => pc' = pc)
    BY <2>4 DEF Connect, ReloadKfd, Unplug, Plug, Changes, vars
  <2> QED BY <2>1, <2>2, <2>3, <2>4 DEF Next
<1> QED BY <1>1, <1>2, PTL DEF Spec

LEMMA ResolvedMounts ==
  ASSUME scene \in Scenes, GpuPathsOK(gpu), gpu \in {disabled, failed} \/ ResolvedRoots
  PROVE  GpuMountsOK(scene.host, gpu)
<1>1. ConfigurationOK(scene)
  BY SceneAssumption
<1>2. CASE gpu \in {disabled, failed}
  <2>1. gpu.readonly_mounts = <<>> /\ gpu.symlinks = <<>>
    BY <1>2 DEF disabled, failed
  <2> QED BY <2>1 DEF GpuMountsOK, ToSet
<1>3. CASE ResolvedRoots
  <2>1. \A e \in ToSet(gpu.readonly_mounts) : e.source = e.destination
    BY <1>1, <1>3, RootsMounted DEF ResolvedRoots
  <2>2. \A l \in ToSet(gpu.symlinks) : l.target = realpath(scene.host, l.path) /\ l.target # l.path
    BY <1>1, <1>3, RootsLinked DEF ResolvedRoots
  <2> QED BY <2>1, <2>2 DEF GpuMountsOK
<1> QED BY <1>2, <1>3

\* Whatever is to be masked is, each mask is made on what it was recorded for, and of a
\* trusted project exactly the files that are meant to be can be read.
THEOREM MasksHidden == Spec => []MasksHide
<1>1. IInv /\ GpuPathsOK(gpu) /\ ResolvedInv => MasksHide
  <2> SUFFICES ASSUME scene \in Scenes, GpuPathsOK(gpu), ResolvedInv, Planned PROVE MasksHide
    BY DEF IInv, MasksHide
  <2> DEFINE c == scene
             m == compile_policy(c)
             plan == emit_bwrap(m, gpu)
             masks == {i \in DOMAIN plan : plan[i].op \in Masking}
             masked == {x.path : x \in raw_masks(c)}
             projects == collect_trusted_projects(c)
             reserved == UNION {metadata(r) : r \in projects \union {c.workspace}}
  <2>1. ConfigurationOK(c) /\ GpuMountsOK(c.host, gpu) /\ ~policy_fails(c)
    BY SceneAssumption, ResolvedMounts DEF ResolvedInv, Planned
  <2>2. plan = args
    BY DEF args, manifest
  <2>3. ASSUME NEW x \in raw_masks(c) PROVE View(c.host, plan, x.path).op \in Masking
    <3>1. x.path \in Path
      BY <2>1, RawMasksAre
    <3>2. WithinAny(x.path, masked)
      BY <3>1, WithinSelf DEF WithinAny
    <3> HIDE DEF masked
    <3> QED BY <2>1, <3>1, <3>2, PlanSeen DEF masked
  <2>4. ASSUME NEW i \in masks
        PROVE  /\ \A j \in masks : j < i /\ plan[j].op = "empty" => ~is_within(plan[i].dst, plan[j].dst)
               /\ View(c.host, SubSeq(plan, 1, i - 1), plan[i].dst).shows = plan[i].dst
    BY <2>1, <2>4, MasksInOrder
  <2>5. ASSUME NEW f \in DOMAIN c.host.kind, c.host.kind[f] = "file", WithinAny(f, projects),
               ~is_within(f, c.workspace)
        PROVE  View(c.host, plan, f).shows = f <=>
                 ~WithinAny(f, reserved) /\ (Last(f) \in c.deny => WithinAny(f, allow_paths(c)))
    BY <2>1, <2>5, ProjectFiles
  <2> HIDE DEF plan, c, m
  <2> QED BY <2>2, <2>3, <2>4, <2>5 DEF MasksHide, See, Masking, c
<1> QED BY <1>1, LaunchInvariant, ManifestNamed, ManifestResolved, PTL

----------------------------------------------------------------------------
(* The runtime's directories *)

\* What can be reached for a session that goes on is what its manifest covers, with the
\* mounts of the runtime's roots; each of those lies in it by its canonical path.
LEMMA RootsReached ==
  ASSUME scene \in Scenes, GpuPathsOK(gpu), ResolvedRoots, NEW root \in scene.gpu.readonly_roots
  PROVE  /\ Reach(manifest, gpu) = covered(manifest) \union Destinations(gpu.readonly_mounts)
         /\ WithinAny(realpath(scene.host, root), Reach(manifest, gpu))
<1> DEFINE c == scene
           reach == covered(manifest)
           source == realpath(c.host, root)
           all == Reach(manifest, gpu)
           above == {q \in Candidates(c) : is_within(source, q)}
<1>1. ConfigurationOK(c)
  BY SceneAssumption
<1>2. all = reach \union Destinations(gpu.readonly_mounts)
  BY DEF Reach, Destinations
<1>3. /\ Destinations(gpu.readonly_mounts) = {<<"sys">>} \union Bare(c, reach)
      /\ Candidates(c) \subseteq Path
  BY <1>1, RootsMounted DEF ResolvedRoots
<1>4. all \subseteq Path
  <2>1. readonly(manifest, gpu) \in Seq(Entry)
        /\ {e.destination : e \in ToSet(readonly(manifest, gpu))} = all
    <3>1. HostOK(c.host) /\ GpuMountsOK(c.host, gpu)
      BY <1>1, ResolvedMounts DEF ConfigurationOK
    <3> QED BY <1>1, <3>1, ReadOnlyReach DEF manifest
  <2> HIDE DEF all
  <2>2. \A e \in ToSet(readonly(manifest, gpu)) : e \in Entry
    BY <2>1 DEF ToSet
  <2> QED BY <2>1, <2>2 DEF Entry
<1>5. source \in Path /\ source \in Candidates(c)
  BY <1>3 DEF Candidates
<1> HIDE DEF source, reach, all
<1>6. above \subseteq Path /\ above # {}
  BY <1>3, <1>5, WithinSelf
<1>7. PICK q \in above : \A r \in above : is_within(q, r) => r = q
  BY <1>6, ShortestOf
<1>8. ASSUME q \in Bare(c, reach) PROVE WithinAny(source, all)
  BY <1>2, <1>3, <1>7, <1>8 DEF WithinAny
<1>9. ASSUME q \notin Bare(c, reach) PROVE WithinAny(source, all)
  <2>1. PICK x \in reach \union {<<"sys">>} \union (Candidates(c) \ {q}) : is_within(q, x)
    BY <1>7, <1>9 DEF Bare, WithinAny
  <2>2. x \in Path
    BY <1>2, <1>3, <1>4, <2>1
  <2>3. is_within(source, x)
    BY <1>5, <1>6, <1>7, <2>1, <2>2, WithinTransitive
  <2>4. x \notin Candidates(c) \ {q}
    BY <1>7, <2>1, <2>3
  <2> QED BY <1>2, <1>3, <2>1, <2>3, <2>4 DEF WithinAny
<1> QED BY <1>2, <1>8, <1>9 DEF all, source, reach

\* A root that may be shown lies neither in the workspace nor among the devices.
LEMMA RootsApart ==
  ASSUME NEW c, ConfigurationOK(c), NEW root \in c.gpu.readonly_roots, ~UnsafeRuntimeRoot(c, root),
         NEW p \in {root, realpath(c.host, root)}
  PROVE  p \in Path /\ ~is_within(p, c.workspace) /\ ~is_within(p, <<"dev">>)
<1>1. root \in Path /\ realpath(c.host, root) \in Path
  BY ConfigurationIs, RealpathIs
<1>2. ~overlaps(p, c.workspace) /\ ~overlaps(p, <<"dev">>)
  BY DEF UnsafeRuntimeRoot, PRIVATE_MOUNT_ROOTS
<1> QED BY <1>1, <1>2 DEF overlaps

\* A path that a link leads to, and no other that is made leads away from, shows its target.
LEMMA LinkSeen ==
  ASSUME NEW host, NEW gpus, GpuMountsOK(host, gpus), NEW p \in Path, Covered(SymlinkOps(gpus), p),
         ~\E l \in ToSet(gpus.symlinks) : IsStrictPrefix(l.path, p)
  PROVE  View(host, SymlinkOps(gpus), p).shows = realpath(host, p)
<1> DEFINE d == SymlinkOps(gpus)
           s == gpus.symlinks
<1>1. GpuPathsOK(gpus)
  BY DEF GpuMountsOK
<1>2. /\ Len(d) = Len(s) /\ DOMAIN s = 1 .. Len(s)
      /\ \A i \in 1 .. Len(s) : d[i] = Op("symlink", s[i].target, s[i].path)
  BY <1>1, SymlinksCover
<1>3. d \in Seq(Operations(Showing))
  BY <1>1, SymlinkOpsAre
<1> HIDE DEF d, s
<1>4. PICK i \in 1 .. Len(d) : is_within(p, d[i].dst) /\ View(host, d, p) = Shown(host, d[i], p)
  BY <1>3, SeenThroughOne DEF d
<1>5. d[i].op = "symlink" /\ d[i].src = s[i].target /\ d[i].dst = s[i].path
  <2>1. d[i] = Op("symlink", s[i].target, s[i].path)
    BY <1>2, <1>4
  <2> QED BY <2>1 DEF Op
<1>6. s[i] \in ToSet(s)
  BY <1>2, <1>4 DEF ToSet
<1>7. s[i].path = p
  BY <1>4, <1>5, <1>6 DEF s, IsStrictPrefix, is_within
<1>8. s[i].target = realpath(host, p) /\ s[i].target \in Path
  <2>1. s[i].target = realpath(host, p)
    BY <1>6, <1>7 DEF GpuMountsOK, s
  <2>2. d[i] \in Operations(Showing)
    BY <1>3, <1>4, ElementOfSeq
  <2> QED BY <1>5, <2>1, <2>2 DEF Operations
<1>9. s[i].target \o SubSeq(p, Len(p) + 1, Len(p)) = s[i].target
  <2> DEFINE N == ToSet(Names)
  <2>1. p \in Seq(N) /\ s[i].target \in Seq(N)
    BY <1>8 DEF Path
  <2> HIDE DEF N
  <2>2. SubSeq(p, Len(p) + 1, Len(p)) = <<>>
    BY <2>1
  <2> QED BY <2>1, <2>2
<1>10. View(host, d, p).shows = s[i].target
  BY <1>4, <1>5, <1>7, <1>9 DEF Shown
<1> QED BY <1>8, <1>10 DEF d

\* A link that lies below no other one is made in a file system of the sandbox's own.
LEMMA LinkPlaced ==
  ASSUME scene \in Scenes, GpuPathsOK(gpu), ResolvedRoots,
         NEW i \in DOMAIN args, args[i].op = "symlink",
         ~\E l \in ToSet(gpu.symlinks) : IsStrictPrefix(l.path, args[i].dst)
  PROVE  View(scene.host, SubSeq(args, 1, i - 1), args[i].dst).op = "tmpfs"
<1> DEFINE host == scene.host
           all == readonly(manifest, gpu)
           a == private_ops(manifest)
           b == ReadOnlyOps(Prune(all))
           d == SymlinkOps(gpu)
           s == gpu.symlinks
           any == Operations(AnyKind)
           p == args[i].dst
           plan == args
<1>1. ConfigurationOK(scene) /\ HostOK(host) /\ GpuMountsOK(host, gpu)
  BY SceneAssumption, ResolvedMounts DEF ConfigurationOK
<1>2. PICK k \in 1 .. Len(s) : LinkPlace(manifest, gpu, i, k)
  BY <1>1, LinkPlaces DEF args, manifest
<1>3. p = s[k].path /\ SubSeq(plan, 1, i - 1) = a \o b \o SubSeq(d, 1, k - 1)
  BY <1>2 DEF LinkPlace, args
<1>4. /\ Len(d) = Len(s) /\ DOMAIN s = 1 .. Len(s) /\ d \in Seq(Operations(Showing))
      /\ \A h \in 1 .. Len(s) : d[h] = Op("symlink", s[h].target, s[h].path)
  BY SymlinksCover, SymlinkOpsAre
<1>5. /\ s \in Seq([path : Path, target : Path])
      /\ LinkPaths(s) = Linked(scene, covered(manifest))
      /\ \A l \in ToSet(s) : l.path \in Path
      /\ \A h, j \in 1 .. Len(s) : s[h].path = s[j].path => h = j
  <2> DEFINE links == runtime_symlinks(scene, scene.gpu.readonly_roots, covered(manifest))
  <2>1. /\ links \in Seq([path : Path, target : Path])
        /\ LinkPaths(links) = Linked(scene, covered(manifest))
        /\ \A l \in ToSet(links) : l.path \in Path
        /\ \A h, j \in 1 .. Len(links) : links[h].path = links[j].path => h = j
    BY <1>1, RootsLinked
  <2>2. s = links
    BY DEF ResolvedRoots
  <2> HIDE DEF links, s
  <2> QED BY <2>1, <2>2
<1>6. all \in Seq(Entry) /\ (\A e \in ToSet(all) : Faithful(host, e))
      /\ {e.destination : e \in ToSet(all)} = Reach(manifest, gpu)
  BY <1>1, ReadOnlyReach DEF manifest
<1>7. s[k] \in ToSet(s) /\ p \in Path /\ p \in Linked(scene, covered(manifest))
  <2> HIDE DEF s, p, plan
  <2>1. s[k] \in ToSet(s)
    BY <1>2, <1>4 DEF ToSet
  <2> QED BY <1>3, <1>5, <2>1 DEF LinkPaths
<1>8. ~WithinAny(p, Reach(manifest, gpu))
  <2>1. ~WithinAny(p, covered(manifest) \union Destinations(gpu.readonly_mounts))
    BY <1>7 DEF Linked, ResolvedRoots
  <2>2. Reach(manifest, gpu) = covered(manifest) \union Destinations(gpu.readonly_mounts)
    BY DEF Reach, Destinations
  <2> HIDE DEF p
  <2> QED BY <2>1, <2>2
<1>9. \A l \in ToSet(s) : is_within(p, l.path) => l.path = p
  BY DEF is_within, IsStrictPrefix
<1> HIDE DEF p, s, plan, all, host
<1>10. ~Covered(b, p)
  BY <1>1, <1>6, <1>7, <1>8, ReadOnlySeen
<1>11. a \in Seq(Operations(Showing)) /\ b \in Seq(Operations(Showing)) /\ Covered(a, p)
  <2>1. manifest.home \in Path
    BY <1>1, ConfigurationIs DEF manifest, compile_policy
  <2>2. Prune(all) \in Seq(Entry)
    BY <1>6, PruneIs
  <2> HIDE DEF a
  <2> QED BY <1>7, <2>1, <2>2, PrivateOpsAre, ReadOnlyOpsAre DEF a
<1> DEFINE earlier == SubSeq(d, 1, k - 1)
           ab == a \o b
<1> HIDE DEF d
<1>12. earlier \in Seq(Operations(Showing)) /\ Len(earlier) = k - 1 /\ \A h \in 1 .. k - 1 : earlier[h] = d[h]
  <2>1. Len(s) \in Nat /\ k - 1 \in 0 .. Len(d)
    BY <1>2, <1>4
  <2> QED BY <1>4, <2>1, BeginningIs
<1> HIDE DEF earlier
<1>13. ~Covered(earlier, p)
  <2> SUFFICES ASSUME NEW h \in 1 .. k - 1, is_within(p, earlier[h].dst) PROVE FALSE
    BY <1>12 DEF Covered
  <2>1. h \in 1 .. Len(s) /\ h # k
    BY <1>2, <1>4
  <2>2. earlier[h].dst = s[h].path
    BY <1>4, <1>12, <2>1, OpAt
  <2>3. s[h] \in ToSet(s)
    BY <1>4, <2>1 DEF ToSet
  <2>4. s[h].path = s[k].path
    BY <1>3, <1>9, <2>2, <2>3
  <2> QED BY <1>2, <1>5, <2>1, <2>4
<1>14. View(host, a, p).op = "tmpfs"
  <2> HIDE DEF a
  <2>1. PICK h \in 1 .. Len(a) : View(host, a, p) = Shown(host, a[h], p)
    BY <1>11, SeenThroughOne
  <2>2. h \in DOMAIN a
    BY <1>11, <2>1, LenProperties
  <2>3. a[h].op = "tmpfs"
    BY <2>2, KindsApart DEF a
  <2> QED BY <2>1, <2>3 DEF Shown
<1> HIDE DEF a, b
<1>15. ab \in Seq(Operations(Showing)) /\ Covered(ab, p) /\ View(host, ab, p) = View(host, a, p)
  BY <1>10, <1>11, ConcatProperties, ViewJoined
<1> HIDE DEF ab
<1>16. View(host, ab \o earlier, p) = View(host, ab, p)
  BY <1>12, <1>13, <1>15, ViewJoined
<1>17. SubSeq(plan, 1, i - 1) = ab \o earlier
  BY <1>3 DEF ab, earlier
<1> QED BY <1>14, <1>15, <1>16, <1>17 DEF host, plan, p

\* Each of the runtime's roots is found by the name it was configured with and where
\* that leads, and links are made only where nothing of the host is shown.
THEOREM RootsFound == Spec => []RuntimeRootsReachable
<1>1. IInv /\ GpuPathsOK(gpu) /\ ResolvedInv => RuntimeRootsReachable
  <2> SUFFICES ASSUME scene \in Scenes, GpuPathsOK(gpu), ResolvedInv, Planned, gpu # disabled
               PROVE  RuntimeRootsReachable
    BY DEF IInv, RuntimeRootsReachable
  <2> DEFINE c == scene
             host == c.host
             base == Base(manifest, gpu)
             masked == {x.path : x \in raw_masks(c)}
             below(path) == \E l \in ToSet(gpu.symlinks) : IsStrictPrefix(l.path, path)
  <2>1. ResolvedRoots
    BY DEF ResolvedInv, Planned
  <2>2. ConfigurationOK(c) /\ HostOK(host) /\ GpuMountsOK(host, gpu)
    BY <2>1, SceneAssumption, ResolvedMounts DEF ConfigurationOK
  <2>3. ASSUME NEW p \in Path, ~WithinAny(p, masked) PROVE View(host, args, p) = View(host, base, p)
    BY <2>2, <2>3, PlanSeen DEF args, manifest
  <2>4. ASSUME NEW root \in c.gpu.readonly_roots, NEW p \in {root, realpath(host, root)}
        PROVE  /\ p \in Path
               /\ Covered(SymlinkOps(gpu), p) => View(host, base, p) = View(host, SymlinkOps(gpu), p)
               /\ ~Covered(SymlinkOps(gpu), p) /\ WithinAny(p, Reach(manifest, gpu)) =>
                    View(host, base, p) = [op |-> "ro-bind", shows |-> realpath(host, p)]
    <3>1. p \in Path /\ ~is_within(p, c.workspace) /\ ~is_within(p, <<"dev">>)
      BY <2>1, <2>2, RootsApart DEF ResolvedRoots
    <3> QED BY <2>2, <3>1, BaseSeen DEF manifest
  <2>5. ASSUME NEW root \in c.gpu.readonly_roots
        PROVE  View(host, base, realpath(host, root)) = [op |-> "ro-bind", shows |-> realpath(host, root)]
    <3> DEFINE source == realpath(host, root)
    <3>1. root \in Path /\ source \in Path /\ Canonical(host, source) /\ realpath(host, source) = source
      BY <2>2, <2>4, RealpathCanonical, CanonicalStays
    <3>2. ~Covered(SymlinkOps(gpu), source)
      BY <2>2, <3>1, CanonicalUnlinked
    <3>3. WithinAny(source, Reach(manifest, gpu))
      BY <2>1, RootsReached
    <3> QED BY <2>4, <3>1, <3>2, <3>3
  <2>6. ASSUME NEW root \in c.gpu.readonly_roots, ~below(root)
        PROVE  View(host, base, root).shows = realpath(host, root)
    <3>1. root \in Path
      BY <2>4
    <3>2. CASE realpath(host, root) = root
      <4>1. View(host, base, realpath(host, root)) = [op |-> "ro-bind", shows |-> realpath(host, root)]
        BY <2>5
      <4> HIDE DEF base, host
      <4> QED BY <3>2, <4>1
    <3>3. CASE Covered(SymlinkOps(gpu), root)
      <4>1. View(host, SymlinkOps(gpu), root).shows = realpath(host, root)
        BY <2>2, <2>6, <3>1, <3>3, LinkSeen
      <4> QED BY <2>4, <3>3, <4>1
    <3>4. CASE realpath(host, root) # root /\ ~Covered(SymlinkOps(gpu), root)
      <4>1. root \notin LinkPaths(gpu.symlinks)
        <5> SUFFICES ASSUME NEW l \in ToSet(gpu.symlinks), l.path = root PROVE FALSE
          BY DEF LinkPaths
        <5>1. is_within(root, l.path)
          BY <3>1, WithinSelf
        <5> QED BY <3>4, <5>1, SymlinksCover
      <4>2. LinkPaths(gpu.symlinks) = Linked(c, covered(manifest))
        BY <2>1, <2>2, RootsLinked DEF ResolvedRoots
      <4>3. WithinAny(root, covered(manifest) \union Destinations(gpu.readonly_mounts))
        BY <2>1, <3>4, <4>1, <4>2 DEF Linked, ResolvedRoots
      <4>4. WithinAny(root, Reach(manifest, gpu))
        BY <4>3 DEF Reach, Destinations
      <4>5. View(host, base, root) = [op |-> "ro-bind", shows |-> realpath(host, root)]
        BY <2>4, <3>4, <4>4
      <4> QED BY <4>5
    <3> QED BY <3>2, <3>3, <3>4
  <2>7. ASSUME NEW i \in DOMAIN args, args[i].op = "symlink", ~below(args[i].dst)
        PROVE  View(host, SubSeq(args, 1, i - 1), args[i].dst).op = "tmpfs"
    BY <2>1, <2>7, LinkPlaced
  <2>8. \A root \in c.gpu.readonly_roots :
          /\ ~WithinAny(realpath(host, root), masked) =>
               View(host, args, realpath(host, root)) = [op |-> "ro-bind", shows |-> realpath(host, root)]
          /\ ~WithinAny(root, masked) /\ ~below(root) =>
               View(host, args, root).shows = realpath(host, root)
    <3> TAKE root \in c.gpu.readonly_roots
    <3>1. root \in Path /\ realpath(host, root) \in Path
      BY <2>4
    <3> HIDE DEF masked, base, below
    <3> QED BY <2>3, <2>5, <2>6, <3>1
  <2> HIDE DEF base
  <2> QED BY <2>7, <2>8 DEF RuntimeRootsReachable, See
<1> QED BY <1>1, LaunchInvariant, ManifestNamed, ManifestResolved, PTL

----------------------------------------------------------------------------
(* A host that stays as it is *)

\* /sys is none of the sandbox's own file systems.
LEMMA SysApart == ~conflicts_private_mount(<<"sys">>)
<1> SUFFICES ASSUME NEW private \in PRIVATE_MOUNT_ROOTS, overlaps(<<"sys">>, private) PROVE FALSE
  BY DEF conflicts_private_mount
<1> DEFINE own == {"tmp", "run", "proc", "dev"}
           all == own \union {"sys"}
           s == <<"sys">>
<1>1. PICK name \in own : private = <<name>>
  BY DEF PRIVATE_MOUNT_ROOTS
<1>2. name # "sys"
  OBVIOUS
<1>3. name \in all /\ "sys" \in all
  OBVIOUS
<1> HIDE DEF own, all
<1>4. s \in Seq(all) /\ Len(s) = 1 /\ s[1] = "sys"
  BY <1>3
<1>5. private \in Seq(all) /\ Len(private) = 1 /\ private[1] = name
  BY <1>1, <1>3
<1>6. IsPrefix(private, s) \/ IsPrefix(s, private)
  BY DEF overlaps, is_within
<1> HIDE DEF s
<1>7. s[1] = private[1]
  BY <1>4, <1>5, <1>6, PrefixIs
<1> QED BY <1>2, <1>4, <1>5, <1>7

\* A resolution that succeeds, with a request.
Resolved(c, reach, h, r) ==
  /\ ~SelectionFails(c.gpu, h.sys)
  /\ \A p \in NodePaths(c.gpu, h.sys) : NodeValid(h.dev, h.sys, p, OwnerIn(selected(c.gpu, h.sys), p))
  /\ \A root \in c.gpu.readonly_roots : ~UnsafeRuntimeRoot(c, root)
  /\ r.provider = "amd" /\ r.features = c.gpu.features /\ c.gpu.features # {}
  /\ r.devices = selected(c.gpu, h.sys)
  /\ r.nodes = {NodeAt(h.dev, p) : p \in NodePaths(c.gpu, h.sys)}
  /\ r.readonly_mounts = runtime_mounts(c, c.gpu.readonly_roots, reach)
  /\ r.symlinks = runtime_symlinks(c, c.gpu.readonly_roots, reach)

LEMMA ResolvedIs ==
  ASSUME NEW c, NEW reach, NEW h, NEW r, r = resolve(c, reach, h), r # failed
  PROVE  r = disabled \/ Resolved(c, reach, h, r)
<1>1. CASE c.gpu.features = {}
  BY <1>1 DEF resolve
<1>2. CASE c.gpu.features # {}
  <2> DEFINE bad == \/ SelectionFails(c.gpu, h.sys)
                    \/ \E p \in NodePaths(c.gpu, h.sys) :
                         ~NodeValid(h.dev, h.sys, p, OwnerIn(selected(c.gpu, h.sys), p))
                    \/ \E root \in c.gpu.readonly_roots : UnsafeRuntimeRoot(c, root)
  <2>1. r = IF bad THEN failed
            ELSE [provider |-> "amd", features |-> c.gpu.features,
                  devices |-> selected(c.gpu, h.sys),
                  nodes |-> {NodeAt(h.dev, p) : p \in NodePaths(c.gpu, h.sys)},
                  readonly_mounts |-> runtime_mounts(c, c.gpu.readonly_roots, reach),
                  symlinks |-> runtime_symlinks(c, c.gpu.readonly_roots, reach)]
    BY <1>2 DEF resolve
  <2>2. ~bad
    BY <2>1
  <2>3. /\ r.provider = "amd" /\ r.features = c.gpu.features /\ r.devices = selected(c.gpu, h.sys)
        /\ r.nodes = {NodeAt(h.dev, p) : p \in NodePaths(c.gpu, h.sys)}
        /\ r.readonly_mounts = runtime_mounts(c, c.gpu.readonly_roots, reach)
        /\ r.symlinks = runtime_symlinks(c, c.gpu.readonly_roots, reach)
    BY <2>1, <2>2
  <2> QED BY <1>2, <2>2, <2>3 DEF Resolved
<1> QED BY <1>1, <1>2

\* The cards that were selected differ in their nodes, and all of them are there.
LEMMA CardsAccepted ==
  ASSUME NEW c, NEW reach, NEW h, HardwareOK(h), NEW r, Resolved(c, reach, h, r)
  PROVE  /\ r.devices # {} /\ DevicesUnchanged(r, discover(h.sys))
         /\ \A d \in r.devices : d.vendor = AMD /\ d.render_nodes # {} /\ KFD \notin d.render_nodes
         /\ \A d, e \in r.devices : d # e => d.render_nodes \cap e.render_nodes = {}
<1>1. r.devices # {} /\ r.devices \subseteq discover(h.sys)
  BY DEF Resolved, SelectionFails, selected
<1>2. KFD \notin DOMAIN h.sys.render
  BY RendersAssumption DEF HardwareOK
<1> DEFINE Card(p) == [pci |-> p, vendor |-> h.sys.card[p].vendor, device |-> h.sys.card[p].device,
                       driver |-> h.sys.card[p].driver,
                       render_nodes |-> {x \in DOMAIN h.sys.render : h.sys.render[x] = p}]
<1>3. ASSUME NEW d \in discover(h.sys)
      PROVE  /\ d.vendor = AMD /\ d.render_nodes # {} /\ KFD \notin d.render_nodes
             /\ \A x \in d.render_nodes : h.sys.render[x] = d.pci
             /\ d = Card(d.pci)
  BY <1>2 DEF discover
<1> HIDE DEF Card
<1>4. ASSUME NEW d \in discover(h.sys), NEW e \in discover(h.sys),
             NEW x \in d.render_nodes, x \in e.render_nodes
      PROVE  d = e
  <2>1. d.pci = e.pci
    BY <1>3, <1>4
  <2> QED BY <1>3, <2>1
<1> QED BY <1>1, <1>3, <1>4 DEF DevicesUnchanged

\* There are as many render nodes as names, or fewer.
LEMMA RendersFinite == IsFiniteSet(Renders)
<1> DEFINE n == Len(Names)
<1>1. n \in Nat /\ DOMAIN Names = 1 .. n
  BY NamesAssumption DEF Path
<1>2. ToSet(Names) = {Names[i] : i \in 1 .. n}
  BY <1>1 DEF ToSet
<1> HIDE DEF n
<1>3. IsFiniteSet(ToSet(Names))
  <2> DEFINE I == 1 .. n
  <2>1. IsFiniteSet(I)
    BY <1>1, FS_Interval
  <2>2. ToSet(Names) = {Names[i] : i \in I}
    BY <1>2
  <2> HIDE DEF I
  <2>3. IsFiniteSet({Names[i] : i \in I})
    BY <2>1, ImageFinite
  <2> QED BY <2>2, <2>3
<1>4. Renders \in SUBSET ToSet(Names)
  BY RendersAssumption
<1> QED BY <1>3, <1>4, FS_Subset

\* Each node is written down once, and found again.
LEMMA NodesAccepted ==
  ASSUME NEW c, NEW reach, NEW h, HardwareOK(h), NEW r, Resolved(c, reach, h, r)
  PROVE  /\ {n.path : n \in r.nodes} =
              (UNION {d.render_nodes : d \in r.devices}) \union IF "compute" \in r.features THEN {KFD} ELSE {}
         /\ Cardinality({n.path : n \in r.nodes}) = Cardinality(r.nodes)
         /\ \A node \in r.nodes : NodeUnchanged(r, h.dev, h.sys, node)
<1> DEFINE paths == NodePaths(c.gpu, h.sys)
           names == {n.path : n \in r.nodes}
<1>1. r.nodes = {NodeAt(h.dev, p) : p \in paths}
  BY DEF Resolved
<1>2. \A p \in paths : NodeAt(h.dev, p).path = p
  BY DEF NodeAt
<1>3. names = paths
  BY <1>1, <1>2
<1>4. paths = (UNION {d.render_nodes : d \in r.devices}) \union IF "compute" \in r.features THEN {KFD} ELSE {}
  BY DEF NodePaths, Resolved
<1>5. \A p \in paths : NodeValid(h.dev, h.sys, p, OwnerIn(r.devices, p))
  BY DEF Resolved
<1>6. IsFiniteSet(paths)
  <2>1. paths \subseteq Renders \union {KFD}
    BY <1>5 DEF NodeValid, HardwareOK
  <2> HIDE DEF paths
  <2> QED BY <2>1, RendersFinite, FS_AddElement, FS_Subset
<1> HIDE DEF paths
<1>7. Cardinality(r.nodes) = Cardinality(paths)
  <2> DEFINE f == [p \in paths |-> NodeAt(h.dev, p)]
  <2>1. f \in [paths -> r.nodes] /\ \A n \in r.nodes : \E p \in paths : f[p] = n
    BY <1>1
  <2>2. \A p, q \in paths : f[p] = f[q] => p = q
    BY <1>2
  <2> HIDE DEF f
  <2>3. f \in Bijection(paths, r.nodes)
    BY <2>1, <2>2 DEF Bijection, Injection, Surjection, IsInjective
  <2>4. ExistsBijection(paths, r.nodes)
    BY <2>3 DEF ExistsBijection
  <2> QED BY <1>6, <2>4, FS_Bijection
<1>8. \A node \in r.nodes : NodeUnchanged(r, h.dev, h.sys, node)
  <2> SUFFICES ASSUME NEW p \in paths PROVE NodeUnchanged(r, h.dev, h.sys, NodeAt(h.dev, p))
    BY <1>1
  <2> QED BY <1>2, <1>5 DEF NodeUnchanged
<1> QED BY <1>3, <1>4, <1>7, <1>8

LEMMA ElementsIn ==
  ASSUME NEW T, NEW s \in Seq(T)
  PROVE  \A e \in ToSet(s) : e \in T
BY DEF ToSet

\* What is mounted and linked for the runtime may be, and is what the emitter looks for.
LEMMA RootsAccepted ==
  ASSUME NEW c, ConfigurationOK(c), NEW reach, NEW h, NEW r, Resolved(c, reach, h, r)
  PROVE  /\ SYS \in ToSet(r.readonly_mounts)
         /\ \A m \in ToSet(r.readonly_mounts) :
              /\ m.source = m.destination
              /\ m.source \notin {<<>>, <<"opt">>}
              /\ ~conflicts_private_mount(m.source)
              /\ realpath(c.host, m.source) = m.source /\ isdir(c.host, m.source)
         /\ \A l \in ToSet(r.symlinks) :
              /\ \A p \in {l.path, l.target} : ~conflicts_private_mount(p) /\ ~overlaps(p, <<"sys">>)
              /\ realpath(c.host, l.path) = l.target
<1> DEFINE roots == c.gpu.readonly_roots
           mounts == r.readonly_mounts
           links == r.symlinks
           sys == <<"sys">>
<1>1. HostOK(c.host) /\ roots \subseteq Path
  BY ConfigurationIs DEF ConfigurationOK
<1>2. ASSUME NEW root \in roots, NEW p \in {root, realpath(c.host, root)}
      PROVE  p \notin {<<>>, <<"opt">>} /\ ~conflicts_private_mount(p) /\ ~overlaps(p, <<"sys">>)
  <2>1. ~UnsafeRuntimeRoot(c, root)
    BY DEF Resolved
  <2> QED BY <2>1 DEF UnsafeRuntimeRoot, conflicts_private_mount
<1>3. ASSUME NEW root \in roots
      PROVE  LET p == realpath(c.host, root)
             IN realpath(c.host, p) = p /\ isdir(c.host, p)
  <2> DEFINE p == realpath(c.host, root)
  <2>1. realpath(c.host, p) = p
    BY <1>1, RealpathCanonical, CanonicalStays
  <2>2. ~UnsafeRuntimeRoot(c, root)
    BY DEF Resolved
  <2>3. isdir(c.host, root)
    BY <2>2 DEF UnsafeRuntimeRoot
  <2> QED BY <2>1, <2>3 DEF isdir
<1>4. /\ sys \notin {<<>>, <<"opt">>} /\ ~conflicts_private_mount(sys)
      /\ realpath(c.host, sys) = sys /\ isdir(c.host, sys)
  <2>1. sys \notin {<<>>, <<"opt">>}
    <3>1. Len(<<"sys">>) = 1 /\ Len(<<>>) = 0 /\ <<"sys">>[1] # <<"opt">>[1]
      OBVIOUS
    <3> QED BY <3>1
  <2>2. KindAt(c.host, sys) = "directory"
    BY <1>1 DEF HostOK
  <2>3. sys \in DOMAIN c.host.kind
    BY <2>2 DEF KindAt
  <2>4. realpath(c.host, sys) = sys
    BY <1>1, <2>2, <2>3, EntryCanonical, CanonicalStays
  <2> QED BY <2>1, <2>2, <2>4, SysApart DEF isdir
<1>5. /\ \A e \in ToSet(mounts) : e.source = e.destination
      /\ Destinations(mounts) = {sys} \union Bare(c, reach)
  BY RootsMounted DEF Resolved
<1>6. \A e \in ToSet(mounts) : e \in Entry
  <2>1. mounts \in Seq(Entry)
    BY RootsNamed DEF Resolved
  <2> HIDE DEF mounts
  <2> QED BY <2>1, ElementsIn
<1>7. \A l \in ToSet(links) : l.path \in roots /\ l.target = realpath(c.host, l.path)
  <2>1. /\ LinkPaths(links) = Linked(c, reach)
        /\ \A l \in ToSet(links) : l.target = realpath(c.host, l.path)
    BY RootsLinked DEF Resolved
  <2> QED BY <2>1 DEF LinkPaths, Linked
<1> HIDE DEF mounts, links, sys
<1>8. ASSUME NEW m \in ToSet(mounts)
      PROVE  m.source = sys \/ \E root \in roots : m.source = realpath(c.host, root)
  <2>1. m.source \in {sys} \union Bare(c, reach)
    BY <1>5 DEF Destinations
  <2> QED BY <2>1 DEF Bare, Candidates
<1>9. SYS \in ToSet(mounts)
  <2>1. PICK e \in ToSet(mounts) : e.destination = sys
    BY <1>5 DEF Destinations
  <2>2. e.source = sys /\ e \in Entry
    BY <1>5, <1>6, <2>1
  <2>3. e = [source |-> sys, destination |-> sys]
    BY <2>1, <2>2 DEF Entry
  <2> QED BY <2>1, <2>3 DEF SYS, sys
<1>10. ASSUME NEW m \in ToSet(mounts)
       PROVE  /\ m.source = m.destination
              /\ m.source \notin {<<>>, <<"opt">>}
              /\ ~conflicts_private_mount(m.source)
              /\ realpath(c.host, m.source) = m.source /\ isdir(c.host, m.source)
  BY <1>2, <1>3, <1>4, <1>5, <1>8
<1>11. ASSUME NEW l \in ToSet(links)
       PROVE  /\ \A p \in {l.path, l.target} : ~conflicts_private_mount(p) /\ ~overlaps(p, <<"sys">>)
              /\ realpath(c.host, l.path) = l.target
  BY <1>2, <1>7
<1> QED BY <1>9, <1>10, <1>11 DEF mounts, links

\* What a resolution has written every stage accepts, on the host it was made for.
LEMMA ResolvedAccepted ==
  ASSUME NEW c, ConfigurationOK(c), NEW reach, NEW h, HardwareOK(h), NEW r,
         r = resolve(c, reach, h), r # failed
  PROVE  /\ validate_schema(r) /\ DevicesUnchanged(r, discover(h.sys)) /\ SourcesUnchanged(c.host, r)
         /\ \A node \in r.nodes : NodeUnchanged(r, h.dev, h.sys, node)
<1>1. CASE r = disabled
  <2>1. r.devices = {} /\ r.nodes = {} /\ ToSet(r.readonly_mounts) = {} /\ ToSet(r.symlinks) = {}
    BY <1>1 DEF disabled, ToSet
  <2> QED BY <1>1, <2>1 DEF validate_schema, DevicesUnchanged, SourcesUnchanged
<1>2. CASE Resolved(c, reach, h, r)
  <2>1. r.provider = "amd" /\ r.features # {} /\ r.features \subseteq {"graphics", "compute"}
    BY <1>2 DEF Resolved, ConfigurationOK
  <2>2. validate_schema(r)
    <3>1. /\ r.devices # {}
          /\ \A d \in r.devices : d.vendor = AMD /\ d.render_nodes # {} /\ KFD \notin d.render_nodes
          /\ \A d, e \in r.devices : d # e => d.render_nodes \cap e.render_nodes = {}
      BY <1>2, CardsAccepted
    <3>2. /\ {n.path : n \in r.nodes} =
               (UNION {d.render_nodes : d \in r.devices}) \union IF "compute" \in r.features THEN {KFD} ELSE {}
          /\ Cardinality({n.path : n \in r.nodes}) = Cardinality(r.nodes)
      BY <1>2, NodesAccepted
    <3>3. /\ SYS \in ToSet(r.readonly_mounts)
          /\ \A m \in ToSet(r.readonly_mounts) :
               /\ m.source = m.destination
               /\ m.source \notin {<<>>, <<"opt">>}
               /\ ~conflicts_private_mount(m.source)
      BY <1>2, RootsAccepted
    <3>4. \A l \in ToSet(r.symlinks) : \A p \in {l.path, l.target} :
            ~conflicts_private_mount(p) /\ ~overlaps(p, <<"sys">>)
      BY <1>2, RootsAccepted
    <3> QED BY <2>1, <3>1, <3>2, <3>3, <3>4, Zenon DEF validate_schema
  <2>3. SourcesUnchanged(c.host, r)
    BY <1>2, RootsAccepted DEF SourcesUnchanged
  <2> QED BY <1>2, <2>2, <2>3, CardsAccepted, NodesAccepted
<1> QED BY <1>1, <1>2, ResolvedIs

\* As long as the cards have not changed, a resolution would still give the manifest, and
\* what is bound is still there.
QuietInv ==
  ~touched /\ pc \notin {"resolve", "refused"} =>
    /\ pc \notin {"failed", "declined"}
    /\ gpu # failed /\ gpu = resolve(scene, covered(manifest), hw)
    /\ \A p \in DOMAIN bound : bound[p].ino = hw.dev[p]

\* A step that leaves cards, manifest and sandbox alone keeps this unless it fails.
LEMMA QuietStage ==
  ASSUME QuietInv, UNCHANGED <<scene, hw, touched, gpu, bound>>, pc \notin {"resolve", "refused"},
         ~touched => pc' \notin {"failed", "declined"}
  PROVE  QuietInv'
BY DEF QuietInv, manifest

\* What a stage looks at while nothing has changed is accepted.
LEMMA QuietAccepted ==
  ASSUME IInv, QuietInv, ~touched, pc \notin {"resolve", "refused"}
  PROVE  /\ validate_schema(gpu) /\ DevicesUnchanged(gpu, discover(hw.sys))
         /\ SourcesUnchanged(scene.host, gpu)
         /\ \A node \in gpu.nodes : NodeUnchanged(gpu, hw.dev, hw.sys, node)
<1>1. ConfigurationOK(scene) /\ HardwareOK(hw)
  BY SceneAssumption DEF IInv
<1>2. gpu # failed /\ gpu = resolve(scene, covered(manifest), hw)
  BY DEF QuietInv
<1> QED BY <1>1, <1>2, ResolvedAccepted

LEMMA QuietDiscover == IInv /\ QuietInv /\ Discover => QuietInv'
<1> SUFFICES ASSUME IInv, QuietInv, Discover PROVE QuietInv'
  OBVIOUS
<1>1. /\ UNCHANGED <<scene, hw, touched, gpu, bound>> /\ pc \in OnHost \union Inside
      /\ validate_schema(gpu) /\ DevicesUnchanged(gpu, discover(hw.sys)) => pc' = pc
  BY DEF Discover
<1>2. pc \notin {"resolve", "refused", "failed", "declined"}
  BY <1>1 DEF OnHost, Inside
<1>3. ~touched => pc' = pc
  BY <1>1, <1>2, QuietAccepted
<1> QED BY <1>1, <1>2, <1>3, QuietStage

\* Inside, what is bound has the numbers that the host's nodes have.
LEMMA QuietValidate == IInv /\ QuietInv /\ Validate => QuietInv'
<1> SUFFICES ASSUME IInv, QuietInv, Validate PROVE QuietInv'
  OBVIOUS
<1>1. UNCHANGED <<scene, hw, touched, gpu, bound>> /\ pc \in OnHost \union Inside /\ left # Unseen
  BY DEF Validate
<1>2. pc \notin {"resolve", "refused", "failed", "declined"} /\ left \subseteq gpu.nodes
  BY <1>1 DEF OnHost, Inside, IInv, StageInv
<1>3. PICK node \in left : NodeUnchanged(gpu, dev, hw.sys, node) => pc' = pc
  BY DEF Validate
<1>4. ASSUME ~touched PROVE NodeUnchanged(gpu, dev, hw.sys, node)
  <2>1. NodeUnchanged(gpu, hw.dev, hw.sys, node)
    BY <1>2, <1>3, <1>4, QuietAccepted
  <2>2. CASE pc \notin Inside
    BY <2>1, <2>2 DEF dev
  <2>3. CASE pc \in Inside
    <3>1. dev = [p \in DOMAIN bound |-> bound[p].ino]
      BY <2>3 DEF dev
    <3>2. node.path \in DOMAIN bound
      BY <1>2, <1>3, <2>3 DEF IInv, StageInv, Paths
    <3>3. bound[node.path].ino = hw.dev[node.path]
      BY <1>2, <1>4, <3>2 DEF QuietInv
    <3>4. node.path \in DOMAIN dev /\ dev[node.path] = hw.dev[node.path]
      BY <3>1, <3>2, <3>3
    <3> QED BY <2>1, <3>4 DEF NodeUnchanged, NodeValid, NodeAt
  <2> QED BY <2>2, <2>3
<1>5. ~touched => pc' = pc
  BY <1>3, <1>4
<1> QED BY <1>1, <1>2, <1>5, QuietStage

LEMMA QuietBind == IInv /\ QuietInv /\ BindNode => QuietInv'
<1> SUFFICES ASSUME IInv, QuietInv, BindNode PROVE QuietInv'
  OBVIOUS
<1>1. pc = "bind" /\ left \subseteq Paths /\ UNCHANGED <<scene, hw, touched, gpu>>
  BY DEF BindNode, IInv, StageInv
<1>2. PICK path \in left :
        IF path \in DOMAIN hw.dev
        THEN bound' = With(bound, path, NodeNow(path)) /\ UNCHANGED pc
        ELSE Fails /\ UNCHANGED bound
  BY DEF BindNode
<1> SUFFICES ASSUME ~touched PROVE QuietInv'
  BY <1>1 DEF QuietInv
<1>3. PICK node \in gpu.nodes : node.path = path
  BY <1>1, <1>2 DEF Paths
<1>4. path \in DOMAIN hw.dev
  BY <1>1, <1>3, QuietAccepted DEF NodeUnchanged, NodeValid
<1>5. bound' = With(bound, path, NodeNow(path)) /\ pc' = pc
  BY <1>2, <1>4
<1>6. /\ DOMAIN bound' = DOMAIN bound \union {path}
      /\ \A p \in DOMAIN bound' : bound'[p] = IF p = path THEN NodeNow(path) ELSE bound[p]
  BY <1>5 DEF With
<1>7. NodeNow(path).ino = hw.dev[path]
  BY DEF NodeNow
<1>8. \A p \in DOMAIN bound : bound[p].ino = hw.dev[p]
  BY <1>1 DEF QuietInv
<1>9. \A p \in DOMAIN bound' : bound'[p].ino = hw'.dev[p]
  BY <1>1, <1>6, <1>7, <1>8
<1>10. gpu' # failed /\ gpu' = resolve(scene', covered(manifest'), hw')
  BY <1>1 DEF QuietInv, manifest
<1> QED BY <1>1, <1>5, <1>9, <1>10 DEF QuietInv

LEMMA QuietStep == IInv /\ QuietInv /\ [Next]_vars => QuietInv'
<1> SUFFICES ASSUME IInv, QuietInv, [Next]_vars PROVE QuietInv'
  OBVIOUS
<1>1. CASE Resolve
  <2>1. /\ gpu' = resolve(scene, covered(manifest), hw) /\ UNCHANGED <<scene, hw, bound>>
        /\ pc' = IF policy_fails(scene) \/ gpu' = failed THEN "refused" ELSE "emit"
    BY <1>1 DEF Resolve
  <2>2. DOMAIN bound = {}
    BY <1>1 DEF Resolve, IInv, StageInv
  <2>3. manifest' = manifest
    BY <2>1 DEF manifest
  <2> QED BY <2>1, <2>2, <2>3 DEF QuietInv
<1>2. CASE Emit
  <2>1. /\ pc = "emit" /\ UNCHANGED <<scene, hw, touched, gpu, bound>>
        /\ pc' = IF SourcesUnchanged(scene.host, gpu) THEN "host" ELSE "failed"
    BY <1>2 DEF Emit, Goes, Fails
  <2>2. ~touched => pc' = "host"
    BY <2>1, QuietAccepted
  <2> QED BY <2>1, <2>2, QuietStage
<1>3. CASE LaunchBubblewrap \/ EnterBootstrap \/ Acknowledge \/ Release \/ Connect \/ RunCommand
  <2>1. /\ UNCHANGED <<scene, hw, touched, gpu, bound>> /\ pc \notin {"resolve", "refused"}
        /\ pc' \notin {"failed", "declined"}
    BY <1>3 DEF LaunchBubblewrap, EnterBootstrap, Acknowledge, Release, Connect, RunCommand, Goes
  <2> QED BY <2>1, QuietStage
<1>4. CASE ReloadKfd \/ \E p \in Pci : Unplug(p) \/ Plug(p)
  <2>1. touched' = TRUE
    BY <1>4 DEF ReloadKfd, Unplug, Plug, Changes
  <2> QED BY <2>1 DEF QuietInv
<1>5. CASE UNCHANGED vars
  BY <1>5 DEF vars, QuietInv, manifest
<1> QED BY <1>1, <1>2, <1>3, <1>4, <1>5, QuietDiscover, QuietValidate, QuietBind DEF Next, DaemonStep

\* As long as the cards stay as they were when the policy was compiled, no stage of the
\* launch and no later command fails, whatever the host and the configuration.
THEOREM QuietNeverFails == Spec => []OnlyChangesFail
<1>1. Init => QuietInv
  BY DEF Init, QuietInv
<1>2. QuietInv => OnlyChangesFail
  BY DEF QuietInv, OnlyChangesFail
<1> QED BY <1>1, <1>2, QuietStep, LaunchInvariant, PTL DEF Spec
=============================================================================
