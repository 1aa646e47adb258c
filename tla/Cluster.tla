------------------------------ MODULE Cluster -------------------------------
(***************************************************************************)
(* The controller and the nodes of one cluster, on one Kubo node.  The     *)
(* controller (Controller) provisions or restores a read-write volume,     *)
(* snapshots it and deletes it; the node plugins (NodeService) stage it    *)
(* for pods and import what the pods wrote.  No lock is common to both:    *)
(* they meet in the volume's MFS tree, and what keeps them apart is        *)
(* Kubernetes.                                                             *)
(*                                                                         *)
(* Kubernetes protects a claim from deletion while a pod wants it, not     *)
(* while a node still unstages it (attachRequired is false, so there is no *)
(* VolumeAttachment either), and takes a snapshot whenever it is asked to. *)
(***************************************************************************)
EXTENDS IpfsClient

CONSTANTS
  Vol,            \* the claim whose volume the pods use
  SnapshotContent,\* what a snapshot not made by this driver holds
  SourceOf, ClaimSet, PinFailurePolicy, SnapshotStore,   \* see Controller
  ControllerCalls, NodeCalls,
  Nodes, NodeAllow,
  HasteSet,       \* the sets of hasty users tried, see Hastes
  MaxFaults, MaxWrites, MaxPods

(***************************************************************************)
(* delete    the claim is deleted as soon as no pod wants it, though a     *)
(*           node may still have the volume staged                         *)
(* snapshot  a snapshot is taken while the volume is in use                *)
(* overlap   the sidecars call while other calls run and caches lag        *)
(***************************************************************************)
Hastes == {"delete", "snapshot", "overlap"}

ASSUME ClusterAssumption ==
  /\ Vol \in Names
  /\ SnapshotContent \in CIDs
  /\ HasteSet \subseteq SUBSET Hastes
  /\ \A k \in ClaimSet : k[Vol].cid = None /\ k[Vol].mfspath = None
  /\ DefaultPath[sanitizeVolumeID[Vol]] \in UnderRoot

VARIABLES
  \* Stores
  pv, pvEvents, pvCache, vsc, vscEvents, vscCache,
  \* Controller
  locks, ch, claim, phase, held,
  \* NodeService
  volume, dir, mounted, nh, pod, running, staged, published, data, pods,
  \* budgets, common to both
  faults, writes,
  haste,          \* the users' haste; never changes
  saved           \* history: the contents the volume had when a pod left it

\* What CreateVolume answers for Vol.
Volume ==
  LET id == sanitizeVolumeID[Vol]
  IN  [handle |-> id, cid |-> None, mfspath |-> normalizeMFSPath(DefaultPath[id]),
       readonly |-> FALSE, pinning |-> TRUE]

C == INSTANCE Controller WITH
       Calls <- ControllerCalls, h <- ch, Overlap <- TRUE

N == INSTANCE NodeService WITH
       Calls <- NodeCalls, h <- nh, VolumeSet <- {Volume},
       AllowFor <- [v \in {Volume} |-> NodeAllow],
       Content <- EmptyDir, Staging <- TRUE

\* What Controller and NodeService assume of their constants.
ASSUME ComponentAssumption ==
  /\ SourceOf \in [Snaps -> Names]
  /\ ClaimSet \subseteq [Names -> C!Claims]
  /\ PinFailurePolicy \in {"strict", "best-effort"}
  /\ SnapshotStore \in BOOLEAN
  /\ NodeAllow \subseteq N!Freedoms
  /\ MaxFaults \in Nat /\ MaxWrites \in Nat /\ MaxPods \in Nat
  /\ None \notin C!Objects \cup C!Ops \cup Nodes
  /\ Unsupported \notin C!Objects

controllerVars ==
  <<pv, pvEvents, pvCache, vsc, vscEvents, vscCache,
    locks, ch, claim, phase, held>>
nodeVars ==
  <<volume, dir, mounted, nh, pod, running, staged, published, data, pods>>
vars == <<ipfsVars, controllerVars, nodeVars, faults, writes, haste, saved>>

(***************************************************************************)
(* Nothing exists yet, except a snapshot that Vol is to be restored from:  *)
(* a VolumeSnapshotContent an administrator made for a CID                 *)
(* (spec.source.snapshotHandle).                                           *)
(***************************************************************************)
Init ==
  /\ IpfsInit
  /\ claim \in ClaimSet
  /\ pv = [n \in Names |-> None] /\ pvCache = pv /\ pvEvents = <<>>
  /\ vsc = [s \in Snaps |-> IF s = claim[Vol].source THEN SnapshotContent
                            ELSE None]
  /\ vscCache = vsc /\ vscEvents = <<>>
  /\ locks = C!NewVolumeLocks /\ ch = [c \in ControllerCalls |-> C!Idle]
  /\ phase = [o \in C!Objects |-> IF o = claim[Vol].source THEN "bound"
                                  ELSE "wanted"]
  /\ held = {}
  /\ volume = Volume
  /\ N!NodesInit
  /\ data = IF claim[Vol].source = None THEN EmptyDir ELSE SnapshotContent
  /\ haste \in HasteSet
  /\ saved = {data}

-----------------------------------------------------------------------------
(***************************************************************************)
(* The controller's steps.  A patient caller waits for the one before; a   *)
(* patient user waits until no node has the volume.                        *)
(***************************************************************************)
PodsGone == \A nd \in Nodes : ~pod[nd]

MayCall == "overlap" \in haste \/ C!Quiet

CallVolume(n) == MayCall /\ C!CallVolume(n)

CallSnapshot(s) ==
  /\ MayCall
  /\ "snapshot" \in haste \/ (PodsGone /\ N!Unused)
  /\ C!CallSnapshot(s)

\* kubernetes.io/pvc-protection looks at pods only.
ReleaseObject(o) ==
  /\ o = Vol => PodsGone /\ ("delete" \in haste \/ N!Unused)
  /\ C!ReleaseObject(o)

ControllerStep ==
  /\ \/ \E n \in Names : CallVolume(n)
     \/ \E s \in Snaps : CallSnapshot(s)
     \/ \E c \in ControllerCalls :
          C!HandlerStep(c) \/ C!Reply(c) \/ C!Abandon(c)
     \/ \E o \in C!Objects : ReleaseObject(o)
     \/ C!InformerStep
     \/ C!Crash
  /\ UNCHANGED <<nodeVars, haste, saved>>

-----------------------------------------------------------------------------
(***************************************************************************)
(* The nodes' steps.  A pod needs a bound claim.                           *)
(***************************************************************************)
PodStart(nd) ==
  /\ phase[Vol] = "bound"
  /\ "snapshot" \in haste \/ ~ \E s \in Snaps : C!Calling(s)
  /\ N!PodStart(nd)
  /\ UNCHANGED saved

PodStop(nd) ==
  /\ N!PodStop(nd)
  /\ saved' = saved \cup {data}

\* The PV is gone, and the node's own informer may know it.
PVGone(c) ==
  /\ pv[Vol] = None
  /\ N!SkipImport(c)
  /\ UNCHANGED faults

NodeStep ==
  /\ \/ \E c \in NodeCalls :
          /\ N!HandlerStep(c) \/ PVGone(c) \/ N!Reply(c) \/ N!GiveUp(c)
          /\ UNCHANGED saved
     \/ \E nd \in Nodes :
          /\ N!KubeletCall(nd) \/ N!PodWrite(nd)
          /\ UNCHANGED saved
     \/ \E nd \in Nodes : PodStart(nd) \/ PodStop(nd)
  /\ UNCHANGED <<controllerVars, haste>>

Next == ControllerStep \/ NodeStep

Spec == Init /\ [][Next]_vars

-----------------------------------------------------------------------------
Path == volume.mfspath

(***************************************************************************)
(* ControllerSparesData: however hasty the users and whatever calls are    *)
(* abandoned, late or repeated, no controller call disturbs a bound        *)
(* volume: a pod sees what was last written, or the restored snapshot, and *)
(* the MFS tree of a volume no node has is what the application left.  A   *)
(* restore its caller gave up on must not run beside a node's stage or     *)
(* import (controller.go:71-75, 193-233, node.go:101-109).                 *)
(***************************************************************************)
ControllerSparesData ==
  /\ N!PodSeesData
  /\ phase[Vol] = "bound" /\ N!Unused => mfs[Path] = data

(***************************************************************************)
(* A snapshot is whole if it is a content the application left when a pod  *)
(* ended, not a part of one.  CreateSnapshot takes no lock on the volume   *)
(* and resolves whatever the path holds (controller.go:499-503), and an    *)
(* import fills the path file by file (client.go:477-577).                 *)
(***************************************************************************)
WholeSnapshots == \A s \in Snaps : vsc[s] # None => vsc[s] \in saved

(***************************************************************************)
(* SnapshotWhole: for users who wait until no node has the volume, every   *)
(* snapshot is whole, whatever calls failed before.                        *)
(***************************************************************************)
SnapshotWhole == haste = {} => WholeSnapshots

(***************************************************************************)
(* TreeRemoved: once the volume is gone and nothing goes on, its MFS tree  *)
(* is gone too, unless a call failed: cleanupVolumeInIPFS "removes the MFS *)
(* tree for read-write volumes" (utils.go:105-136).                        *)
(***************************************************************************)
TreeRemoved ==
  phase[Vol] = "gone" /\ C!Quiet /\ N!Unused /\ faults = 0 => mfs[Path] = None

(***************************************************************************)
(* NothingLeft: with users who wait until no node has the volume before    *)
(* they delete it, and until a cache has it, the tree is always removed    *)
(* (utils.go:131-136, node.go:85-109).                                     *)
(***************************************************************************)
NothingLeft == haste = {} => TreeRemoved

=============================================================================
