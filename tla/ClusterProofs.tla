---------------------------- MODULE ClusterProofs ---------------------------
(***************************************************************************)
(* The controller and the nodes on one MFS tree: what was proved of each   *)
(* alone (PinProofs, NodeProofs) holds of the two together, because each   *)
(* of them sees the other only as a change of the volume's tree at a time  *)
(* its own invariant allows for one.                                       *)
(***************************************************************************)
EXTENDS Cluster, TLAPS

\* The components with their lemmas.
CP == INSTANCE PinProofs WITH
        Calls <- ControllerCalls, h <- ch, Overlap <- TRUE

NP == INSTANCE NodeProofs WITH
        Calls <- NodeCalls, h <- nh, VolumeSet <- {Volume},
        AllowFor <- [v \in {Volume} |-> NodeAllow],
        Content <- EmptyDir, Staging <- TRUE

-----------------------------------------------------------------------------
(***************************************************************************)
(* The instances' assumptions.                                             *)
(***************************************************************************)
LEMMA VolumeFacts ==
  /\ Volume \in VolumeAttributes
  /\ Volume.handle = sanitizeVolumeID[Vol] /\ Volume.cid = None
  /\ Volume.mfspath = DefaultPath[sanitizeVolumeID[Vol]]
  /\ Volume.mfspath \in UnderRoot /\ Volume.mfspath \in Paths
  /\ Volume.readonly = FALSE
  BY PathAssumption, ClusterAssumption
     DEF Volume, VolumeAttributes, normalizeMFSPath

LEMMA ControllerAssumptions ==
  /\ CP!PathAssumption /\ CP!NestingAssumption /\ CP!NoneAssumption
  /\ CP!ObjectAssumption /\ CP!AttributesAssumption /\ CP!ControllerAssumption
  <1>1. CP!PathAssumption /\ CP!NestingAssumption
    BY PathAssumption, NestingAssumption
  <1>2. CP!NoneAssumption
    BY NoneAssumption DEF CIDs, CP!CIDs
  <1>3. CP!ObjectAssumption
    BY ObjectAssumption DEF IsFiniteSet, CP!IsFiniteSet
  <1>4. CP!AttributesAssumption
    BY AttributesAssumption DEF VolumeAttributes, CP!VolumeAttributes, CIDs, CP!CIDs
  <1>5. C!Claims = CP!Claims /\ C!Objects = CP!Objects /\ C!Ops = CP!Ops
    BY DEF C!Claims, CP!Claims, C!CIDs, CP!CIDs, C!Objects, CP!Objects, C!Ops, CP!Ops
  <1>6. CP!ControllerAssumption
    BY <1>5, ComponentAssumption DEF CP!Objects
  <1> QED
    BY <1>1, <1>2, <1>3, <1>4, <1>6

LEMMA NodeAssumptions ==
  /\ NP!PathAssumption /\ NP!NestingAssumption /\ NP!NoneAssumption
  /\ NP!ObjectAssumption /\ NP!AttributesAssumption /\ NP!NodeAssumption
  <1>1. NP!PathAssumption /\ NP!NestingAssumption
    BY PathAssumption, NestingAssumption
  <1>2. NP!NoneAssumption
    BY NoneAssumption DEF CIDs, NP!CIDs
  <1>3. NP!ObjectAssumption
    BY ObjectAssumption DEF IsFiniteSet, NP!IsFiniteSet
  <1>4. NP!AttributesAssumption
    BY AttributesAssumption DEF VolumeAttributes, NP!VolumeAttributes, CIDs, NP!CIDs
  <1>5. NP!VolumeAttributes = VolumeAttributes /\ EmptyDir \in NP!CIDs
    BY DEF VolumeAttributes, NP!VolumeAttributes, CIDs, NP!CIDs, EmptyDir
  <1>6. [v \in {Volume} |-> NodeAllow] \in [{Volume} -> SUBSET NP!Freedoms]
    BY ComponentAssumption DEF N!Freedoms, NP!Freedoms
  <1>7. NP!NodeAssumption
    BY <1>5, <1>6, VolumeFacts, ComponentAssumption, NoneAssumption, PathAssumption
  <1> QED
    BY <1>1, <1>2, <1>3, <1>4, <1>7
-----------------------------------------------------------------------------
(***************************************************************************)
(* The actions of C and N are those that the lemmas of CP and NP are       *)
(* about: the same modules, instantiated in the same way, with every       *)
(* definition expanded.                                                    *)
(***************************************************************************)
LEMMA SameController ==
  /\ \A n : C!CallVolume(n) <=> CP!CallVolume(n)
  /\ \A s : C!CallSnapshot(s) <=> CP!CallSnapshot(s)
  /\ \A c : C!CreateVolumeStep(c) <=> CP!CreateVolumeStep(c)
  /\ \A c : C!DeleteVolumeStep(c) <=> CP!DeleteVolumeStep(c)
  /\ \A c : C!CreateSnapshotStep(c) <=> CP!CreateSnapshotStep(c)
  /\ \A c : C!DeleteSnapshotStep(c) <=> CP!DeleteSnapshotStep(c)
  /\ \A c : C!Reply(c) <=> CP!Reply(c)
  /\ \A c : C!Abandon(c) <=> CP!Abandon(c)
  /\ \A o : C!ReleaseObject(o) <=> CP!ReleaseObject(o)
  /\ C!InformerStep <=> CP!InformerStep
  /\ C!Crash <=> CP!Crash
  /\ C!Quiet <=> CP!Quiet
  /\ \A o : C!Calling(o) <=> CP!Calling(o)
  <1> USE DEF C!CallVolume, CP!CallVolume, C!CallSnapshot, CP!CallSnapshot,
             C!HandlerStep, CP!HandlerStep, C!Reply, CP!Reply, C!Abandon,
             CP!Abandon, C!ReleaseObject, CP!ReleaseObject, C!InformerStep,
             CP!InformerStep, C!Crash, CP!Crash, C!Quiet, CP!Quiet, C!Calling,
             CP!Calling, C!CreateVolume, CP!CreateVolume, C!DeleteVolume,
             CP!DeleteVolume, C!CreateSnapshot, CP!CreateSnapshot,
             C!DeleteSnapshot, CP!DeleteSnapshot, C!CreateVolumeStep,
             CP!CreateVolumeStep, C!DeleteVolumeStep, CP!DeleteVolumeStep,
             C!CreateSnapshotStep, CP!CreateSnapshotStep,
             C!DeleteSnapshotStep, CP!DeleteSnapshotStep, C!Recorded,
             CP!Recorded, C!storeVars, CP!storeVars, C!Idle, CP!Idle,
             C!ipfsVars, CP!ipfsVars, C!envVars, CP!envVars, C!ApplyPVEvent,
             CP!ApplyPVEvent, C!ApplyVSCEvent, CP!ApplyVSCEvent,
             C!NewVolumeLocks, CP!NewVolumeLocks, C!StartInformers,
             CP!StartInformers, C!CachesCurrent, CP!CachesCurrent, C!MayCall,
             CP!MayCall, C!VolumeKey, CP!VolumeKey, C!Request, CP!Request,
             C!InvalidSource, CP!InvalidSource, C!Refuse, CP!Refuse,
             C!AcquireRefused, CP!AcquireRefused, C!TryAcquire, CP!TryAcquire,
             C!Goto, CP!Goto, C!cv_StatCID, CP!cv_StatCID, C!volumePath,
             CP!volumePath, C!cv_MkdirMFS, CP!cv_MkdirMFS,
             C!dv_GetVolumeAttributes, CP!dv_GetVolumeAttributes,
             C!SnapshotKey, CP!SnapshotKey, C!cs_GetVolumeAttributes,
             CP!cs_GetVolumeAttributes, C!DeleteSnapshotKey,
             CP!DeleteSnapshotKey, C!ds_ListVolumes, CP!ds_ListVolumes,
             C!cv_PinCID, CP!cv_PinCID, C!rs_StatCID, CP!rs_StatCID,
             C!rs_GetCIDContent, CP!rs_GetCIDContent, C!rs_RmMFS, CP!rs_RmMFS,
             C!rs_MkdirMFS, CP!rs_MkdirMFS, C!rs_cpMFS, CP!rs_cpMFS,
             C!dv_ListVolumes, CP!dv_ListVolumes, C!dv_ListSnapshots,
             CP!dv_ListSnapshots, C!dv_UnpinCID, CP!dv_UnpinCID, C!dv_RmMFS,
             CP!dv_RmMFS, C!cs_ResolveMFSCID, CP!cs_ResolveMFSCID,
             C!cs_PinCID, CP!cs_PinCID, C!ds_ListSnapshots,
             CP!ds_ListSnapshots, C!ds_UnpinCID, CP!ds_UnpinCID, C!WritePV,
             CP!WritePV, C!VolumeContext, CP!VolumeContext, C!Created,
             CP!Created, C!WriteVSC, CP!WriteVSC, C!nextCall, CP!nextCall,
             C!Outcomes, CP!Outcomes, C!Outcome, CP!Outcome, C!StatCID,
             CP!StatCID, C!Finish, CP!Finish, C!claimPath, CP!claimPath,
             C!MkdirMFS, CP!MkdirMFS, C!GetVolumeAttributes,
             CP!GetVolumeAttributes, C!volumeRefs, CP!volumeRefs, C!PinCID,
             CP!PinCID, C!RmMFS, CP!RmMFS, C!cpRefused, CP!cpRefused, C!cpMFS,
             CP!cpMFS, C!snapshotRefs, CP!snapshotRefs, C!UnpinCID,
             CP!UnpinCID, C!ResolveMFSCID, CP!ResolveMFSCID, C!Available,
             CP!Available, C!Release, CP!Release, C!normalizeMFSPath,
             CP!normalizeMFSPath, C!EmptyDir, CP!EmptyDir, C!Cardinality,
             CP!Cardinality, C!IsFiniteSet, CP!IsFiniteSet, C!Made, CP!Made,
             C!Removed, CP!Removed
  <1>1. \A n : C!CallVolume(n) <=> CP!CallVolume(n)
    BY Zenon
  <1>2. \A s : C!CallSnapshot(s) <=> CP!CallSnapshot(s)
    BY Zenon
  <1>3. \A c : C!CreateVolumeStep(c) <=> CP!CreateVolumeStep(c)
    BY Zenon
  <1>4. \A c : C!DeleteVolumeStep(c) <=> CP!DeleteVolumeStep(c)
    BY Zenon
  <1>5. \A c : C!CreateSnapshotStep(c) <=> CP!CreateSnapshotStep(c)
    BY Zenon
  <1>6. \A c : C!DeleteSnapshotStep(c) <=> CP!DeleteSnapshotStep(c)
    BY Zenon
  <1>7. \A c : C!Reply(c) <=> CP!Reply(c)
    BY Zenon
  <1>8. \A c : C!Abandon(c) <=> CP!Abandon(c)
    BY Zenon
  <1>9. \A o : C!ReleaseObject(o) <=> CP!ReleaseObject(o)
    BY Zenon
  <1>10. C!InformerStep <=> CP!InformerStep
    BY Zenon
  <1>11. C!Crash <=> CP!Crash
    BY Zenon
  <1>12. C!Quiet <=> CP!Quiet
    BY Zenon
  <1>13. \A o : C!Calling(o) <=> CP!Calling(o)
    BY Zenon
  <1> QED
    BY Zenon, <1>1, <1>2, <1>3, <1>4, <1>5, <1>6, <1>7, <1>8, <1>9, <1>10, <1>11, <1>12, <1>13

LEMMA SameNodes ==
  /\ \A c : N!fetchContentToPath(c) <=> NP!fetchContentToPath(c)
  /\ \A c : N!statMFS(c) <=> NP!statMFS(c)
  /\ \A c : N!GetCIDContent(c) <=> NP!GetCIDContent(c)
  /\ \A c : N!Mount(c) <=> NP!Mount(c)
  /\ \A c : N!Unmount(c) <=> NP!Unmount(c)
  /\ \A c : N!us_GetVolumeAttributes(c) <=> NP!us_GetVolumeAttributes(c)
  /\ \A c : N!us_RmMFS(c) <=> NP!us_RmMFS(c)
  /\ \A c : N!us_MkdirMFS(c) <=> NP!us_MkdirMFS(c)
  /\ \A c : N!us_OpenRoot(c) <=> NP!us_OpenRoot(c)
  /\ \A c : N!us_cpMFS(c) <=> NP!us_cpMFS(c)
  /\ \A c : N!CleanupMountPoint(c) <=> NP!CleanupMountPoint(c)
  /\ \A c : N!SkipImport(c) <=> NP!SkipImport(c)
  /\ \A c : N!Reply(c) <=> NP!Reply(c)
  /\ \A c : N!GiveUp(c) <=> NP!GiveUp(c)
  /\ \A nd : N!KubeletCall(nd) <=> NP!KubeletCall(nd)
  /\ \A nd : N!PodWrite(nd) <=> NP!PodWrite(nd)
  /\ \A nd : N!PodStart(nd) <=> NP!PodStart(nd)
  /\ \A nd : N!PodStop(nd) <=> NP!PodStop(nd)
  /\ N!Unused <=> NP!Unused
  <1> USE DEF N!HandlerStep, NP!HandlerStep, N!Reply, NP!Reply, N!GiveUp,
             NP!GiveUp, N!KubeletCall, NP!KubeletCall, N!PodWrite,
             NP!PodWrite, N!PodStart, NP!PodStart, N!PodStop, NP!PodStop,
             N!Unused, NP!Unused, N!SkipImport, NP!SkipImport,
             N!fetchContentToPath, NP!fetchContentToPath, N!statMFS,
             NP!statMFS, N!GetCIDContent, NP!GetCIDContent, N!Mount, NP!Mount,
             N!Unmount, NP!Unmount, N!us_GetVolumeAttributes,
             NP!us_GetVolumeAttributes, N!us_RmMFS, NP!us_RmMFS,
             N!us_MkdirMFS, NP!us_MkdirMFS, N!us_OpenRoot, NP!us_OpenRoot,
             N!us_cpMFS, NP!us_cpMFS, N!CleanupMountPoint,
             NP!CleanupMountPoint, N!Idle, NP!Idle, N!ipfsVars, NP!ipfsVars,
             N!nodeVars, NP!nodeVars, N!LocalFailure, NP!LocalFailure,
             N!TimeoutKind, NP!TimeoutKind, N!Doubt, NP!Doubt,
             N!NodeStageVolume, NP!NodeStageVolume, N!NodePublishVolume,
             NP!NodePublishVolume, N!NodeUnpublishVolume,
             NP!NodeUnpublishVolume, N!NodeUnstageVolume,
             NP!NodeUnstageVolume, N!Allow, NP!Allow, N!CIDs, NP!CIDs,
             N!Unpublished, NP!Unpublished, N!Unstaged, NP!Unstaged, N!Goto,
             NP!Goto, N!kubeletVars, NP!kubeletVars, N!Path, NP!Path,
             N!Fetched, NP!Fetched, N!EmptyDir, NP!EmptyDir, N!Return,
             NP!Return, N!Outcomes, NP!Outcomes, N!Outcome, NP!Outcome,
             N!RmMFS, NP!RmMFS, N!MkdirMFS, NP!MkdirMFS, N!cpMFS, NP!cpMFS,
             N!cpRefused, NP!cpRefused, N!Request, NP!Request, N!Calling,
             NP!Calling, N!nextCall, NP!nextCall, N!Made, NP!Made, N!Removed,
             NP!Removed, N!Written, NP!Written
  <1>1. \A c : N!fetchContentToPath(c) <=> NP!fetchContentToPath(c)
    BY Zenon
  <1>2. \A c : N!statMFS(c) <=> NP!statMFS(c)
    BY Zenon
  <1>3. \A c : N!GetCIDContent(c) <=> NP!GetCIDContent(c)
    BY Zenon
  <1>4. \A c : N!Mount(c) <=> NP!Mount(c)
    BY Zenon
  <1>5. \A c : N!Unmount(c) <=> NP!Unmount(c)
    BY Zenon
  <1>6. \A c : N!us_GetVolumeAttributes(c) <=> NP!us_GetVolumeAttributes(c)
    BY Zenon
  <1>7. \A c : N!us_RmMFS(c) <=> NP!us_RmMFS(c)
    BY Zenon
  <1>8. \A c : N!us_MkdirMFS(c) <=> NP!us_MkdirMFS(c)
    BY Zenon
  <1>9. \A c : N!us_OpenRoot(c) <=> NP!us_OpenRoot(c)
    BY Zenon
  <1>10. \A c : N!us_cpMFS(c) <=> NP!us_cpMFS(c)
    BY Zenon
  <1>11. \A c : N!CleanupMountPoint(c) <=> NP!CleanupMountPoint(c)
    BY Zenon
  <1>12. \A c : N!SkipImport(c) <=> NP!SkipImport(c)
    BY Zenon
  <1>13. \A c : N!Reply(c) <=> NP!Reply(c)
    BY Zenon
  <1>14. \A c : N!GiveUp(c) <=> NP!GiveUp(c)
    BY Zenon
  <1>15. \A nd : N!KubeletCall(nd) <=> NP!KubeletCall(nd)
    BY Zenon
  <1>16. \A nd : N!PodWrite(nd) <=> NP!PodWrite(nd)
    BY Zenon
  <1>17. \A nd : N!PodStart(nd) <=> NP!PodStart(nd)
    BY Zenon
  <1>18. \A nd : N!PodStop(nd) <=> NP!PodStop(nd)
    BY Zenon
  <1>19. N!Unused <=> NP!Unused
    BY Zenon
  <1> QED
    BY Zenon, <1>1, <1>2, <1>3, <1>4, <1>5, <1>6, <1>7, <1>8, <1>9, <1>10, <1>11, <1>12, <1>13, <1>14, <1>15, <1>16, <1>17, <1>18, <1>19

-----------------------------------------------------------------------------
(***************************************************************************)
(* Steps of the cluster as steps of its components.                        *)
(***************************************************************************)
LEMMA ControllerActs ==
  ASSUME ControllerStep
  PROVE  CP!ControllerNext /\ UNCHANGED <<nodeVars, haste, saved>>
  BY SameController
     DEF ControllerStep, CallVolume, CallSnapshot, ReleaseObject, CP!ControllerNext,
         C!HandlerStep, CP!HandlerStep, C!Objects, CP!Objects

NodeActs ==
  \/ \E c \in NodeCalls :
       /\ \/ NP!HandlerStep(c) \/ NP!Reply(c) \/ NP!GiveUp(c)
          \/ pv[Vol] = None /\ NP!SkipImport(c) /\ UNCHANGED faults
       /\ saved' = saved
  \/ \E nd \in Nodes : (NP!KubeletCall(nd) \/ NP!PodWrite(nd)) /\ saved' = saved
  \/ \E nd \in Nodes : NP!PodStop(nd) /\ saved' = saved \cup {data}
  \/ \E nd \in Nodes :
       /\ NP!PodStart(nd) /\ phase[Vol] = "bound" /\ saved' = saved
       /\ "snapshot" \in haste \/ ~ \E s \in Snaps : CP!Calling(s)

LEMMA NodesAct ==
  ASSUME NodeStep
  PROVE  NodeActs /\ UNCHANGED <<controllerVars, haste>>
  <1>1. \A c : N!HandlerStep(c) <=> NP!HandlerStep(c)
    BY SameNodes, Zenon DEF N!HandlerStep, NP!HandlerStep
  <1> QED
    BY <1>1, SameNodes, SameController
       DEF NodeStep, NodeActs, PVGone, PodStart, PodStop

LEMMA NodeSteps ==
  ASSUME NodeActs
  PROVE  \/ NP!Next
         \/ \E c \in NodeCalls : pv[Vol] = None /\ NP!SkipImport(c) /\ UNCHANGED faults
  BY DEF NodeActs, NP!Next

-----------------------------------------------------------------------------
(***************************************************************************)
(* ClusterInv: each component's own invariant, and what ties them.  Until  *)
(* the volume is bound no node has to do with it, and the controller is    *)
(* about to make it hold what the application is to find (Awaited); while  *)
(* it is bound the nodes' invariant holds, since the controller leaves its *)
(* tree alone; after that there are no pods to see it.                     *)
(***************************************************************************)
NoPods == \A nd \in Nodes : ~pod[nd] /\ ~running[nd]

ClusterInv ==
  /\ CP!VolumeInv /\ CP!RestoreInv
  /\ NP!TypeInv
  /\ CP!Awaited(Vol, data)
  /\ phase[Vol] = "wanted" => NP!NodesIdle
  /\ phase[Vol] = "bound" => NP!DataInv
  /\ phase[Vol] \in {"released", "gone"} => NoPods

\* The volume the nodes are given is the one CreateVolume made.
LEMMA OneVolume ==
  ASSUME CP!VolumeInv, NP!TypeInv
  PROVE  /\ claim[Vol].cid = None /\ CP!volumePath(Vol) = Path
         /\ Path \in UnderRoot /\ Path \in Paths /\ Path # None
         /\ NP!Path = Path /\ ~volume.readonly /\ volume = Volume
  <1>1. volume = Volume
    BY DEF NP!TypeInv, NP!TypeOK
  <1>2. claim \in ClaimSet
    BY DEF CP!VolumeInv, CP!OwnersInv, CP!ContextsOK
  <1>3. claim[Vol].cid = None /\ claim[Vol].mfspath = None
    BY <1>2, ClusterAssumption
  <1>4. CP!volumePath(Vol) = DefaultPath[sanitizeVolumeID[Vol]]
    BY <1>3, PathAssumption, ClusterAssumption
       DEF CP!volumePath, CP!claimPath, CP!normalizeMFSPath
  <1>5. Path \in UnderRoot /\ Path \in Paths /\ Path # None
    BY <1>1, VolumeFacts, PathAssumption, NoneAssumption DEF Path
  <1> QED
    BY <1>1, <1>3, <1>4, <1>5, VolumeFacts DEF Path, NP!Path

-----------------------------------------------------------------------------
LEMMA FreshController == Init => CP!Fresh
  <1> SUFFICES ASSUME Init PROVE CP!Fresh
    OBVIOUS
  <1>1. /\ claim \in ClaimSet /\ claim[Vol].source \in Snaps \cup {None, Unsupported}
    BY ComponentAssumption, ClusterAssumption DEF Init, C!Claims
  <1>2. /\ locks = CP!NewVolumeLocks /\ ch = [c \in ControllerCalls |-> CP!Idle]
        /\ CP!IpfsInit /\ held = {} /\ faults = 0 /\ writes = 0
    BY DEF Init, N!NodesInit, C!NewVolumeLocks, CP!NewVolumeLocks, C!Idle, CP!Idle,
           IpfsInit, CP!IpfsInit
  <1>3. /\ vsc \in [Snaps -> CIDs \cup {None}] /\ vscCache = vsc /\ vscEvents = <<>>
        /\ pv = [n \in Names |-> None] /\ pvCache = pv /\ pvEvents = <<>>
        /\ \A s \in Snaps : s = claim[Vol].source => vsc[s] = SnapshotContent
    BY ClusterAssumption DEF Init
  <1>4. CP!StoresTypeOK
    BY <1>3 DEF CP!StoresTypeOK, CP!PVs, CP!VSCs, CP!CIDs, CIDs
  <1>5. phase = [o \in CP!Objects |-> IF o = claim[Vol].source THEN "bound"
                                      ELSE "wanted"]
    BY DEF Init, C!Objects, CP!Objects
  <1>6. \A n \in Names : phase[n] = "wanted"
    BY <1>1, <1>5, ComponentAssumption, ObjectAssumption DEF C!Objects, CP!Objects
  <1>7. \A s \in Snaps : phase[s] = "bound" => vsc[s] \in CP!CIDs
    BY <1>3, <1>5, ClusterAssumption DEF CP!Objects, CP!CIDs, CIDs
  <1> QED
    BY <1>1, <1>2, <1>3, <1>4, <1>5, <1>6, <1>7 DEF CP!Fresh

LEMMA ClusterInit == Init => ClusterInv
  <1> SUFFICES ASSUME Init PROVE ClusterInv
    OBVIOUS
  <1>1. CP!VolumeInv /\ CP!RestoreInv
    BY FreshController, ControllerAssumptions, CP!FreshVolumeInv, CP!FreshRestoreInv
  <1>2. NP!NodesInit /\ NP!NodesIdle
    BY DEF Init, N!NodesInit, NP!NodesInit, N!Idle, NP!Idle, NP!NodesIdle
  <1>3. NP!TypeInv
    <2>1. data \in NP!CIDs /\ volume \in {Volume}
      BY ClusterAssumption DEF Init, CIDs, NP!CIDs, EmptyDir
    <2>2. NP!IpfsTypeOK
      BY DEF Init, IpfsInit, NP!IpfsTypeOK
    <2> QED
      BY <1>2, <2>1, <2>2, NodeAssumptions, NP!UntouchedTyped
  <1>4. /\ CP!Objects = Names \cup Snaps /\ Vol \in Names /\ C!Objects = CP!Objects
        /\ \A c \in ControllerCalls : ch[c].obj # Vol
        /\ phase[Vol] = "wanted"
    BY FreshController, ClusterAssumption, ComponentAssumption
       DEF CP!Fresh, CP!Objects, C!Objects, CP!Idle
  <1>5. CP!Awaited(Vol, data)
    <2>1. CP!Source(Vol) = None
            => data = CP!EmptyDir /\ mfs[CP!volumePath(Vol)] \in {None, CP!EmptyDir}
      <3>1. mfs[CP!volumePath(Vol)] = None
        BY <1>1, <1>3, OneVolume DEF Init, IpfsInit
      <3> QED
        BY <3>1 DEF Init, CP!Source, EmptyDir, CP!EmptyDir
    <2>2. ASSUME CP!Source(Vol) \in Snaps
          PROVE  phase[CP!Source(Vol)] # "wanted" /\ vsc[CP!Source(Vol)] = data
      BY <1>4, <2>2, ComponentAssumption DEF Init, CP!Source
    <2> QED
      BY <1>4, <2>1, <2>2 DEF CP!Awaited, CP!Brings
  <1> QED
    BY <1>1, <1>2, <1>3, <1>4, <1>5 DEF ClusterInv

-----------------------------------------------------------------------------
\* A bound volume is released by its user, and no one else.
LEMMA VolReleased ==
  ASSUME CP!VolumeInv, ControllerStep, phase[Vol] = "bound", phase'[Vol] = "released"
  PROVE  PodsGone /\ ("delete" \in haste \/ N!Unused) /\ CP!ReleaseObject(Vol)
  <1>1. phase \in [CP!Objects -> CP!Phases] /\ Vol \in CP!Objects
    BY ClusterAssumption DEF CP!VolumeInv, CP!IndInv, CP!TypeOK, CP!Objects
  <1>2. ASSUME NEW c \in ControllerCalls, C!HandlerStep(c) PROVE FALSE
    <2>1. CP!HandlerStep(c) /\ CP!IndInv
      BY <1>2, SameController DEF C!HandlerStep, CP!HandlerStep, CP!VolumeInv
    <2>2. UNCHANGED CP!envVars
      BY <2>1, ControllerAssumptions, CP!StepIsMove
    <2> QED
      BY <2>2 DEF CP!envVars
  <1>3. ASSUME NEW c \in ControllerCalls, C!Reply(c) PROVE FALSE
    <2>1. CP!Reply(c)
      BY <1>3, SameController
    <2> QED
      BY <1>1, <2>1 DEF CP!Reply, CP!Recorded
  <1>4. ASSUME \/ \E n \in Names : CP!CallVolume(n)
               \/ \E s \in Snaps : CP!CallSnapshot(s)
               \/ \E c \in ControllerCalls : CP!Abandon(c)
               \/ CP!InformerStep \/ CP!Crash
        PROVE  FALSE
    BY <1>4 DEF CP!CallVolume, CP!CallSnapshot, CP!CreateVolume, CP!DeleteVolume,
                CP!CreateSnapshot, CP!DeleteSnapshot, CP!Abandon, CP!InformerStep,
                CP!Crash, CP!envVars
  <1>5. PICK o \in C!Objects : ReleaseObject(o)
    BY <1>2, <1>3, <1>4, SameController
       DEF ControllerStep, CallVolume, CallSnapshot
  <1>6. CP!ReleaseObject(o)
    BY <1>5, SameController DEF ReleaseObject
  <1>7. o = Vol
    BY <1>1, <1>6 DEF CP!ReleaseObject
  <1> QED
    BY <1>5, <1>6, <1>7 DEF ReleaseObject

-----------------------------------------------------------------------------
(***************************************************************************)
(* A step of the controller.                                               *)
(***************************************************************************)
LEMMA NodesUnmoved ==
  ASSUME NP!TypeInv, CP!VolumeInv', UNCHANGED nodeVars
  PROVE  /\ NP!TypeInv'
         /\ NP!DataInv /\ mfs'[NP!Path] = mfs[NP!Path] => NP!DataInv'
         /\ NP!NodesIdle' <=> NP!NodesIdle
  <1>1. UNCHANGED NP!ownVars
    BY DEF nodeVars, NP!ownVars, NP!nodeVars
  <1>2. NP!IpfsTypeOK' /\ faults' \in 0..MaxFaults /\ writes' \in 0..MaxWrites
    BY DEF CP!VolumeInv, CP!IndInv, CP!TypeOK, CP!IpfsTypeOK, NP!IpfsTypeOK,
           CP!CIDs, NP!CIDs
  <1> QED
    BY <1>1, <1>2, NodeAssumptions, NP!OthersStep

LEMMA AwaitedStays ==
  ASSUME ClusterInv, CP!DistinctVolumes, CP!ControllerNext, data' = data
  PROVE  CP!Awaited(Vol, data)'
  <1>1. PICK d : d = data
    OBVIOUS
  <1>2. CP!Awaited(Vol, d)
    BY <1>1 DEF ClusterInv
  <1>3. /\ Vol \in Names /\ claim[Vol].cid = None /\ CP!volumePath(Vol) # None
        /\ CP!VolumeInv /\ CP!RestoreInv
    BY OneVolume, ClusterAssumption DEF ClusterInv
  <1>4. CP!Awaited(Vol, d)'
    BY <1>2, <1>3, ControllerAssumptions, CP!AwaitedKept
  <1> QED
    BY <1>1, <1>4 DEF CP!Awaited, CP!Brings

LEMMA ControllerKeepsInv ==
  ASSUME ClusterInv, CP!DistinctVolumes, ControllerStep
  PROVE  ClusterInv'
  <1>1. CP!ControllerNext /\ UNCHANGED nodeVars
    BY ControllerActs
  <1>2. /\ CP!VolumeInv /\ CP!RestoreInv /\ NP!TypeInv
        /\ Vol \in Names /\ Vol \in CP!Objects /\ phase[Vol] \in CP!Phases
    BY ClusterAssumption
       DEF ClusterInv, CP!Objects, CP!VolumeInv, CP!IndInv, CP!TypeOK
  <1>3. CP!VolumeInv' /\ CP!RestoreInv'
    <2>1. [CP!Next]_(CP!vars)
      BY <1>1, ControllerAssumptions, CP!ControllerSteps
    <2> QED
      BY <1>2, <2>1, ControllerAssumptions, CP!NextVolumeInv, CP!NextRestoreInv
  <1>4. /\ NP!TypeInv'
        /\ NP!DataInv /\ mfs'[NP!Path] = mfs[NP!Path] => NP!DataInv'
        /\ NP!NodesIdle' <=> NP!NodesIdle
    BY <1>1, <1>2, <1>3, NodesUnmoved
  <1>5. CP!Awaited(Vol, data)'
    BY <1>1, AwaitedStays DEF nodeVars
  <1>6. CASE phase'[Vol] = phase[Vol]
    <2>1. ASSUME phase[Vol] = "bound" PROVE mfs'[NP!Path] = mfs[NP!Path]
      BY <1>1, <1>2, <2>1, OneVolume, ControllerAssumptions, CP!BoundTreesKept
    <2>2. NoPods <=> NoPods'
      BY <1>1 DEF NoPods, nodeVars
    <2> QED
      BY <1>3, <1>4, <1>5, <1>6, <2>1, <2>2 DEF ClusterInv
  <1>7. CASE phase'[Vol] # phase[Vol]
    <2>1. \/ /\ phase[Vol] = "wanted" /\ phase'[Vol] = "bound"
             /\ \E c \in ControllerCalls : \/ CP!Answered(c, "CreateVolume", Vol)
                                           \/ Vol \in Snaps
          \/ phase[Vol] = "bound" /\ phase'[Vol] = "released"
          \/ phase[Vol] = "released" /\ phase'[Vol] = "gone"
      BY <1>1, <1>2, <1>7, ControllerAssumptions, CP!PhaseSteps
    <2>2. Vol \notin Snaps
      BY <1>2, ObjectAssumption
    <2>3. ASSUME NEW c \in ControllerCalls, CP!Answered(c, "CreateVolume", Vol),
                 phase[Vol] = "wanted", phase'[Vol] = "bound"
          PROVE  ClusterInv'
      <3>1. mfs' = mfs
        BY <2>3 DEF CP!Answered, CP!Reply, CP!ipfsVars
      <3>2. mfs[Path] = data
        BY <1>2, <2>3, OneVolume
           DEF ClusterInv, CP!Awaited, CP!Brings, CP!Answered, CP!Succeeded
      <3>3. NP!NodesIdle
        BY <2>3 DEF ClusterInv
      <3>4. NP!DataInv'
        <4>1. ~volume.readonly /\ mfs[NP!Path] = data /\ Path = NP!Path
          BY <1>2, <3>2, OneVolume
        <4>2. NP!DataInv
          BY <1>2, <3>3, <4>1, NodeAssumptions, NP!DataAtRest
        <4> QED
          BY <1>4, <3>1, <4>2
      <3> QED
        BY <1>3, <1>4, <1>5, <2>3, <3>4 DEF ClusterInv
    <2>4. CASE phase[Vol] = "released" /\ phase'[Vol] = "gone"
      BY <1>1, <1>3, <1>4, <1>5, <2>4 DEF ClusterInv, NoPods, nodeVars
    <2>5. CASE phase[Vol] = "bound" /\ phase'[Vol] = "released"
      <3>1. PodsGone
        BY <1>2, <2>5, VolReleased
      <3>2. \A nd \in Nodes : running[nd] => pod[nd]
        BY <2>5 DEF ClusterInv, NP!DataInv, NP!NodeOK
      <3> QED
        BY <1>1, <1>3, <1>4, <1>5, <2>5, <3>1, <3>2
           DEF ClusterInv, NoPods, nodeVars, PodsGone
    <2> QED
      BY <2>1, <2>2, <2>3, <2>4, <2>5
  <1> QED
    BY <1>6, <1>7
-----------------------------------------------------------------------------
(***************************************************************************)
(* A step of the nodes.                                                    *)
(***************************************************************************)
\* No node acts before the volume is bound.
LEMMA NodesWait ==
  ASSUME ClusterInv, NodeActs
  PROVE  phase[Vol] \in {"bound", "released", "gone"}
  <1>1. phase[Vol] \in CP!Phases
    BY ClusterAssumption
       DEF ClusterInv, CP!VolumeInv, CP!IndInv, CP!TypeOK, CP!Objects
  <1>2. ASSUME phase[Vol] = "wanted" PROVE FALSE
    BY <1>2, NodeAssumptions, NP!IdleNodesRest DEF ClusterInv, NodeActs
  <1> QED
    BY <1>1, <1>2 DEF CP!Phases

LEMMA NodesTyped ==
  ASSUME NP!TypeInv, NodeActs
  PROVE  /\ NP!TypeInv'
         /\ pinned' = pinned
         /\ CP!WritesAt(NP!Path)
  <1>1. CASE NP!Next
    <2>1. NP!TypeInv' /\ pinned' = pinned
      BY <1>1, NodeAssumptions, NP!NodeTypedNext, NP!NodesWriteTheTree
    <2>2. \A p \in Paths : mfs'[p] # mfs[p]
            => /\ ~NP!Apart(p, NP!Path)
               /\ mfs'[p] # None => p = NP!Path \/ NP!Path \in Below[p]
      BY <1>1, NodeAssumptions, NP!NodesWriteTheTree
    <2> QED
      BY <2>1, <2>2 DEF CP!WritesAt, CP!Apart, NP!Apart
  <1>2. ASSUME NEW c \in NodeCalls, NP!SkipImport(c), UNCHANGED faults
        PROVE  NP!TypeInv' /\ UNCHANGED NP!ipfsVars
    BY <1>2, NodeAssumptions, NP!SkipTyped DEF NP!SkipImport
  <1> QED
    BY <1>1, <1>2, NodeSteps DEF NP!ipfsVars, CP!WritesAt

LEMMA NodesSpareController ==
  ASSUME ClusterInv, CP!DistinctVolumes, NodeActs, UNCHANGED controllerVars
  PROVE  CP!VolumeInv' /\ CP!RestoreInv'
  <1>1. CP!VolumeInv /\ CP!RestoreInv /\ NP!TypeInv /\ phase[Vol] # "wanted"
    BY NodesWait DEF ClusterInv
  <1>2. NP!TypeInv' /\ pinned' = pinned /\ CP!WritesAt(NP!Path)
    BY <1>1, NodesTyped
  <1>3. CP!IpfsTypeOK' /\ faults' \in 0..MaxFaults /\ writes' \in 0..MaxWrites
    BY <1>2 DEF NP!TypeInv, NP!TypeOK, NP!IpfsTypeOK, CP!IpfsTypeOK, NP!CIDs, CP!CIDs
  <1>4. UNCHANGED <<locks, pinned, CP!storeVars, ch, claim, phase, held>>
    BY <1>2 DEF controllerVars, CP!storeVars
  <1>5. /\ Vol \in Names /\ claim[Vol].cid = None /\ CP!volumePath(Vol) \in UnderRoot
        /\ CP!WritesAt(CP!volumePath(Vol))
    BY <1>1, <1>2, OneVolume, ClusterAssumption
  <1> QED
    BY <1>1, <1>3, <1>4, <1>5, ControllerAssumptions, CP!ForeignWrite

LEMMA NodesKeepInv ==
  ASSUME ClusterInv, CP!DistinctVolumes, NP!KeepsData, NodeActs,
         UNCHANGED controllerVars
  PROVE  ClusterInv'
  <1>1. /\ CP!VolumeInv /\ NP!TypeInv /\ phase' = phase /\ Vol \in Names
        /\ phase[Vol] \in {"bound", "released", "gone"}
    BY NodesWait, ClusterAssumption DEF ClusterInv, controllerVars
  <1>2. CP!VolumeInv' /\ CP!RestoreInv'
    BY NodesSpareController
  <1>3. NP!TypeInv'
    BY <1>1, NodesTyped
  <1>4. CP!Awaited(Vol, data)'
    BY <1>1 DEF CP!Awaited
  <1>5. ASSUME phase[Vol] = "bound" PROVE NP!DataInv'
    <2>1. pv[Vol] # None
      BY <1>1, <1>5, ControllerAssumptions DEF CP!VolumeInv, CP!IndInv, CP!ObjectsOK
    <2>2. NP!Next
      BY <2>1, NodeSteps
    <2>3. NP!DataInv
      BY <1>5 DEF ClusterInv
    <2> QED
      BY <1>1, <2>2, <2>3, NodeAssumptions, NP!DataNext
  <1>6. ASSUME phase[Vol] # "bound" PROVE NoPods'
    <2>1. NoPods
      BY <1>1, <1>6 DEF ClusterInv
    <2>2. \/ \E c \in NodeCalls : \/ NP!HandlerStep(c) \/ NP!SkipImport(c)
                                  \/ NP!Reply(c) \/ NP!GiveUp(c)
          \/ \E nd \in Nodes : NP!KubeletCall(nd) \/ NP!PodWrite(nd) \/ NP!PodStop(nd)
      BY <1>6 DEF NodeActs
    <2>3. /\ \A nd \in Nodes : pod'[nd] => pod[nd]
          /\ \A nd \in Nodes : running'[nd] => running[nd] \/ pod[nd]
      BY <1>1, <2>2, NodeAssumptions, NP!PodsGo
    <2> QED
      BY <2>1, <2>3 DEF NoPods
  <1> QED
    BY <1>1, <1>2, <1>3, <1>4, <1>5, <1>6 DEF ClusterInv
-----------------------------------------------------------------------------
(***************************************************************************)
(* ControllerSparesData.  The hypotheses are those of NoClobber and of     *)
(* PodSeesData: no two volumes share a path, and the kubelet waits for a   *)
(* stage and for an unstage.  The users' haste, the abandoned calls of the *)
(* controller and its restarts are not restricted.                         *)
(***************************************************************************)
LEMMA SameHypotheses ==
  /\ C!DistinctVolumes => CP!DistinctVolumes
  /\ C!DistinctIDs => CP!DistinctIDs
  /\ N!KeepsData => NP!KeepsData
  <1>1. C!DistinctIDs => CP!DistinctIDs
    BY DEF C!DistinctIDs, CP!DistinctIDs
  <1>2. C!DistinctVolumes => CP!DistinctVolumes
    BY Zenon
       DEF C!DistinctVolumes, CP!DistinctVolumes, C!DistinctIDs, CP!DistinctIDs,
           C!claimPath, CP!claimPath, C!normalizeMFSPath, CP!normalizeMFSPath,
           C!Apart, CP!Apart
  <1>3. N!KeepsData => NP!KeepsData
    BY Zenon
       DEF N!KeepsData, NP!KeepsData, N!SafeFor, NP!SafeFor, N!EmptyDir, NP!EmptyDir
  <1> QED
    BY <1>1, <1>2, <1>3

LEMMA ClusterNext ==
  ASSUME C!DistinctVolumes, N!KeepsData
  PROVE  ClusterInv /\ [Next]_vars => ClusterInv'
  <1> SUFFICES ASSUME ClusterInv, [Next]_vars PROVE ClusterInv'
    OBVIOUS
  <1>1. CP!DistinctVolumes /\ NP!KeepsData
    BY SameHypotheses
  <1>2. CASE UNCHANGED vars
    <2>1. UNCHANGED nodeVars /\ CP!VolumeInv' /\ CP!RestoreInv'
      <3>1. UNCHANGED CP!vars /\ UNCHANGED nodeVars
        BY <1>2 DEF vars, ipfsVars, controllerVars, CP!vars, CP!ipfsVars, CP!storeVars
      <3> QED
        BY <1>1, <3>1, ControllerAssumptions, CP!NextVolumeInv, CP!NextRestoreInv
           DEF ClusterInv
    <2>2. /\ NP!TypeInv' /\ (NP!DataInv => NP!DataInv')
          /\ NP!NodesIdle' <=> NP!NodesIdle
      <3>1. mfs' = mfs /\ NP!TypeInv
        BY <1>2 DEF vars, ipfsVars, ClusterInv
      <3> QED
        BY <2>1, <3>1, NodesUnmoved
    <2>3. CP!Awaited(Vol, data)'
      BY <1>2 DEF vars, ipfsVars, controllerVars, nodeVars, ClusterInv, CP!Awaited,
                  CP!Brings, CP!Source, CP!Exists, CP!Succeeded, CP!volumePath,
                  CP!claimPath
    <2>4. phase' = phase /\ (NoPods => NoPods')
      BY <1>2 DEF vars, controllerVars, nodeVars, NoPods
    <2> QED
      BY <2>1, <2>2, <2>3, <2>4 DEF ClusterInv
  <1>3. CASE ControllerStep
    BY <1>1, <1>3, ControllerKeepsInv
  <1>4. CASE NodeStep
    BY <1>1, <1>4, NodesAct, NodesKeepInv
  <1> QED
    BY <1>2, <1>3, <1>4 DEF Next

LEMMA SparedByInv == ClusterInv => ControllerSparesData
  <1> SUFFICES ASSUME ClusterInv PROVE ControllerSparesData
    OBVIOUS
  <1>1. /\ ~volume.readonly /\ NP!Path = Path /\ Vol \in Names
        /\ phase[Vol] \in CP!Phases
    BY OneVolume, ClusterAssumption
       DEF ClusterInv, CP!VolumeInv, CP!IndInv, CP!TypeOK, CP!Objects
  <1>2. CASE phase[Vol] = "bound"
    <2>1. NP!DataInv
      BY <1>2 DEF ClusterInv
    <2>2. \A nd \in Nodes : running[nd] => dir[nd] = data
      BY <2>1 DEF NP!DataInv, NP!NodeOK
    <2>3. N!Unused => mfs[Path] = data
      BY <1>1, <2>1 DEF NP!DataInv, NP!WrittenOK, N!Unused
    <2> QED
      BY <2>2, <2>3 DEF ControllerSparesData, N!PodSeesData
  <1>3. CASE phase[Vol] # "bound"
    <2>1. \A nd \in Nodes : ~running[nd]
      BY <1>1, <1>3 DEF ClusterInv, NP!NodesIdle, NoPods, CP!Phases
    <2> QED
      BY <1>3, <2>1 DEF ControllerSparesData, N!PodSeesData
  <1> QED
    BY <1>2, <1>3

(***************************************************************************)
(* The controller never disturbs a bound volume's data, for any number of  *)
(* volumes, snapshots, nodes, handlers, faults and writes: a pod sees what *)
(* was last written or restored, and the tree no node has is what the      *)
(* application left (controller.go:71-75, 193-233, node.go:101-109).       *)
(***************************************************************************)
THEOREM ClusterSparesData ==
  ASSUME C!DistinctVolumes, N!KeepsData
  PROVE  Spec => []ControllerSparesData
  <1>1. Init => ClusterInv
    BY ClusterInit
  <1>2. ClusterInv /\ [Next]_vars => ClusterInv'
    BY ClusterNext
  <1>3. ClusterInv => ControllerSparesData
    BY SparedByInv
  <1> QED
    BY <1>1, <1>2, <1>3, PTL DEF Spec
-----------------------------------------------------------------------------
(***************************************************************************)
(* SnapshotWhole.  What the application has now is what a pod left, unless *)
(* a pod runs (data is saved).  Where snapshots wait for the volume to be  *)
(* free, no node has to do with it while the sidecar awaits a snapshot,    *)
(* since a pod that comes waits for the snapshot in its turn: the tree     *)
(* that CreateSnapshot resolves is the data.                               *)
(***************************************************************************)
SnapshotOK(c) ==
  CP!Taking(c) => /\ phase[Vol] = "bound" /\ NP!NodesIdle
                  /\ CP!Took(c) => ch[c].cid \in saved

SnapshotInv ==
  /\ data \in saved \/ \E nd \in Nodes : running[nd]
  /\ \A c \in ControllerCalls : CP!TakenFrom(c)
  /\ "snapshot" \notin haste
       => WholeSnapshots /\ \A c \in ControllerCalls : SnapshotOK(c)

OnlyOfVol == \A s \in Snaps : SourceOf[s] = Vol

LEMMA SnapshotInit == Init => SnapshotInv
  <1> SUFFICES ASSUME Init PROVE SnapshotInv
    OBVIOUS
  <1>1. \A c \in ControllerCalls : /\ ch[c].op # "CreateSnapshot"
                                   /\ ch[c].pc # "cs_ResolveMFSCID"
    BY FreshController, ComponentAssumption DEF CP!Fresh, CP!Idle, C!Ops
  <1>2. data \in saved
    BY DEF Init
  <1>3. WholeSnapshots
    <2> SUFFICES ASSUME NEW s \in Snaps, vsc[s] # None PROVE vsc[s] \in saved
      BY DEF WholeSnapshots
    <2>1. s = claim[Vol].source /\ vsc[s] = SnapshotContent /\ s # None
      BY ComponentAssumption DEF Init, C!Objects
    <2> QED
      BY <1>2, <2>1 DEF Init
  <1> QED
    BY <1>1, <1>2, <1>3 DEF SnapshotInv, SnapshotOK, CP!Taking, CP!TakenFrom

\* A call that starts is the sidecar's, by the sidecar's guard.
LEMMA CalledBy ==
  ASSUME CP!IndInv, ControllerStep, NEW c \in ControllerCalls, CP!Called(c)
  PROVE  (\E n \in Names : CallVolume(n)) \/ (\E s \in Snaps : CallSnapshot(s))
  <1>1. /\ \A d \in ControllerCalls :
             ~(CP!HandlerStep(d) \/ CP!Reply(d) \/ CP!Abandon(d))
        /\ \A o \in CP!Objects : ~CP!ReleaseObject(o)
        /\ ~CP!InformerStep /\ ~CP!Crash
    BY ControllerAssumptions, CP!CallsAlone
  <1> QED
    BY <1>1, SameController
       DEF ControllerStep, ReleaseObject, C!HandlerStep, CP!HandlerStep, C!Objects,
           CP!Objects

LEMMA SnapshotCalled ==
  ASSUME CP!IndInv, ControllerStep,
         NEW c \in ControllerCalls, NEW s \in Snaps, CP!CreateSnapshot(c, s)
  PROVE  "snapshot" \in haste \/ (PodsGone /\ N!Unused)
  <1>1. CP!Called(c) /\ CP!Started(c, "CreateSnapshot", s)
    BY ControllerAssumptions, CP!CreateSnapshotStarted DEF CP!Called
  <1>2. (\E n \in Names : CallVolume(n)) \/ (\E x \in Snaps : CallSnapshot(x))
    BY <1>1, CalledBy
  <1>3. ASSUME NEW n \in Names, C!CallVolume(n) PROVE FALSE
    <2>1. PICK d \in ControllerCalls : CP!CreateVolume(d, n) \/ CP!DeleteVolume(d, n)
      BY <1>3, SameController DEF CP!CallVolume
    <2>2. CP!Started(d, "CreateVolume", n) \/ CP!Started(d, "DeleteVolume", n)
      BY <2>1, ControllerAssumptions, CP!CreateVolumeStarted, CP!DeleteVolumeStarted
    <2>3. ch \in [ControllerCalls -> CP!Handlers]
      BY DEF CP!IndInv, CP!TypeOK
    <2> QED
      BY <1>1, <2>2, <2>3 DEF CP!Started, CP!Steps, CP!CreateVolumeSteps,
         CP!DeleteVolumeSteps, CP!CreateSnapshotSteps, CP!DeleteSnapshotSteps,
         CP!RestoreSteps
  <1> QED
    BY <1>2, <1>3 DEF CallVolume, CallSnapshot

\* While no node has it the tree of a bound volume is what a pod left.
LEMMA TreeSaved ==
  ASSUME ClusterInv, SnapshotInv, phase[Vol] = "bound", NP!NodesIdle
  PROVE  mfs[Path] \in saved
  <1>1. ~volume.readonly /\ NP!Path = Path
    BY OneVolume DEF ClusterInv
  <1>2. mfs[Path] = data
    BY <1>1 DEF ClusterInv, NP!DataInv, NP!WrittenOK, NP!NodesIdle
  <1> QED
    BY <1>2 DEF SnapshotInv, NP!NodesIdle

\* A snapshot under way keeps its source.
LEMMA SourceStays ==
  ASSUME ClusterInv, OnlyOfVol, ControllerStep,
         NEW c \in ControllerCalls, CP!Taking(c), phase[Vol] = "bound"
  PROVE  phase'[Vol] = "bound"
  <1>1. CP!VolumeInv /\ CP!ControllerNext /\ Vol \in CP!Objects
    BY ControllerActs, ClusterAssumption DEF ClusterInv, CP!Objects
  <1>2. /\ ch[c].obj \in Snaps /\ phase[ch[c].obj] = "wanted"
        /\ CP!Calling(ch[c].obj)
    BY <1>1 DEF CP!VolumeInv, CP!IndInv, CP!HandlerOK, CP!OwnersInv, CP!PhasesOK,
                CP!Taking, CP!Calling
  <1>3. ~CP!ReleaseObject(Vol)
    BY <1>2 DEF CP!ReleaseObject, OnlyOfVol
  <1> QED
    BY <1>1, <1>3, ControllerAssumptions, CP!PhaseSteps

LEMMA ControllerSnapshots ==
  ASSUME ClusterInv, SnapshotInv, CP!DistinctIDs, OnlyOfVol, ControllerStep
  PROVE  SnapshotInv'
  <1>1. /\ CP!ControllerNext /\ UNCHANGED <<nodeVars, haste, saved>>
        /\ CP!VolumeInv /\ CP!IndInv /\ NP!TypeInv
    BY ControllerActs DEF ClusterInv, CP!VolumeInv
  <1>2. (data \in saved \/ \E nd \in Nodes : running[nd])'
    BY <1>1 DEF SnapshotInv, nodeVars
  <1>3. \A c \in ControllerCalls : CP!TakenFrom(c)'
    BY <1>1, ControllerAssumptions, CP!TakenFromKept DEF SnapshotInv
  <1>4. ASSUME "snapshot" \notin haste PROVE WholeSnapshots'
    <2> SUFFICES ASSUME NEW s \in Snaps, vsc'[s] # None, vsc'[s] # vsc[s]
                 PROVE  vsc'[s] \in saved
      BY <1>1, <1>4 DEF SnapshotInv, WholeSnapshots
    <2>1. PICK c \in ControllerCalls : CP!Taking(c) /\ CP!Took(c) /\ vsc'[s] = ch[c].cid
      BY <1>1, ControllerAssumptions, CP!SnapshotRecorded
    <2> QED
      BY <1>4, <2>1 DEF SnapshotInv, SnapshotOK
  <1>5. ASSUME "snapshot" \notin haste, NEW c \in ControllerCalls, CP!Taking(c)'
        PROVE  /\ phase'[Vol] = "bound" /\ NP!NodesIdle'
               /\ CP!Took(c)' => ch'[c].cid \in saved
    <2>0. ASSUME NP!NodesIdle PROVE NP!NodesIdle'
      BY <1>1, <2>0 DEF NP!NodesIdle, nodeVars
    <2>1. CASE CP!Taking(c) /\ ch'[c].obj = ch[c].obj
      <3>1. /\ phase[Vol] = "bound" /\ NP!NodesIdle
            /\ CP!Took(c) => ch[c].cid \in saved
        BY <1>5, <2>1 DEF SnapshotInv, SnapshotOK
      <3>2. phase'[Vol] = "bound"
        BY <2>1, <3>1, SourceStays
      <3>3. ASSUME CP!Took(c)' PROVE ch'[c].cid \in saved
        <4>1. CASE CP!Took(c) /\ ch'[c].cid = ch[c].cid
          BY <3>1, <4>1
        <4>2. CASE ch[c].pc = "cs_ResolveMFSCID" /\ ch'[c].cid = mfs[ch[c].path]
          <5>1. SourceOf[ch[c].obj] = Vol
            BY <1>1, <2>1 DEF CP!IndInv, CP!HandlerOK, CP!Taking, OnlyOfVol
          <5>2. ch[c].path = Path
            BY <1>1, <4>2, <5>1, OneVolume DEF SnapshotInv, CP!TakenFrom
          <5> QED
            BY <3>1, <4>2, <5>2, TreeSaved
        <4> QED
          BY <1>1, <1>5, <3>3, <4>1, <4>2, ControllerAssumptions, CP!TookWhat
      <3> QED
        BY <2>0, <3>1, <3>2, <3>3
    <2>2. ASSUME NEW s \in Snaps, CP!CreateSnapshot(c, s), ~CP!Took(c)'
          PROVE  phase'[Vol] = "bound" /\ NP!NodesIdle'
      <3>1. phase[Vol] = "bound" /\ phase' = phase
        BY <2>2 DEF CP!CreateSnapshot, CP!envVars, OnlyOfVol
      <3>2. PodsGone /\ N!Unused
        BY <1>1, <1>5, <2>2, SnapshotCalled
      <3>3. \A nd \in Nodes : NP!NodeOK(nd)
        BY <3>1 DEF ClusterInv, NP!DataInv
      <3>4. NP!NodesIdle
        BY <3>2, <3>3 DEF NP!NodesIdle, NP!NodeOK, PodsGone, N!Unused, N!Idle, NP!Idle
      <3> QED
        BY <2>0, <3>1, <3>4
    <2> QED
      BY <1>1, <1>5, <2>1, <2>2, ControllerAssumptions, CP!TakingBegins
  <1> QED
    BY <1>1, <1>2, <1>3, <1>4, <1>5 DEF SnapshotInv, SnapshotOK
LEMMA NodesSnapshots ==
  ASSUME ClusterInv, SnapshotInv, NodeActs, UNCHANGED <<controllerVars, haste>>
  PROVE  SnapshotInv'
  <1>1. /\ NP!TypeInv /\ UNCHANGED <<ch, claim, phase, vsc, haste>>
        /\ \A c \in ControllerCalls : CP!TakenFrom(c)' <=> CP!TakenFrom(c)
    BY DEF ClusterInv, controllerVars, CP!TakenFrom, CP!volumePath, CP!claimPath
  <1>2. \A x \in saved : x \in saved'
    BY DEF NodeActs
  <1>3. (data \in saved \/ \E nd \in Nodes : running[nd])'
    <2>1. ASSUME NEW nd \in Nodes, NP!PodStart(nd)
          PROVE  data' = data /\ running' = running
      BY <2>1 DEF NP!PodStart
    <2>2. ASSUME NEW nd \in Nodes, NP!PodStop(nd), saved' = saved \cup {data}
          PROVE  data' \in saved'
      BY <2>2 DEF NP!PodStop
    <2>3. CASE \/ \E c \in NodeCalls : \/ NP!HandlerStep(c) \/ NP!SkipImport(c)
                                       \/ NP!Reply(c) \/ NP!GiveUp(c)
               \/ \E nd \in Nodes : NP!KubeletCall(nd) \/ NP!PodWrite(nd)
      <3>1. /\ data' = data \/ \E nd \in Nodes : running'[nd]
            /\ \A nd \in Nodes : running[nd] => running'[nd]
        BY <1>1, <2>3, NodeAssumptions, NP!PodsStay
      <3> QED
        BY <1>2, <3>1 DEF SnapshotInv
    <2> QED
      BY <1>2, <2>1, <2>2, <2>3 DEF NodeActs, SnapshotInv
  <1>4. ASSUME "snapshot" \notin haste, NEW c \in ControllerCalls, CP!Taking(c)
        PROVE  FALSE
    <2>1. NP!NodesIdle
      BY <1>4 DEF SnapshotInv, SnapshotOK
    <2>2. CP!Calling(ch[c].obj) /\ ch[c].obj \in Snaps
      BY <1>4 DEF ClusterInv, CP!VolumeInv, CP!IndInv, CP!HandlerOK, CP!Taking,
                  CP!Calling
    <2> QED
      BY <1>4, <2>1, <2>2, NodeAssumptions, NP!IdleNodesRest DEF NodeActs
  <1>5. "snapshot" \notin haste => WholeSnapshots'
    BY <1>1, <1>2 DEF SnapshotInv, WholeSnapshots
  <1> QED
    BY <1>1, <1>3, <1>4, <1>5 DEF SnapshotInv, SnapshotOK, CP!Taking

(***************************************************************************)
(* With users who wait until no node has the volume before they snapshot   *)
(* it, every snapshot holds what a pod left in the volume, never a part of *)
(* an import: for any number of snapshots (all of this volume), nodes,     *)
(* calls and faults, and whatever other haste there is, so also with calls *)
(* that overlap (controller.go:499-503, client.go:477-577).                *)
(***************************************************************************)
THEOREM ClusterSnapshotsWhole ==
  ASSUME C!DistinctVolumes, N!KeepsData, OnlyOfVol
  PROVE  Spec => [](SnapshotWhole /\ ("snapshot" \notin haste => WholeSnapshots))
  <1>1. Init => ClusterInv /\ SnapshotInv
    BY ClusterInit, SnapshotInit
  <1>2. ClusterInv /\ SnapshotInv /\ [Next]_vars => ClusterInv' /\ SnapshotInv'
    <2> SUFFICES ASSUME ClusterInv, SnapshotInv, [Next]_vars
                 PROVE  ClusterInv' /\ SnapshotInv'
      OBVIOUS
    <2>1. ClusterInv'
      BY ClusterNext
    <2>2. CP!DistinctIDs
      BY SameHypotheses DEF C!DistinctVolumes
    <2>3. CASE UNCHANGED vars
      BY <2>1, <2>3
         DEF vars, controllerVars, nodeVars, SnapshotInv, SnapshotOK, WholeSnapshots,
             CP!TakenFrom, CP!Taking, CP!Took, CP!volumePath, CP!claimPath,
             NP!NodesIdle
    <2>4. CASE ControllerStep
      BY <2>1, <2>2, <2>4, ControllerSnapshots
    <2>5. CASE NodeStep
      BY <2>1, <2>5, NodesAct, NodesSnapshots
    <2> QED
      BY <2>3, <2>4, <2>5 DEF Next
  <1>3. SnapshotInv
          => SnapshotWhole /\ ("snapshot" \notin haste => WholeSnapshots)
    BY DEF SnapshotInv, SnapshotWhole
  <1> QED
    BY <1>1, <1>2, <1>3, PTL DEF Spec
-----------------------------------------------------------------------------
(***************************************************************************)
(* NothingLeft.  With patient users the calls come one after the other, so *)
(* that DeleteVolume finds its volume in the cache, and no node has the    *)
(* volume by the time it is released, so that none writes the tree anew.   *)
(***************************************************************************)
RemovalInv ==
  haste = {} =>
    /\ CP!Serial /\ CP!CachesOK
    /\ CP!Removal(Vol)
    /\ phase[Vol] \in {"released", "gone"} => NP!NodesIdle

LEMMA RemovalInit == Init => RemovalInv
  <1> SUFFICES ASSUME Init PROVE RemovalInv
    OBVIOUS
  <1>1. /\ \A c \in ControllerCalls : ch[c] = CP!Idle
        /\ phase[Vol] = "wanted"
        /\ pvEvents = <<>> /\ vscEvents = <<>> /\ pvCache = pv /\ vscCache = vsc
    BY FreshController, ClusterAssumption DEF CP!Fresh, Init
  <1>2. CP!Idle.pc = "idle" /\ CP!Idle.gone = "no" /\ CP!Idle.op # "DeleteVolume"
    BY ComponentAssumption DEF CP!Idle, C!Ops
  <1> QED
    BY <1>1, <1>2 DEF RemovalInv, CP!Serial, CP!CachesOK, CP!Removal

LEMMA ControllerRemoves ==
  ASSUME ClusterInv, RemovalInv, CP!DistinctVolumes, ControllerStep
  PROVE  RemovalInv'
  <1>1. /\ CP!ControllerNext /\ UNCHANGED <<nodeVars, haste>>
        /\ CP!VolumeInv /\ CP!RestoreInv /\ CP!IndInv /\ Vol \in Names
        /\ claim[Vol].cid = None /\ CP!volumePath(Vol) # None
    BY ControllerActs, OneVolume, ClusterAssumption DEF ClusterInv, CP!VolumeInv
  <1> SUFFICES ASSUME haste = {}
               PROVE  /\ CP!Serial' /\ CP!CachesOK' /\ CP!Removal(Vol)'
                      /\ phase'[Vol] \in {"released", "gone"} => NP!NodesIdle'
    BY <1>1 DEF RemovalInv
  <1>2. CP!Serial /\ CP!CachesOK /\ CP!Removal(Vol)
    BY DEF RemovalInv
  <1>3. ASSUME NEW c \in ControllerCalls, CP!Called(c) PROVE CP!Quiet
    BY <1>1, <1>3, CalledBy, SameController DEF CallVolume, CallSnapshot, MayCall
  <1>4. CP!Serial' /\ CP!CachesOK'
    BY <1>1, <1>2, <1>3, ControllerAssumptions, CP!SerialKept
  <1>5. CP!Removal(Vol)'
    BY <1>1, <1>2, ControllerAssumptions, CP!RemovalKept
  <1>6. ASSUME phase'[Vol] \in {"released", "gone"} PROVE NP!NodesIdle
    <2>1. CASE phase[Vol] \in {"released", "gone"}
      BY <2>1 DEF RemovalInv
    <2>2. CASE phase[Vol] \notin {"released", "gone"}
      <3>1. phase[Vol] = "bound" /\ phase'[Vol] = "released"
        BY <1>1, <1>6, <2>2, ControllerAssumptions, CP!PhaseSteps DEF CP!Objects
      <3>2. PodsGone /\ N!Unused
        BY <1>1, <3>1, VolReleased
      <3>3. \A nd \in Nodes : NP!NodeOK(nd)
        BY <3>1 DEF ClusterInv, NP!DataInv
      <3> QED
        BY <3>2, <3>3 DEF NP!NodesIdle, NP!NodeOK, PodsGone, N!Unused, N!Idle, NP!Idle
    <2> QED
      BY <2>1, <2>2
  <1> QED
    BY <1>1, <1>4, <1>5, <1>6 DEF NP!NodesIdle, nodeVars

LEMMA NodesRemove ==
  ASSUME ClusterInv, RemovalInv, NodeActs, UNCHANGED <<controllerVars, haste>>
  PROVE  RemovalInv'
  <1>1. /\ UNCHANGED <<ch, phase, claim, haste, pv, pvCache, pvEvents>>
        /\ UNCHANGED <<vsc, vscCache, vscEvents>>
    BY DEF controllerVars
  <1> SUFFICES ASSUME haste = {}
               PROVE  /\ CP!Serial' /\ CP!CachesOK' /\ CP!Removal(Vol)'
                      /\ phase'[Vol] \notin {"released", "gone"}
    BY <1>1 DEF RemovalInv
  <1>2. phase[Vol] = "bound"
    <2>1. ASSUME phase[Vol] \in {"released", "gone"} PROVE FALSE
      BY <2>1, NodeAssumptions, NP!IdleNodesRest DEF RemovalInv, NodeActs
    <2> QED
      BY <2>1, NodesWait
  <1>3. CP!Serial' /\ CP!CachesOK'
    BY <1>1 DEF RemovalInv, CP!Serial, CP!CachesOK, CP!CachesCurrent
  <1>4. faults' = 0 => faults = 0
    <2>1. faults \in Nat
      BY DEF ClusterInv, NP!TypeInv, NP!TypeOK
    <2>2. faults' = faults \/ faults' = faults + 1
      BY NodeSteps, NodeAssumptions, NP!NodeFaultsGrow
    <2> QED
      BY <2>1, <2>2
  <1>5. \A c \in ControllerCalls : ~(ch[c].op = "DeleteVolume" /\ ch[c].obj = Vol)
    BY <1>2 DEF ClusterInv, CP!VolumeInv, CP!OwnersInv, CP!PhasesOK
  <1>6. CP!Removal(Vol)'
    BY <1>1, <1>2, <1>4, <1>5 DEF RemovalInv, CP!Removal
  <1> QED
    BY <1>1, <1>2, <1>3, <1>6

(***************************************************************************)
(* With patient users and no failed call, a deleted volume leaves no MFS   *)
(* tree: for any number of volumes, snapshots, nodes and calls             *)
(* (utils.go:131-136, node.go:85-109).                                     *)
(***************************************************************************)
THEOREM ClusterLeavesNothing ==
  ASSUME C!DistinctVolumes, N!KeepsData
  PROVE  Spec => []NothingLeft
  <1>1. Init => ClusterInv /\ RemovalInv
    BY ClusterInit, RemovalInit
  <1>2. ClusterInv /\ RemovalInv /\ [Next]_vars => ClusterInv' /\ RemovalInv'
    <2> SUFFICES ASSUME ClusterInv, RemovalInv, [Next]_vars
                 PROVE  ClusterInv' /\ RemovalInv'
      OBVIOUS
    <2>1. ClusterInv' /\ CP!DistinctVolumes
      BY ClusterNext, SameHypotheses
    <2>2. CASE UNCHANGED vars
      BY <2>1, <2>2
         DEF vars, ipfsVars, controllerVars, nodeVars, RemovalInv, CP!Serial,
             CP!CachesOK, CP!CachesCurrent, CP!Removal, CP!volumePath, CP!claimPath,
             NP!NodesIdle
    <2>3. CASE ControllerStep
      BY <2>1, <2>3, ControllerRemoves
    <2>4. CASE NodeStep
      BY <2>1, <2>4, NodesAct, NodesRemove
    <2> QED
      BY <2>2, <2>3, <2>4 DEF Next
  <1>3. ClusterInv /\ RemovalInv => NothingLeft
    <2> SUFFICES ASSUME ClusterInv, RemovalInv, haste = {}, phase[Vol] = "gone",
                        faults = 0
                 PROVE  mfs[Path] = None
      BY DEF NothingLeft, TreeRemoved
    <2>1. CP!volumePath(Vol) = Path
      BY OneVolume DEF ClusterInv
    <2> QED
      BY <2>1 DEF RemovalInv, CP!Removal
  <1> QED
    BY <1>1, <1>2, <1>3, PTL DEF Spec

=============================================================================
