---------------------------- MODULE NodeService -----------------------------
(***************************************************************************)
(* pkg/driver/node.go: staging, publishing and unstaging one volume on the *)
(* nodes of a cluster.  A read-write volume lives in MFS; a node works on  *)
(* a copy in its staging directory and writes it back when it unstages.    *)
(* Unlike the controller, the node service takes no lock.                  *)
(*                                                                         *)
(* The kubelet, which issues the calls and retries them, and the pods are  *)
(* the environment; Allow says which of their freedoms an instance has.    *)
(***************************************************************************)
EXTENDS IpfsClient

CONSTANTS
  Nodes,
  Calls,       \* handler goroutines that may be alive at once
  VolumeSet,   \* the volumes tried, members of VolumeAttributes
  Content,     \* what the volume's MFS path holds at first
  Staging,     \* FALSE: NodePublishVolume comes without a staging path
  AllowFor,    \* [VolumeSet -> SUBSET Freedoms], the environment's freedoms
  MaxFaults, MaxWrites, MaxPods

(***************************************************************************)
(* ipfs_error       an IPFS call fails, or is carried out and seen to fail *)
(* rm_error         so does the rm with which an import begins             *)
(* mount_error      a mount or unmount fails                               *)
(* stage_timeout, publish_timeout, unstage_timeout                         *)
(*                  the kubelet gives up on a call that is still running   *)
(* plugin_restart   the driver process on the node dies                    *)
(* kubelet_restart  the kubelet forgets and asks for everything again      *)
(* pod_back         a pod returns to a node that has not finished unstaging*)
(* handover         a pod starts on one node while another still unstages  *)
(* stale_pv         an unstage finds no PV in the informer's cache         *)
(* rw_mount         a pod mounts a volume by CID read-write                *)
(***************************************************************************)
Freedoms ==
  {"ipfs_error", "rm_error", "mount_error", "stage_timeout",
   "publish_timeout", "unstage_timeout", "plugin_restart",
   "kubelet_restart", "pod_back", "handover", "stale_pv",
   "rw_mount"}

ASSUME NodeAssumption ==
  /\ VolumeSet \subseteq VolumeAttributes
  /\ \A v \in VolumeSet :
       v.mfspath \in Paths \cup {None} /\ (~v.readonly => v.mfspath # None)
  /\ Content \in CIDs
  /\ Staging \in BOOLEAN
  /\ AllowFor \in [VolumeSet -> SUBSET Freedoms]
  /\ MaxFaults \in Nat /\ MaxWrites \in Nat /\ MaxPods \in Nat
  /\ None \notin Nodes

VARIABLES
  volume,    \* the volume's attributes; never changes
  dir,       \* [Nodes -> CIDs \cup {None}]: the staging directory's files
             \* (or MountDir/<volume>'s, without staging); None: no directory
  mounted,   \* [Nodes -> SUBSET (1..MaxPods)]: the pods whose target path is
             \* a bind mount of dir (every pod has a target path of its own)
  h,         \* [Calls -> Handlers]
  pod,       \* [Nodes -> BOOLEAN]: a pod on the node wants the volume
  running,   \* [Nodes -> BOOLEAN]: its containers were started
  staged,    \* [Nodes -> {"no", "uncertain", "yes"}], as the kubelet knows
  published, \* likewise
  data,      \* history: the content the application left
  faults, writes, pods

nodeVars == <<dir, mounted>>
kubeletVars == <<volume, pod, running, staged, published, data, writes, pods>>
vars == <<ipfsVars, nodeVars, h, kubeletVars, faults>>

Path == volume.mfspath
Allow == AllowFor[volume]

FetchSteps == {"fetchContentToPath", "statMFS", "GetCIDContent"}
ImportSteps == {"RmMFS", "MkdirMFS", "OpenRoot", "cpMFS"}
Steps == FetchSteps \cup {"Mount", "Unmount", "GetVolumeAttributes"}
         \cup ImportSteps \cup {"CleanupMountPoint"}
Ops == {"Stage", "Publish", "Unpublish", "Unstage"}

Handlers ==
  [pc   : Steps \cup {"idle", "done"},
   op   : Ops \cup {None},
   node : Nodes \cup {None},
   cid  : CIDs \cup {None},
   todo : SUBSET Files,
   pod  : 0..MaxPods,           \* the pod whose target path it is given
   code : {"OK", "Internal", None},
   gone : {"no", "now", "before"}]

Idle ==
  [pc |-> "idle", op |-> None, node |-> None, cid |-> None, todo |-> {},
   pod |-> 0, code |-> None, gone |-> "no"]

Known == {"no", "uncertain", "yes"}

TypeOK ==
  /\ IpfsTypeOK
  /\ volume \in VolumeSet
  /\ dir \in [Nodes -> CIDs \cup {None}]
  /\ mounted \in [Nodes -> SUBSET (1..MaxPods)]
  /\ h \in [Calls -> Handlers]
  /\ pod \in [Nodes -> BOOLEAN]
  /\ running \in [Nodes -> BOOLEAN]
  /\ staged \in [Nodes -> Known]
  /\ published \in [Nodes -> Known]
  /\ data \in CIDs
  /\ faults \in 0..MaxFaults
  /\ writes \in 0..MaxWrites
  /\ pods \in 0..MaxPods

\* No node has the volume yet.
NodesInit ==
  /\ dir = [nd \in Nodes |-> None]
  /\ mounted = [nd \in Nodes |-> {}]
  /\ h = [c \in Calls |-> Idle]
  /\ pod = [nd \in Nodes |-> FALSE]
  /\ running = [nd \in Nodes |-> FALSE]
  /\ staged = [nd \in Nodes |-> "no"]
  /\ published = [nd \in Nodes |-> "no"]
  /\ faults = 0 /\ writes = 0 /\ pods = 0

Init ==
  /\ volume \in VolumeSet
  /\ pinned = {}
  /\ mfs = [p \in Paths |-> IF p = Path THEN Content
                            ELSE IF Path \in Below[p] THEN EmptyDir ELSE None]
  /\ data = IF volume.cid # None THEN volume.cid ELSE Content
  /\ NodesInit

-----------------------------------------------------------------------------
nextCall(g) == IF g = "no" THEN "no" ELSE "before"

Goto(c, pc, r) ==
  h' = [h EXCEPT ![c] = [r EXCEPT !.pc = pc, !.gone = nextCall(@)]]

\* Mutant: an error returned without a gRPC status.
Return_rawError(c, code) ==
  h' = [h EXCEPT ![c].pc = "done",
                 ![c].code = IF code = "OK" THEN "OK" ELSE "Unknown"]

Return(c, code) ==
  h' = [h EXCEPT ![c].pc = "done", ![c].code = code]

\* How a call to the IPFS node may end; kind is the freedom a failure needs.
Outcome(c, o, kind) ==
  /\ o \in Outcomes
  /\ \/ h[c].gone = "before" /\ o = "err" /\ UNCHANGED faults
     \/ h[c].gone = "now" /\ o # "ok" /\ UNCHANGED faults
     \/ h[c].gone = "no" /\ o = "ok" /\ UNCHANGED faults
     \/ /\ h[c].gone = "no" /\ o # "ok"
        /\ kind \in Allow /\ faults < MaxFaults /\ faults' = faults + 1

\* A local operation that fails on its own account.
LocalFailure(kind) ==
  kind \in Allow /\ faults < MaxFaults /\ faults' = faults + 1

\* The kubelet runs one operation at a time for a volume on a node.
Calling(nd) == \E c \in Calls : h[c].node = nd /\ h[c].gone = "no"

Request(c, op, nd, pc) ==
  /\ h[c].pc = "idle"
  /\ ~Calling(nd)
  /\ h' = [h EXCEPT ![c] = [Idle EXCEPT !.pc = pc, !.op = op, !.node = nd,
                                        !.pod = pods]]

-----------------------------------------------------------------------------
(***************************************************************************)
(* NodeStageVolume, NodePublishVolume.                                     *)
(***************************************************************************)
NodeStageVolume(c, nd) ==
  /\ Staging
  /\ pod[nd] /\ staged[nd] # "yes"
  /\ Request(c, "Stage", nd, "fetchContentToPath")
  /\ dir' = [dir EXCEPT ![nd] = IF @ = None THEN EmptyDir ELSE @]
  /\ UNCHANGED <<ipfsVars, mounted, kubeletVars, faults>>

NodePublishVolume(c, nd) ==
  /\ pod[nd] /\ published[nd] # "yes"
  /\ IF Staging
     THEN /\ staged[nd] = "yes"
          /\ Request(c, "Publish", nd, "Mount")
          /\ UNCHANGED dir
     ELSE /\ Request(c, "Publish", nd, "fetchContentToPath")
          /\ dir' = [dir EXCEPT ![nd] = IF @ = None THEN EmptyDir ELSE @]
  /\ UNCHANGED <<ipfsVars, mounted, kubeletVars, faults>>

(***************************************************************************)
(* fetchContentToPath: ensureEmptyDirectory, resolve the MFS path unless a *)
(* CID is given, download.  Without either there is nothing to do.         *)
(***************************************************************************)

\* Staging ends with the fetch; publishing goes on to the mount.
Fetched(c) ==
  IF h[c].op = "Stage" THEN Return(c, "OK") ELSE Goto(c, "Mount", h[c])

\* Mutant: the destination is not cleaned first.
fetchContentToPath_uncleaned(c) ==
  /\ h[c].pc = "fetchContentToPath"
  /\ IF volume.cid # None
     THEN Goto(c, "GetCIDContent", [h[c] EXCEPT !.cid = volume.cid])
     ELSE Goto(c, "statMFS", h[c])
  /\ UNCHANGED <<ipfsVars, nodeVars, kubeletVars, faults>>

fetchContentToPath(c) ==
  /\ h[c].pc = "fetchContentToPath"
  /\ IF volume.cid = None /\ Path = None
     THEN Fetched(c) /\ UNCHANGED dir
     ELSE /\ dir' = [dir EXCEPT ![h[c].node] = EmptyDir]
          /\ IF volume.cid # None
             THEN Goto(c, "GetCIDContent", [h[c] EXCEPT !.cid = volume.cid])
             ELSE Goto(c, "statMFS", h[c])
  /\ UNCHANGED <<ipfsVars, mounted, kubeletVars, faults>>

statMFS(c) ==
  /\ h[c].pc = "statMFS"
  /\ IF mfs[Path] = None
     THEN Return(c, "Internal") /\ UNCHANGED faults
     ELSE \E o \in Outcomes :
            /\ Outcome(c, o, "ipfs_error")
            /\ IF o = "ok"
               THEN Goto(c, "GetCIDContent", [h[c] EXCEPT !.cid = mfs[Path]])
               ELSE Return(c, "Internal")
  /\ UNCHANGED <<ipfsVars, nodeVars, kubeletVars>>

\* Mutant: a download that broke off counts as complete.
GetCIDContent_ignoresError(c) ==
  /\ h[c].pc = "GetCIDContent"
  /\ dir[h[c].node] # None
  /\ \E o \in {"ok", "err"}, part \in SUBSET h[c].cid :
       /\ Outcome(c, o, "ipfs_error")
       /\ o = "ok" => part = h[c].cid
       /\ dir' = [dir EXCEPT ![h[c].node] = @ \cup part]
  /\ Fetched(c)
  /\ UNCHANGED <<ipfsVars, mounted, kubeletVars>>

\* What a download writes, where there is a directory to write to.
Written(d, files) == IF d = None THEN None ELSE d \cup files

\* A download that fails leaves some of the files.  It fails at a file that
\* is there already, and at the first one when there is no directory.
GetCIDContent(c) ==
  /\ h[c].pc = "GetCIDContent"
  /\ LET nd == h[c].node
         blocked == IF dir[nd] = None THEN h[c].cid # {}
                    ELSE dir[nd] \cap h[c].cid # {}
     IN  \/ /\ ~blocked
            /\ Outcome(c, "ok", "ipfs_error")
            /\ dir' = [dir EXCEPT ![nd] = Written(@, h[c].cid)]
            /\ Fetched(c)
         \/ /\ IF blocked THEN UNCHANGED faults
               ELSE Outcome(c, "err", "ipfs_error")
            /\ \E part \in SUBSET h[c].cid :
                 /\ h[c].gone = "before" => part = {}
                 /\ dir' = [dir EXCEPT ![nd] = Written(@, part)]
            /\ Return(c, "Internal")
  /\ UNCHANGED <<ipfsVars, mounted, kubeletVars>>

\* The rest of NodePublishVolume: a target already mounted is left alone.
Mount(c) ==
  /\ h[c].pc = "Mount"
  /\ LET nd == h[c].node
         isMnt == h[c].pod \in mounted[nd]
     IN  \/ /\ isMnt
            /\ Return(c, "OK")
            /\ UNCHANGED <<mounted, faults>>
         \/ /\ ~isMnt /\ dir[nd] # None
            /\ mounted' = [mounted EXCEPT ![nd] = @ \cup {h[c].pod}]
            /\ Return(c, "OK")
            /\ UNCHANGED faults
         \/ /\ ~isMnt /\ dir[nd] = None
            /\ Return(c, "Internal")
            /\ UNCHANGED <<mounted, faults>>
         \/ /\ ~isMnt
            /\ LocalFailure("mount_error")
            /\ Return(c, "Internal")
            /\ UNCHANGED mounted
  /\ UNCHANGED <<ipfsVars, dir, kubeletVars>>

-----------------------------------------------------------------------------
(***************************************************************************)
(* NodeUnpublishVolume: unmount the target if it is mounted.               *)
(***************************************************************************)
NodeUnpublishVolume(c, nd) ==
  /\ ~pod[nd] /\ published[nd] # "no"
  /\ Request(c, "Unpublish", nd, "Unmount")
  /\ UNCHANGED <<ipfsVars, nodeVars, kubeletVars, faults>>

Unmount(c) ==
  /\ h[c].pc = "Unmount"
  /\ \/ /\ mounted' = [mounted EXCEPT ![h[c].node] = @ \ {h[c].pod}]
        /\ Return(c, "OK")
        /\ UNCHANGED faults
     \/ /\ h[c].pod \in mounted[h[c].node]
        /\ LocalFailure("mount_error")
        /\ Return(c, "Internal")
        /\ UNCHANGED mounted
  /\ UNCHANGED <<ipfsVars, dir, kubeletVars>>

(***************************************************************************)
(* NodeUnstageVolume: for a read-write volume, ImportToMFS from the        *)
(* staging directory; then remove the directory if that can be done.  The  *)
(* kubelet is uncertain of the staging from the moment it asks.            *)
(***************************************************************************)
NodeUnstageVolume(c, nd) ==
  /\ ~pod[nd] /\ published[nd] = "no" /\ staged[nd] # "no"
  /\ Request(c, "Unstage", nd, "GetVolumeAttributes")
  /\ staged' = [staged EXCEPT ![nd] = "uncertain"]
  /\ UNCHANGED <<ipfsVars, nodeVars, volume, pod, running, published, data, writes, pods, faults>>

\* A PV that is not in the cache: "skipping MFS import".
SkipImport(c) ==
  /\ h[c].pc = "GetVolumeAttributes"
  /\ Goto(c, "CleanupMountPoint", h[c])
  /\ UNCHANGED <<ipfsVars, nodeVars, kubeletVars>>

us_GetVolumeAttributes(c) ==
  \/ /\ h[c].pc = "GetVolumeAttributes"
     /\ Goto(c, IF ~volume.readonly /\ Path # None THEN "RmMFS"
                ELSE "CleanupMountPoint", h[c])
     /\ UNCHANGED <<ipfsVars, nodeVars, kubeletVars, faults>>
  \/ SkipImport(c) /\ LocalFailure("stale_pv")

\* ImportToMFS: rm (its error ignored), mkdir, open the directory, walk it.
us_RmMFS(c) ==
  /\ h[c].pc = "RmMFS"
  /\ \E o \in Outcomes :
       /\ Outcome(c, o, IF o = "late" THEN "ipfs_error" ELSE "rm_error")
       /\ RmMFS(Path, o)
  /\ Goto(c, "MkdirMFS", h[c])
  /\ UNCHANGED <<pinned, nodeVars, kubeletVars>>

us_MkdirMFS(c) ==
  /\ h[c].pc = "MkdirMFS"
  /\ \E o \in Outcomes :
       /\ Outcome(c, o, "ipfs_error")
       /\ MkdirMFS(Path, o)
       /\ IF o = "ok" THEN Goto(c, "OpenRoot", h[c]) ELSE Return(c, "Internal")
  /\ UNCHANGED <<pinned, nodeVars, kubeletVars>>

us_OpenRoot(c) ==
  /\ h[c].pc = "OpenRoot"
  /\ IF dir[h[c].node] = None THEN Return(c, "Internal")
     ELSE Goto(c, "cpMFS", [h[c] EXCEPT !.todo = dir[h[c].node]])
  /\ UNCHANGED <<ipfsVars, nodeVars, kubeletVars, faults>>

\* Mutant: a file that cannot be copied is skipped.
us_cpMFS_skipsFailed(c) ==
  /\ h[c].pc = "cpMFS"
  /\ \/ /\ h[c].todo = {}
        /\ Goto(c, "CleanupMountPoint", h[c])
        /\ UNCHANGED <<mfs, faults>>
     \/ \E f \in h[c].todo, o \in Outcomes :
          /\ ~cpRefused(f, Path)
          /\ Outcome(c, o, "ipfs_error")
          /\ cpMFS(f, Path, o)
          /\ Goto(c, "cpMFS", [h[c] EXCEPT !.todo = @ \ {f}])
  /\ UNCHANGED <<pinned, nodeVars, kubeletVars>>

us_cpMFS(c) ==
  /\ h[c].pc = "cpMFS"
  /\ \/ /\ h[c].todo = {}
        /\ Goto(c, "CleanupMountPoint", h[c])
        /\ UNCHANGED <<mfs, faults>>
     \/ \E f \in h[c].todo :
          IF cpRefused(f, Path)
          THEN Return(c, "Internal") /\ UNCHANGED <<mfs, faults>>
          ELSE \E o \in Outcomes :
                 /\ Outcome(c, o, "ipfs_error")
                 /\ cpMFS(f, Path, o)
                 /\ IF o = "ok"
                    THEN Goto(c, "cpMFS", [h[c] EXCEPT !.todo = @ \ {f}])
                    ELSE Return(c, "Internal")
  /\ UNCHANGED <<pinned, nodeVars, kubeletVars>>

\* Mutant: a directory that cannot be removed is an error.
CleanupMountPoint_strict(c) ==
  /\ h[c].pc = "CleanupMountPoint"
  /\ dir' = [dir EXCEPT ![h[c].node] = IF @ = EmptyDir THEN None ELSE @]
  /\ Return(c, IF dir[h[c].node] \in {EmptyDir, None} THEN "OK" ELSE "Internal")
  /\ UNCHANGED <<ipfsVars, mounted, kubeletVars, faults>>

\* os.Remove: an empty directory goes, one with files stays with a warning.
CleanupMountPoint(c) ==
  /\ h[c].pc = "CleanupMountPoint"
  /\ dir' = [dir EXCEPT ![h[c].node] = IF @ = EmptyDir THEN None ELSE @]
  /\ Return(c, "OK")
  /\ UNCHANGED <<ipfsVars, mounted, kubeletVars, faults>>

-----------------------------------------------------------------------------
(***************************************************************************)
(* The kubelet's end of a call.  Errors are final: what was asked for did  *)
(* not happen, and is asked for again if it is still wanted.               *)
(***************************************************************************)
Reply(c) ==
  /\ h[c].pc = "done"
  /\ h' = [h EXCEPT ![c] = Idle]
  /\ LET nd == h[c].node
         heard == h[c].gone = "no"
         ok == h[c].code = "OK"
     IN  /\ staged' =
              IF heard /\ h[c].op = "Stage"
              THEN [staged EXCEPT ![nd] = IF ok THEN "yes" ELSE "no"]
              ELSE IF heard /\ ok /\ h[c].op = "Unstage"
              THEN [staged EXCEPT ![nd] = "no"]
              ELSE staged
         /\ published' =
              IF heard /\ ok /\ h[c].op = "Publish"
              THEN [published EXCEPT ![nd] = "yes"]
              ELSE IF heard /\ ok /\ h[c].op = "Unpublish"
              THEN [published EXCEPT ![nd] = "no"]
              ELSE published
         /\ running' =
              IF heard /\ ok /\ h[c].op = "Publish" /\ pod[nd]
              THEN [running EXCEPT ![nd] = TRUE]
              ELSE running
  /\ UNCHANGED <<ipfsVars, nodeVars, volume, pod, data, writes, pods, faults>>

\* A call without an answer leaves its effect uncertain.
Doubt(know, nd) == [know EXCEPT ![nd] = "uncertain"]

TimeoutKind(op) ==
  IF op = "Stage" THEN "stage_timeout"
  ELSE IF op = "Unstage" THEN "unstage_timeout" ELSE "publish_timeout"

GiveUp(c) ==
  /\ h[c].pc # "idle" /\ h[c].gone = "no"
  /\ LocalFailure(TimeoutKind(h[c].op))
  /\ h' = [h EXCEPT ![c].gone = "now"]
  /\ IF h[c].op \in {"Stage", "Unstage"}
     THEN staged' = Doubt(staged, h[c].node) /\ UNCHANGED published
     ELSE published' = Doubt(published, h[c].node) /\ UNCHANGED staged
  /\ UNCHANGED <<ipfsVars, nodeVars, volume, pod, running, data, writes, pods>>

\* The driver dies with its handlers; directories and mounts stay.
PluginRestart(nd) ==
  /\ LocalFailure("plugin_restart")
  /\ \E c \in Calls : h[c].node = nd
  /\ h' = [c \in Calls |-> IF h[c].node = nd THEN Idle ELSE h[c]]
  /\ LET ops == {h[c].op : c \in {d \in Calls : h[d].node = nd /\ h[d].gone = "no"}}
     IN  /\ staged' = IF ops \cap {"Stage", "Unstage"} # {}
                      THEN Doubt(staged, nd) ELSE staged
         /\ published' = IF ops \cap {"Publish", "Unpublish"} # {}
                         THEN Doubt(published, nd) ELSE published
  /\ UNCHANGED <<ipfsVars, nodeVars, volume, pod, running, data, writes, pods>>

\* It finds the volume on disk again and is certain of nothing.
KubeletRestart(nd) ==
  /\ ~Calling(nd)
  /\ staged[nd] = "yes" \/ published[nd] = "yes"
  /\ LocalFailure("kubelet_restart")
  /\ staged' = IF staged[nd] = "yes" THEN Doubt(staged, nd) ELSE staged
  /\ published' = IF published[nd] = "yes" THEN Doubt(published, nd) ELSE published
  /\ UNCHANGED <<ipfsVars, nodeVars, h, volume, pod, running, data, writes, pods>>

-----------------------------------------------------------------------------
(***************************************************************************)
(* One pod at a time uses the volume (ReadWriteOnce, and a workload of one *)
(* replica).                                                               *)
(***************************************************************************)
Unpublished(nd) ==
  /\ ~pod[nd] /\ published[nd] = "no"
  /\ ~ \E c \in Calls : /\ h[c].node = nd /\ h[c].gone = "no"
                        /\ h[c].op \in {"Publish", "Unpublish"}

Unstaged(nd) == staged[nd] = "no" /\ ~Calling(nd)

PodStart(nd) ==
  /\ pods < MaxPods
  /\ \A m \in Nodes : Unpublished(m)
  /\ Unstaged(nd) \/ "pod_back" \in Allow
  /\ (\A m \in Nodes \ {nd} : Unstaged(m)) \/ "handover" \in Allow
  /\ pod' = [pod EXCEPT ![nd] = TRUE]
  /\ pods' = pods + 1
  /\ UNCHANGED <<ipfsVars, nodeVars, h, volume, running, staged, published, data, writes, faults>>

PodStop(nd) ==
  /\ pod[nd]
  /\ pod' = [pod EXCEPT ![nd] = FALSE]
  /\ running' = [running EXCEPT ![nd] = FALSE]
  /\ UNCHANGED <<ipfsVars, nodeVars, h, volume, staged, published, data, writes, pods, faults>>

\* The mount is "ro" if the request says so, whatever the volume is.
PodWrite(nd) ==
  /\ running[nd]
  /\ ~volume.readonly \/ "rw_mount" \in Allow
  /\ dir[nd] # None
  /\ writes < MaxWrites
  /\ writes' = writes + 1
  /\ data' \in CIDs \ {dir[nd]}
  /\ dir' = [dir EXCEPT ![nd] = data']
  /\ UNCHANGED <<ipfsVars, mounted, h, volume, pod, running, staged, published, pods, faults>>

-----------------------------------------------------------------------------
KubeletCall(nd) ==
  \E c \in Calls :
    \/ NodeStageVolume(c, nd) \/ NodePublishVolume(c, nd)
    \/ NodeUnpublishVolume(c, nd) \/ NodeUnstageVolume(c, nd)

HandlerStep(c) ==
  \/ fetchContentToPath(c) \/ statMFS(c) \/ GetCIDContent(c)
  \/ Mount(c) \/ Unmount(c)
  \/ us_GetVolumeAttributes(c) \/ us_RmMFS(c) \/ us_MkdirMFS(c)
  \/ us_OpenRoot(c) \/ us_cpMFS(c) \/ CleanupMountPoint(c)

Next ==
  \/ \E c \in Calls : HandlerStep(c) \/ Reply(c) \/ GiveUp(c)
  \/ \E nd \in Nodes : KubeletCall(nd) \/ PluginRestart(nd) \/ KubeletRestart(nd)
  \/ \E nd \in Nodes : PodStart(nd) \/ PodStop(nd) \/ PodWrite(nd)

Spec == Init /\ [][Next]_vars

\* gRPC runs and answers every handler; the kubelet's reconciler never rests.
Fairness ==
  /\ \A c \in Calls : WF_vars(HandlerStep(c)) /\ WF_vars(Reply(c))
  /\ \A nd \in Nodes : WF_vars(KubeletCall(nd))

FairSpec == Spec /\ Fairness

-----------------------------------------------------------------------------
(***************************************************************************)
(* The freedoms that cost no data.  A volume as CreateVolume makes them is *)
(* either read-only, with a CID, or read-write, at a path.  What is only   *)
(* read survives all but a second fetch under a running pod, a pod that    *)
(* writes to it after all, and being empty: a late unstage then removes    *)
(* its directory.  What is written survives errors, if not of the rm with  *)
(* which an import begins, and no call may go on unheard but a publish.    *)
(***************************************************************************)
SafeFor(v) ==
  IF v.readonly
  THEN /\ v.cid \notin {None, EmptyDir}
       /\ AllowFor[v] \cap {"stage_timeout", "kubelet_restart", "rw_mount"} = {}
  ELSE /\ v.cid = None
       /\ AllowFor[v] \subseteq {"ipfs_error", "mount_error", "publish_timeout"}

KeepsData == Staging /\ \A v \in VolumeSet : SafeFor(v)

\* No pod starts on one node while another still unstages.
OneNodeAtATime == \A v \in VolumeSet : "handover" \notin AllowFor[v]

(***************************************************************************)
(* PodSeesData: a running pod finds in its volume what the application     *)
(* last wrote there, whichever node wrote it (docs/docs/intro.md:7:        *)
(* "persists volume data in IPFS"; node.go:354-409, 67-117).               *)
(***************************************************************************)
PodSeesData == \A nd \in Nodes : running[nd] => dir[nd] = data

(***************************************************************************)
(* DataKept: when no node has the volume staged and no call is under way,  *)
(* the MFS tree of a read-write volume is what the application last wrote, *)
(* no more and no less, whatever failed on the way (node.go:92-109,        *)
(* client.go:477-577).                                                     *)
(***************************************************************************)
Unused == (\A nd \in Nodes : staged[nd] = "no") /\ (\A c \in Calls : h[c] = Idle)

DataKept == Unused /\ ~volume.readonly => mfs[Path] = data

(***************************************************************************)
(* ImplementsRegister: seen through its staging directory while a node has *)
(* the volume and through MFS otherwise, a read-write volume is a          *)
(* SharedVolume: staging on any node, unstaging, their failures and their  *)
(* retries never change its content, only writes do (node.go:33-117,       *)
(* 354-409, client.go:445-577).                                            *)
(***************************************************************************)
InUse == {nd \in Nodes : staged[nd] # "no"}

VolumeContent ==
  IF volume.readonly THEN volume.cid
  ELSE IF \E nd \in InUse : dir[nd] # None
  THEN UNION {dir[nd] : nd \in {m \in InUse : dir[m] # None}}
  ELSE mfs[Path]

Register == INSTANCE SharedVolume
              WITH Contents <- CIDs, content <- VolumeContent, open <- InUse

ImplementsRegister == Register!Spec

(***************************************************************************)
(* UnstageCompletes: a volume no pod of the node wants is unstaged in the  *)
(* end, by retries where calls fail (node.go:67-117).                      *)
(***************************************************************************)
UnstageCompletes ==
  \A nd \in Nodes :
    ~pod[nd] /\ staged[nd] # "no" ~> pod[nd] \/ staged[nd] = "no"

(***************************************************************************)
(* PodStarts: a pod that keeps wanting the volume gets it mounted          *)
(* (node.go:33-61, 123-197).                                               *)
(***************************************************************************)
PodStarts == \A nd \in Nodes : pod[nd] ~> running[nd] \/ ~pod[nd]

=============================================================================
