----------------------------- MODULE Controller -----------------------------
(***************************************************************************)
(* pkg/driver/controller.go: the four controller RPCs that change state,   *)
(* as goroutines of one driver process.  A handler is split at every call  *)
(* that leaves the process (the IPFS node) and at every read of an         *)
(* informer cache, since other handlers run between those points.          *)
(*                                                                         *)
(* The callers (external-provisioner and external-snapshotter), the users  *)
(* behind them and the node plugin are the environment.                    *)
(***************************************************************************)
EXTENDS VolumeLocks, IpfsClient, Stores

CONSTANTS
  Calls,            \* handler goroutines that may be alive at once
  SourceOf,         \* [Snaps -> Names], the volume a snapshot is taken of
  ClaimSet,         \* the StorageClass parameters and sources tried
  PinFailurePolicy, \* "strict" or "best-effort"
  SnapshotStore,    \* FALSE: snapshotStore is nil, the CRD was not installed
  Overlap,          \* FALSE: a call starts only when nothing else goes on
  MaxFaults,        \* failed or abandoned calls and crashes
  MaxWrites         \* contents written by the node plugin

Objects == Names \cup Snaps

\* CreateVolume's parameters and content source.
Claims ==
  [cid     : CIDs \cup {None},
   mfspath : RawPaths \cup {None},
   pinning : BOOLEAN,
   source  : Snaps \cup {None, Unsupported}]

Ops == {"CreateVolume", "DeleteVolume", "CreateSnapshot", "DeleteSnapshot"}

ASSUME ControllerAssumption ==
  /\ SourceOf \in [Snaps -> Names]
  /\ ClaimSet \subseteq [Names -> Claims]
  /\ PinFailurePolicy \in {"strict", "best-effort"}
  /\ SnapshotStore \in BOOLEAN
  /\ Overlap \in BOOLEAN
  /\ MaxFaults \in Nat
  /\ MaxWrites \in Nat
  /\ None \notin Objects \cup Ops
  /\ Unsupported \notin Snaps

VARIABLES
  h,        \* [Calls -> Handlers], the state of each handler goroutine
  claim,    \* [Names -> Claims], what each PVC asks for; never changes
  phase,    \* [Objects -> Phases], where Kubernetes is with each object
  held,     \* objects whose successful create call pinned their CID
  faults, writes

vars == <<locks, ipfsVars, storeVars, h, claim, phase, held, faults, writes>>

Phases == {"wanted", "bound", "released", "gone"}

Codes == {"OK", "InvalidArgument", "NotFound", "Aborted", "Internal",
          "FailedPrecondition"}

\* Lock keys: the volume ID, "snapshot-" + name, "delete-snapshot-" + CID.
VolumeKey(id) == <<"volume", id>>
SnapshotKey(s) == <<"snapshot", s>>
DeleteSnapshotKey(c) == <<"delete-snapshot", c>>

Keys == {VolumeKey(id) : id \in VolumeIDs}
        \cup {SnapshotKey(s) : s \in Snaps}
        \cup {DeleteSnapshotKey(c) : c \in CIDs}

\* Where a handler that holds its lock can be: the call it makes next.
RestoreSteps == {"rs_StatCID", "rs_GetCIDContent", "rs_RmMFS", "rs_MkdirMFS",
                 "rs_cpMFS"}
CreateVolumeSteps == {"cv_StatCID", "cv_PinCID", "cv_MkdirMFS"}
                     \cup RestoreSteps
DeleteVolumeSteps == {"dv_GetVolumeAttributes", "dv_ListVolumes",
                      "dv_ListSnapshots", "dv_UnpinCID", "dv_RmMFS"}
CreateSnapshotSteps == {"cs_GetVolumeAttributes", "cs_ResolveMFSCID",
                        "cs_PinCID"}
DeleteSnapshotSteps == {"ds_ListVolumes", "ds_ListSnapshots", "ds_UnpinCID"}
Steps == CreateVolumeSteps \cup DeleteVolumeSteps
         \cup CreateSnapshotSteps \cup DeleteSnapshotSteps

Handlers ==
  [pc    : Steps \cup {"idle", "done"},
   op    : Ops \cup {None},
   obj   : Objects \cup {None},         \* the object the call is for
   key   : Keys \cup {None},            \* the lock it takes
   cid   : CIDs \cup {None},
   path  : Paths \cup {None},
   todo  : SUBSET Files,                \* files its import has yet to copy
   refs  : BOOLEAN,                     \* volumeRefs > 0, as it was read
   pinok : BOOLEAN,                     \* its PinCID succeeded
   code  : Codes \cup {None},
   gone  : {"no", "now", "before"}]     \* the caller gave up during the
                                        \* call made next, or before it

Idle ==
  [pc |-> "idle", op |-> None, obj |-> None, key |-> None, cid |-> None,
   path |-> None, todo |-> {}, refs |-> FALSE, pinok |-> FALSE,
   code |-> None, gone |-> "no"]

\* Holding: between a successful TryAcquire and the deferred Release.
Holding(c) == h[c].pc \in Steps

TypeOK ==
  /\ locks \subseteq Keys
  /\ IpfsTypeOK
  /\ StoresTypeOK
  /\ h \in [Calls -> Handlers]
  /\ claim \in [Names -> Claims]
  /\ phase \in [Objects -> Phases]
  /\ held \subseteq Objects
  /\ faults \in 0..MaxFaults
  /\ writes \in 0..MaxWrites

Init ==
  /\ locks = NewVolumeLocks
  /\ IpfsInit
  /\ StoresInit
  /\ h = [c \in Calls |-> Idle]
  /\ claim \in ClaimSet
  /\ phase = [o \in Objects |-> "wanted"]
  /\ held = {}
  /\ faults = 0
  /\ writes = 0

-----------------------------------------------------------------------------
(***************************************************************************)
(* How handlers move.                                                      *)
(***************************************************************************)
envVars == <<storeVars, claim, phase, held, writes>>

\* ctx, once done, stays done for the calls that follow.
nextCall(g) == IF g = "no" THEN "no" ELSE "before"

\* The next call a handler makes, with the fields it has changed.
Goto(c, pc, r) ==
  h' = [h EXCEPT ![c] = [r EXCEPT !.pc = pc, !.gone = nextCall(@)]]

\* return: the deferred Release runs before the reply leaves.
Finish(c, code, r) ==
  /\ h' = [h EXCEPT ![c] = [r EXCEPT !.pc = "done", !.code = code,
                                     !.gone = nextCall(@)]]
  /\ Release(h[c].key)

(***************************************************************************)
(* A failure spends from the budget.  A call whose ctx is already done is  *)
(* never sent; one under way when ctx ends may be carried out all the same.*)
(***************************************************************************)
Outcome(c, o) ==
  /\ o \in Outcomes
  /\ \/ h[c].gone = "before" /\ o = "err" /\ UNCHANGED faults
     \/ h[c].gone = "now" /\ o # "ok" /\ UNCHANGED faults
     \/ h[c].gone = "no" /\ faults' = IF o = "ok" THEN faults ELSE faults + 1
  /\ faults' <= MaxFaults

Quiet == (\A c \in Calls : h[c].pc = "idle") /\ CachesCurrent

(***************************************************************************)
(* A sidecar has at most one call under way for an object, and knows       *)
(* nothing of the ones it gave up on.                                      *)
(***************************************************************************)
Calling(o) == \E c \in Calls : h[c].obj = o /\ h[c].gone = "no"

MayCall(c, o) ==
  /\ h[c].pc = "idle"
  /\ ~Calling(o)
  /\ Overlap \/ Quiet

\* The handler as its first lines leave it, and an answer they give at once.
Request(op, o, key) ==
  [Idle EXCEPT !.op = op, !.obj = o, !.key = key]

Refuse(c, r, code) ==
  /\ h' = [h EXCEPT ![c] = [r EXCEPT !.pc = "done", !.code = code]]
  /\ UNCHANGED locks

-----------------------------------------------------------------------------
(***************************************************************************)
(* CreateVolume.                                                           *)
(***************************************************************************)
InvalidSource(k) ==
  k.source = Unsupported \/ (k.source \in Snaps /\ k.cid # None)

\* The MFS path of a read-write volume; None is InvalidArgument.
claimPath(k, n) ==
  normalizeMFSPath(IF k.mfspath # None THEN k.mfspath
                   ELSE DefaultPath[sanitizeVolumeID[n]])

\* Mutant: what is checked is the clean form, what is used is not.
volumePath_uncleaned(n) ==
  IF claimPath(claim[n], n) # None /\ claim[n].mfspath # None
  THEN claim[n].mfspath ELSE claimPath(claim[n], n)

volumePath(n) == claimPath(claim[n], n)

CreateVolume(c, n) ==
  /\ MayCall(c, n)
  /\ phase[n] = "wanted"
  /\ claim[n].source \in Snaps => phase[claim[n].source] = "bound"
  /\ LET k == claim[n]
         key == VolumeKey(sanitizeVolumeID[n])
         r == Request("CreateVolume", n, key)
     IN  \/ /\ InvalidSource(k)
            /\ Refuse(c, r, "InvalidArgument")
         \/ /\ ~InvalidSource(k)
            /\ AcquireRefused(key)
            /\ Refuse(c, r, "Aborted")
         \/ /\ ~InvalidSource(k) /\ k.cid # None
            /\ TryAcquire(key)
            /\ Goto(c, "cv_StatCID", [r EXCEPT !.cid = k.cid])
         \/ /\ ~InvalidSource(k) /\ k.cid = None /\ volumePath(n) # None
            /\ TryAcquire(key)
            /\ Goto(c, "cv_MkdirMFS",
                    [r EXCEPT !.path = volumePath(n),
                              !.cid = IF k.source = None THEN None
                                      ELSE vsc[k.source]])
         \/ /\ ~InvalidSource(k) /\ k.cid = None /\ volumePath(n) = None
            /\ key \notin locks
            /\ Refuse(c, r, "InvalidArgument")
  /\ UNCHANGED <<ipfsVars, envVars, faults>>

\* case cid != "": the stat, then the pin the policy may require.
cv_StatCID(c) ==
  /\ h[c].pc = "cv_StatCID"
  /\ \E o \in Outcomes, exists \in BOOLEAN :
       /\ Outcome(c, o)
       /\ StatCID(h[c].cid, exists)
       /\ IF o # "ok" THEN Finish(c, "Internal", h[c])
          ELSE IF ~exists THEN Finish(c, "NotFound", h[c])
          ELSE IF claim[h[c].obj].pinning
          THEN Goto(c, "cv_PinCID", h[c]) /\ UNCHANGED locks
          ELSE Finish(c, "OK", h[c])
  /\ UNCHANGED <<ipfsVars, envVars>>

\* Mutant: the policy is not looked at.
cv_PinCID_bestEffort(c) ==
  /\ h[c].pc = "cv_PinCID"
  /\ \E o \in Outcomes :
       /\ Outcome(c, o)
       /\ PinCID(h[c].cid, o)
       /\ Finish(c, "OK", [h[c] EXCEPT !.pinok = (o = "ok")])
  /\ UNCHANGED <<mfs, envVars>>

cv_PinCID(c) ==
  /\ h[c].pc = "cv_PinCID"
  /\ \E o \in Outcomes :
       /\ Outcome(c, o)
       /\ PinCID(h[c].cid, o)
       /\ IF o = "ok" THEN Finish(c, "OK", [h[c] EXCEPT !.pinok = TRUE])
          ELSE IF PinFailurePolicy = "best-effort" THEN Finish(c, "OK", h[c])
          ELSE Finish(c, "Internal", h[c])
  /\ UNCHANGED <<mfs, envVars>>

\* The two read-write cases; a snapshot source goes on to the restore.
cv_MkdirMFS(c) ==
  /\ h[c].pc = "cv_MkdirMFS"
  /\ \E o \in Outcomes :
       /\ Outcome(c, o)
       /\ MkdirMFS(h[c].path, o)
       /\ IF o # "ok" THEN Finish(c, "Internal", h[c])
          ELSE IF h[c].cid = None THEN Finish(c, "OK", h[c])
          ELSE Goto(c, "rs_StatCID", h[c]) /\ UNCHANGED locks
  /\ UNCHANGED <<pinned, envVars>>

-----------------------------------------------------------------------------
(***************************************************************************)
(* restoreSnapshotToMFS: fetch the snapshot into a temporary directory,    *)
(* then ImportToMFS from it.                                               *)
(***************************************************************************)
rs_StatCID(c) ==
  /\ h[c].pc = "rs_StatCID"
  /\ \E o \in Outcomes, exists \in BOOLEAN :
       /\ Outcome(c, o)
       /\ StatCID(h[c].cid, exists)
       /\ IF o # "ok" THEN Finish(c, "Internal", h[c])
          ELSE IF ~exists THEN Finish(c, "NotFound", h[c])
          ELSE Goto(c, "rs_GetCIDContent", h[c]) /\ UNCHANGED locks
  /\ UNCHANGED <<ipfsVars, envVars>>

\* Mutant: a failed download is imported all the same.
rs_GetCIDContent_ignoresError(c) ==
  /\ h[c].pc = "rs_GetCIDContent"
  /\ \E o \in Outcomes :
       /\ Outcome(c, o)
       /\ Goto(c, "rs_RmMFS",
               [h[c] EXCEPT !.todo = IF o = "ok" THEN h[c].cid ELSE {}])
  /\ UNCHANGED <<locks, ipfsVars, envVars>>

rs_GetCIDContent(c) ==
  /\ h[c].pc = "rs_GetCIDContent"
  /\ \E o \in Outcomes :
       /\ Outcome(c, o)
       /\ IF o # "ok" THEN Finish(c, "Internal", h[c])
          ELSE /\ Goto(c, "rs_RmMFS", [h[c] EXCEPT !.todo = h[c].cid])
               /\ UNCHANGED locks
  /\ UNCHANGED <<ipfsVars, envVars>>

\* "ignore errors because it may not exist yet"
rs_RmMFS(c) ==
  /\ h[c].pc = "rs_RmMFS"
  /\ \E o \in Outcomes : Outcome(c, o) /\ RmMFS(h[c].path, o)
  /\ Goto(c, "rs_MkdirMFS", h[c])
  /\ UNCHANGED <<locks, pinned, envVars>>

rs_MkdirMFS(c) ==
  /\ h[c].pc = "rs_MkdirMFS"
  /\ \E o \in Outcomes :
       /\ Outcome(c, o)
       /\ MkdirMFS(h[c].path, o)
       /\ IF o # "ok" THEN Finish(c, "Internal", h[c])
          ELSE Goto(c, "rs_cpMFS", h[c]) /\ UNCHANGED locks
  /\ UNCHANGED <<pinned, envVars>>

\* The walk: one file at a time, the first error ends it.
rs_cpMFS(c) ==
  /\ h[c].pc = "rs_cpMFS"
  /\ \/ /\ h[c].todo = {}
        /\ Finish(c, "OK", h[c])
        /\ UNCHANGED <<mfs, faults>>
     \/ \E f \in h[c].todo :
          IF cpRefused(f, h[c].path)
          THEN Finish(c, "Internal", h[c]) /\ UNCHANGED <<mfs, faults>>
          ELSE \E o \in Outcomes :
                 /\ Outcome(c, o)
                 /\ cpMFS(f, h[c].path, o)
                 /\ IF o # "ok" THEN Finish(c, "Internal", h[c])
                    ELSE /\ Goto(c, "rs_cpMFS", [h[c] EXCEPT !.todo = @ \ {f}])
                         /\ UNCHANGED locks
  /\ UNCHANGED <<pinned, envVars>>

-----------------------------------------------------------------------------
(***************************************************************************)
(* DeleteVolume and cleanupVolumeInIPFS.                                   *)
(***************************************************************************)
DeleteVolume(c, n) ==
  /\ MayCall(c, n)
  /\ phase[n] = "released"
  /\ LET key == VolumeKey(pv[n].handle)
         r == Request("DeleteVolume", n, key)
     IN  \/ /\ AcquireRefused(key)
            /\ Refuse(c, r, "Aborted")
         \/ TryAcquire(key) /\ Goto(c, "dv_GetVolumeAttributes", r)
  /\ UNCHANGED <<ipfsVars, envVars, faults>>

\* Mutant: without a CID there is nothing to clean up.
dv_GetVolumeAttributes_cidOnly(c) ==
  /\ h[c].pc = "dv_GetVolumeAttributes"
  /\ LET found == GetVolumeAttributes(h[c].key[2])
     IN  \/ found = {} /\ Finish(c, "OK", h[c])
         \/ \E a \in found :
              IF a.cid = None \/ ~a.pinning THEN Finish(c, "OK", h[c])
              ELSE /\ Goto(c, "dv_ListVolumes", [h[c] EXCEPT !.cid = a.cid])
                   /\ UNCHANGED locks
  /\ UNCHANGED <<ipfsVars, envVars, faults>>

\* cid and path stay None when there is nothing of the kind to clean up.
dv_GetVolumeAttributes(c) ==
  /\ h[c].pc = "dv_GetVolumeAttributes"
  /\ LET found == GetVolumeAttributes(h[c].key[2])
     IN  \/ found = {} /\ Finish(c, "OK", h[c])
         \/ \E a \in found :
              LET cid == IF a.pinning THEN a.cid ELSE None
                  path == IF a.mfspath # None /\ ~a.readonly
                          THEN Clean[a.mfspath] ELSE None
                  r == [h[c] EXCEPT !.cid = cid, !.path = path]
              IN  /\ Goto(c, IF cid # None THEN "dv_ListVolumes"
                             ELSE "dv_RmMFS", r)
                  /\ UNCHANGED locks
  /\ UNCHANGED <<ipfsVars, envVars, faults>>

dv_ListVolumes(c) ==
  /\ h[c].pc = "dv_ListVolumes"
  /\ Goto(c, "dv_ListSnapshots",
          [h[c] EXCEPT !.refs = volumeRefs(h[c].cid, h[c].key[2]) > 0])
  /\ UNCHANGED <<locks, ipfsVars, envVars, faults>>

dv_ListSnapshots(c) ==
  /\ h[c].pc = "dv_ListSnapshots"
  /\ LET inUse == h[c].refs \/ (SnapshotStore /\ snapshotRefs(h[c].cid, FALSE) > 0)
     IN  Goto(c, IF inUse THEN "dv_RmMFS" ELSE "dv_UnpinCID", h[c])
  /\ UNCHANGED <<locks, ipfsVars, envVars, faults>>

\* Failures of the cleanup are logged and nothing else.
dv_UnpinCID(c) ==
  /\ h[c].pc = "dv_UnpinCID"
  /\ \E o \in Outcomes : Outcome(c, o) /\ UnpinCID(h[c].cid, o)
  /\ Goto(c, "dv_RmMFS", h[c])
  /\ UNCHANGED <<locks, mfs, envVars>>

dv_RmMFS(c) ==
  /\ h[c].pc = "dv_RmMFS"
  /\ IF h[c].path = None
     THEN UNCHANGED <<mfs, faults>>
     ELSE \E o \in Outcomes : Outcome(c, o) /\ RmMFS(h[c].path, o)
  /\ Finish(c, "OK", h[c])
  /\ UNCHANGED <<pinned, envVars>>

-----------------------------------------------------------------------------
(***************************************************************************)
(* CreateSnapshot: the snapshot's ID is the CID the source volume's MFS    *)
(* path has at this moment.                                                *)
(***************************************************************************)
CreateSnapshot(c, s) ==
  /\ MayCall(c, s)
  /\ phase[s] = "wanted"
  /\ phase[SourceOf[s]] = "bound"
  /\ LET key == SnapshotKey(s)
         r == Request("CreateSnapshot", s, key)
     IN  \/ AcquireRefused(key) /\ Refuse(c, r, "Aborted")
         \/ TryAcquire(key) /\ Goto(c, "cs_GetVolumeAttributes", r)
  /\ UNCHANGED <<ipfsVars, envVars, faults>>

cs_GetVolumeAttributes(c) ==
  /\ h[c].pc = "cs_GetVolumeAttributes"
  /\ LET found == GetVolumeAttributes(sanitizeVolumeID[SourceOf[h[c].obj]])
     IN  \/ found = {} /\ Finish(c, "NotFound", h[c])
         \/ \E a \in found :
              IF a.mfspath = None THEN Finish(c, "InvalidArgument", h[c])
              ELSE /\ Goto(c, "cs_ResolveMFSCID",
                           [h[c] EXCEPT !.path = Clean[a.mfspath]])
                   /\ UNCHANGED locks
  /\ UNCHANGED <<ipfsVars, envVars, faults>>

\* Mutant: the CID of an entry of the directory, not of the directory.
cs_ResolveMFSCID_entry(c) ==
  /\ h[c].pc = "cs_ResolveMFSCID"
  /\ ResolveMFSCID(h[c].path) # None
  /\ \E f \in ResolveMFSCID(h[c].path) :
       Goto(c, "cs_PinCID", [h[c] EXCEPT !.cid = {f}])
  /\ UNCHANGED <<locks, ipfsVars, envVars, faults>>

cs_ResolveMFSCID(c) ==
  /\ h[c].pc = "cs_ResolveMFSCID"
  /\ IF ResolveMFSCID(h[c].path) = None
     THEN Finish(c, "Internal", h[c]) /\ UNCHANGED faults
     ELSE \E o \in Outcomes :
            /\ Outcome(c, o)
            /\ IF o # "ok" THEN Finish(c, "Internal", h[c])
               ELSE /\ Goto(c, "cs_PinCID",
                            [h[c] EXCEPT !.cid = ResolveMFSCID(h[c].path)])
                    /\ UNCHANGED locks
  /\ UNCHANGED <<ipfsVars, envVars>>

\* A snapshot that could not be pinned is reported ready all the same.
cs_PinCID(c) ==
  /\ h[c].pc = "cs_PinCID"
  /\ \E o \in Outcomes :
       /\ Outcome(c, o)
       /\ PinCID(h[c].cid, o)
       /\ Finish(c, "OK", [h[c] EXCEPT !.pinok = (o = "ok")])
  /\ UNCHANGED <<mfs, envVars>>

-----------------------------------------------------------------------------
(***************************************************************************)
(* DeleteSnapshot.  Its lock is on the CID, not on the snapshot.           *)
(***************************************************************************)
DeleteSnapshot(c, s) ==
  /\ MayCall(c, s)
  /\ phase[s] = "released"
  /\ LET key == DeleteSnapshotKey(vsc[s])
         r == [Request("DeleteSnapshot", s, key) EXCEPT !.cid = vsc[s]]
     IN  \/ AcquireRefused(key) /\ Refuse(c, r, "Aborted")
         \/ TryAcquire(key) /\ Goto(c, "ds_ListVolumes", r)
  /\ UNCHANGED <<ipfsVars, envVars, faults>>

ds_ListVolumes(c) ==
  /\ h[c].pc = "ds_ListVolumes"
  /\ Goto(c, "ds_ListSnapshots",
          [h[c] EXCEPT !.refs = volumeRefs(h[c].cid, None) > 0])
  /\ UNCHANGED <<locks, ipfsVars, envVars, faults>>

ds_ListSnapshots(c) ==
  /\ h[c].pc = "ds_ListSnapshots"
  /\ IF ~SnapshotStore THEN Finish(c, "FailedPrecondition", h[c])
     ELSE IF h[c].refs \/ snapshotRefs(h[c].cid, TRUE) > 0
     THEN Finish(c, "OK", h[c])
     ELSE Goto(c, "ds_UnpinCID", h[c]) /\ UNCHANGED locks
  /\ UNCHANGED <<ipfsVars, envVars, faults>>

ds_UnpinCID(c) ==
  /\ h[c].pc = "ds_UnpinCID"
  /\ \E o \in Outcomes : Outcome(c, o) /\ UnpinCID(h[c].cid, o)
  /\ Finish(c, "OK", h[c])
  /\ UNCHANGED <<mfs, envVars>>

-----------------------------------------------------------------------------
(***************************************************************************)
(* The sidecars' end of a call.  A reply nobody waits for, and every error *)
(* (they retry), changes nothing; success is recorded in the API.          *)
(***************************************************************************)
VolumeContext(n) ==
  LET k == claim[n]
  IN  [handle   |-> sanitizeVolumeID[n],
       cid      |-> k.cid,
       mfspath  |-> IF k.cid # None THEN k.mfspath ELSE volumePath(n),
       readonly |-> k.cid # None,
       pinning  |-> k.pinning]

Created(c) == IF h[c].pinok THEN held \cup {h[c].obj} ELSE held

Recorded(c, o) ==
  \/ /\ h[c].op = "CreateVolume"
     /\ WritePV(o, VolumeContext(o))
     /\ phase' = [phase EXCEPT ![o] = "bound"]
     /\ held' = Created(c)
  \/ /\ h[c].op = "CreateSnapshot"
     /\ WriteVSC(o, h[c].cid)
     /\ phase' = [phase EXCEPT ![o] = "bound"]
     /\ held' = Created(c)
  \/ /\ h[c].op = "DeleteVolume"
     /\ WritePV(o, None)
     /\ phase' = [phase EXCEPT ![o] = "gone"]
     /\ held' = held \ {o}
  \/ /\ h[c].op = "DeleteSnapshot"
     /\ WriteVSC(o, None)
     /\ phase' = [phase EXCEPT ![o] = "gone"]
     /\ held' = held \ {o}

Reply(c) ==
  /\ h[c].pc = "done"
  /\ IF h[c].code = "OK" /\ h[c].gone = "no"
     THEN Recorded(c, h[c].obj)
     ELSE UNCHANGED <<storeVars, phase, held>>
  /\ h' = [h EXCEPT ![c] = Idle]
  /\ UNCHANGED <<locks, ipfsVars, claim, faults, writes>>

\* The caller's deadline passes, or the sidecar restarts; the handler goes on.
Abandon(c) ==
  /\ h[c].pc # "idle" /\ h[c].gone = "no"
  /\ faults < MaxFaults
  /\ faults' = faults + 1
  /\ h' = [h EXCEPT ![c].gone = "now"]
  /\ UNCHANGED <<locks, ipfsVars, envVars>>

\* The driver process is replaced: Recreate, so never two at a time.
Crash ==
  /\ faults < MaxFaults
  /\ faults' = faults + 1
  /\ h' = [c \in Calls |-> Idle]
  /\ locks' = NewVolumeLocks
  /\ StartInformers
  /\ UNCHANGED <<ipfsVars, claim, phase, held, writes>>

(***************************************************************************)
(* A user deletes a PVC or a VolumeSnapshot.  Finalizers keep the source   *)
(* of a snapshot or of a restore while its call is under way.              *)
(***************************************************************************)
ReleaseObject(o) ==
  /\ phase[o] = "bound"
  /\ ~ \E s \in Snaps : SourceOf[s] = o /\ phase[s] = "wanted" /\ Calling(s)
  /\ ~ \E n \in Names : claim[n].source = o /\ phase[n] = "wanted" /\ Calling(n)
  /\ phase' = [phase EXCEPT ![o] = "released"]
  /\ UNCHANGED <<locks, ipfsVars, storeVars, h, claim, held, faults, writes>>

\* A whole ImportToMFS: the tree is removed, made again and filled with d.
Imported(p, d) ==
  [q \in Paths |-> IF q = p THEN d
                   ELSE IF q \in Below[p] THEN None
                   ELSE Made(p)[q]]

\* Some node unstages a read-write volume: its tree becomes what was written.
NodeImport(n) ==
  /\ phase[n] \in {"bound", "released"}
  /\ ~pv[n].readonly
  /\ Overlap \/ Quiet
  /\ writes < MaxWrites
  /\ writes' = writes + 1
  /\ \E d \in CIDs : mfs' = Imported(pv[n].mfspath, d)
  /\ UNCHANGED <<locks, pinned, storeVars, h, claim, phase, held, faults>>

InformerStep ==
  /\ ApplyPVEvent \/ ApplyVSCEvent
  /\ UNCHANGED <<locks, ipfsVars, h, claim, phase, held, faults, writes>>

-----------------------------------------------------------------------------
CreateVolumeStep(c) ==
  \/ cv_StatCID(c) \/ cv_PinCID(c) \/ cv_MkdirMFS(c)
  \/ rs_StatCID(c) \/ rs_GetCIDContent(c)
  \/ rs_RmMFS(c) \/ rs_MkdirMFS(c) \/ rs_cpMFS(c)

DeleteVolumeStep(c) ==
  \/ dv_GetVolumeAttributes(c) \/ dv_ListVolumes(c) \/ dv_ListSnapshots(c)
  \/ dv_UnpinCID(c) \/ dv_RmMFS(c)

CreateSnapshotStep(c) ==
  cs_GetVolumeAttributes(c) \/ cs_ResolveMFSCID(c) \/ cs_PinCID(c)

DeleteSnapshotStep(c) ==
  ds_ListVolumes(c) \/ ds_ListSnapshots(c) \/ ds_UnpinCID(c)

HandlerStep(c) ==
  \/ CreateVolumeStep(c) \/ DeleteVolumeStep(c)
  \/ CreateSnapshotStep(c) \/ DeleteSnapshotStep(c)

CallVolume(n) == \E c \in Calls : CreateVolume(c, n) \/ DeleteVolume(c, n)
CallSnapshot(s) == \E c \in Calls : CreateSnapshot(c, s) \/ DeleteSnapshot(c, s)

Next ==
  \/ \E n \in Names : CallVolume(n) \/ NodeImport(n)
  \/ \E s \in Snaps : CallSnapshot(s)
  \/ \E c \in Calls : HandlerStep(c) \/ Reply(c) \/ Abandon(c)
  \/ \E o \in Objects : ReleaseObject(o)
  \/ InformerStep
  \/ Crash

Spec == Init /\ [][Next]_vars

(***************************************************************************)
(* gRPC runs a handler until it returns and delivers what it returns, the  *)
(* watches deliver their events, and the sidecars retry whatever is not    *)
(* finished, each time a worker is free.                                   *)
(***************************************************************************)
Fairness ==
  /\ \A c \in Calls : WF_vars(HandlerStep(c)) /\ WF_vars(Reply(c))
  /\ WF_vars(InformerStep)
  /\ \A n \in Names : SF_vars(CallVolume(n))
  /\ \A s \in Snaps : SF_vars(CallSnapshot(s))

FairSpec == Spec /\ Fairness

-----------------------------------------------------------------------------
(***************************************************************************)
(* What the types leave open: which operation a handler at a given step    *)
(* belongs to, and which of its fields are set by then.                    *)
(***************************************************************************)
HandlerOK(x) ==
  /\ x \in Handlers
  /\ x.pc \in CreateVolumeSteps => x.op = "CreateVolume"
  /\ x.pc \in DeleteVolumeSteps => x.op = "DeleteVolume"
  /\ x.pc \in CreateSnapshotSteps => x.op = "CreateSnapshot"
  /\ x.pc \in DeleteSnapshotSteps => x.op = "DeleteSnapshot"
  /\ x.pc = "done" => x.op \in Ops
  /\ x.op \in {"CreateVolume", "DeleteVolume"} => x.obj \in Names
  /\ x.op \in {"CreateSnapshot", "DeleteSnapshot"} => x.obj \in Snaps
  /\ x.pc \in {"cv_MkdirMFS", "cs_ResolveMFSCID"} \cup RestoreSteps
       => x.path \in Paths
  /\ x.pc \in {"cv_StatCID", "cv_PinCID", "dv_ListVolumes",
               "dv_ListSnapshots", "dv_UnpinCID", "cs_PinCID"}
              \cup RestoreSteps \cup DeleteSnapshotSteps
       => x.cid \in CIDs
  /\ x.pc = "done" /\ x.op = "CreateSnapshot" /\ x.code = "OK"
       => x.cid \in CIDs

\* An object Kubernetes still has is recorded in the API.
ObjectsOK ==
  /\ \A n \in Names :
       phase[n] \in {"bound", "released"} => pv[n] \in VolumeAttributes
  /\ \A s \in Snaps :
       phase[s] \in {"bound", "released"} => vsc[s] \in CIDs

(***************************************************************************)
(* LockDiscipline: the keys in VolumeLocks are exactly those of the        *)
(* handlers between TryAcquire and the deferred Release, and no two of     *)
(* them share one, whatever error paths, abandoned calls and restarts      *)
(* there were (lock/volumelocks.go:19-21).                                 *)
(***************************************************************************)
LockDiscipline ==
  /\ locks = {h[c].key : c \in {d \in Calls : Holding(d)}}
  /\ \A c, d \in Calls :
       Holding(c) /\ Holding(d) /\ h[c].key = h[d].key => c = d

(***************************************************************************)
(* ImplementsMutex: seen from the operations, VolumeLocks is a mutex per   *)
(* key: each is given its key only while no other has it, keeps it from    *)
(* step to step, and gives it back once, on every path out of the handler  *)
(* (lock/volumelocks.go:19-52, the deferred Release of each RPC).          *)
(***************************************************************************)
Owns == {<<h[c].key, c>> : c \in {d \in Calls : Holding(d)}}

Mutex == INSTANCE KeyMutex WITH Owners <- Calls, owns <- Owns

ImplementsMutex == Mutex!Spec

\* The inductive invariant behind TypeOK and LockDiscipline.
IndInv ==
  /\ TypeOK
  /\ \A c \in Calls : HandlerOK(h[c])
  /\ ObjectsOK
  /\ LockDiscipline

(***************************************************************************)
(* Nothing in the code keeps two volumes apart: distinct names may have    *)
(* one ID, and StorageClasses may name one path twice, or a path inside    *)
(* another volume's, or the root itself, which holds all default paths.    *)
(* Where none of this is so a volume's tree is its own, which NoClobber    *)
(* and RestoreExact need; the references to a CID are counted by ID, which *)
(* PinSafety needs.                                                        *)
(***************************************************************************)
DistinctIDs ==
  \A m, n \in Names : sanitizeVolumeID[m] = sanitizeVolumeID[n] => m = n

DistinctVolumes ==
  /\ DistinctIDs
  /\ \A k \in ClaimSet : \A m, n \in Names :
       /\ m # n
       /\ k[m].cid = None /\ k[n].cid = None
       /\ claimPath(k[m], m) # None /\ claimPath(k[n], n) # None
       => Apart(claimPath(k[m], m), claimPath(k[n], n))

(***************************************************************************)
(* NoClobber: no handler is about to remove or rewrite the MFS tree of a   *)
(* volume that is bound and may be in use, a directory around it or one    *)
(* inside it (files/rm is recursive, client.go:365-387).  A CreateVolume   *)
(* that its caller gave up on is the danger: its restore goes on while the *)
(* retry succeeds.                                                         *)
(***************************************************************************)
NoClobber ==
  \A c \in Calls, n \in Names :
    /\ h[c].pc \in {"rs_RmMFS", "rs_MkdirMFS", "rs_cpMFS", "dv_RmMFS"}
    /\ h[c].path # None
    /\ phase[n] = "bound" /\ ~pv[n].readonly
    => Apart(h[c].path, pv[n].mfspath)

(***************************************************************************)
(* RestoreExact: a CreateVolume that answers OK for a snapshot source has  *)
(* left exactly the snapshot's content at the volume's path, even though   *)
(* ImportToMFS ignores a failing rm and earlier attempts may have stopped  *)
(* half-way (controller.go:193-233, client.go:477-577).                    *)
(***************************************************************************)
RestoreExact ==
  \A c \in Calls :
    /\ h[c].pc = "done" /\ h[c].op = "CreateVolume" /\ h[c].code = "OK"
    /\ h[c].gone = "no"
    /\ claim[h[c].obj].source \in Snaps
    => mfs[h[c].path] = h[c].cid

(***************************************************************************)
(* UnderRootOnly: whatever mfspath a StorageClass spells, the driver       *)
(* creates nothing outside the configured MFS root but the directories     *)
(* that lead to it, neither when it provisions nor when it restores        *)
(* (controller.go:110-137, utils.go:193-209).                              *)
(***************************************************************************)
UnderRootOnly ==
  \A p \in Paths :
    mfs[p] # None => p \in UnderRoot \/ Below[p] \cap UnderRoot # {}

(***************************************************************************)
(* StrictPolicyPins: under the strict policy a volume with pinning on is   *)
(* only ever bound by a CreateVolume whose own pin succeeded; a failed or  *)
(* late pin, and retries, never slip through (controller.go:98-107).       *)
(***************************************************************************)
StrictPolicyPins ==
  PinFailurePolicy = "strict" =>
    \A n \in Names :
      phase[n] = "bound" /\ claim[n].cid # None /\ claim[n].pinning => n \in held

(***************************************************************************)
(* PinSafety: a CID that a bound volume or snapshot had pinned for it is   *)
(* still pinned; deleting another owner of the same CID never takes the    *)
(* pin away (utils.go:109-178, controller.go:551-564).                     *)
(***************************************************************************)
OwnCID(o) == IF o \in Names THEN pv[o].cid ELSE vsc[o]

PinSafety == \A o \in held : phase[o] = "bound" => OwnCID(o) \in pinned

(***************************************************************************)
(* DriftBounded: with calls one after the other, whenever nothing is going *)
(* on, the pins are those of the CIDs that existing volumes and snapshots  *)
(* own and the MFS trees, but for directories that lead to a volume, those *)
(* of existing read-write volumes, save one pin or tree per failure, lost  *)
(* answer or restart there ever was: no failure leaks, or loses, more than *)
(* the one thing it hit (utils.go:109-178, controller.go:98-108, 530-572). *)
(* Not so for claims with a snapshot source: a restore that finds no       *)
(* snapshot leaves a tree.                                                 *)
(***************************************************************************)
OwnedCIDs ==
  {pv[n].cid : n \in {m \in Names : pv[m] # None /\ pv[m].pinning}}
  \cup {vsc[s] : s \in Snaps}

OwnedTrees ==
  {pv[n].mfspath : n \in {m \in Names : pv[m] # None /\ ~pv[m].readonly}}

\* mkdir makes the directories around a volume's path too; nothing removes them.
Leads(p) ==
  \E n \in Names :
    claim[n].cid = None /\ volumePath(n) # None /\ volumePath(n) \in Below[p]

SymmetricDifference(S, T) == (S \ T) \cup (T \ S)

DriftBounded ==
  Quiet =>
    Cardinality(SymmetricDifference(pinned, OwnedCIDs \ {None}))
    + Cardinality(SymmetricDifference({p \in Paths : mfs[p] # None /\ ~Leads(p)},
                                      OwnedTrees))
    <= faults

-----------------------------------------------------------------------------
(***************************************************************************)
(* A property the docs state and the code does not have; a run refutes it. *)
(***************************************************************************)

(***************************************************************************)
(* SnapshotIdempotent: two successful CreateSnapshot calls for one name    *)
(* return one snapshot ID (docs/docs/controller-service.md:35); the retry  *)
(* of a call whose answer was lost is the case that matters.               *)
(***************************************************************************)
SnapshotIdempotent ==
  \A c, d \in Calls :
    /\ h[c].pc = "done" /\ h[c].op = "CreateSnapshot" /\ h[c].code = "OK"
    /\ h[d].pc = "done" /\ h[d].op = "CreateSnapshot" /\ h[d].code = "OK"
    /\ h[c].obj = h[d].obj
    => h[c].cid = h[d].cid

-----------------------------------------------------------------------------
(***************************************************************************)
(* DeletionsComplete: once a user has deleted a PVC or a snapshot, the     *)
(* object is eventually gone: abandoned calls, lock refusals and failing   *)
(* cleanups never block it for good (controller.go:239-267, 530-572).      *)
(***************************************************************************)
DeletionsComplete ==
  \A o \in Objects : phase[o] = "released" ~> phase[o] = "gone"

(***************************************************************************)
(* ProvisioningCompletes: a claim with valid parameters and no snapshot    *)
(* source is eventually provisioned (controller.go:39-174).                *)
(***************************************************************************)
Provisionable(n) ==
  /\ claim[n].source = None
  /\ IF claim[n].cid # None THEN claim[n].cid \in Remote
     ELSE volumePath(n) # None

ProvisioningCompletes ==
  \A n \in Names :
    phase[n] = "wanted" /\ Provisionable(n) ~> phase[n] = "bound"

=============================================================================
