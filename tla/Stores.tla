------------------------------- MODULE Stores -------------------------------
(***************************************************************************)
(* pkg/driver/store and pkg/kubernetes/informers.go: the driver never      *)
(* reads the Kubernetes API itself.  It reads the listers of two shared    *)
(* informers, whose caches follow the API server one watch event at a      *)
(* time.                                                                   *)
(*                                                                         *)
(* The API objects are those of this driver: PersistentVolumes, whose      *)
(* spec.csi carries the volume context, and VolumeSnapshotContents, whose  *)
(* status carries the snapshot handle (a CID).                             *)
(***************************************************************************)
EXTENDS CsiTypes

VARIABLES
  pv,         \* API server: [Names -> VolumeAttributes \cup {None}]
  pvEvents,   \* PV watch events the informer has not applied yet
  pvCache,    \* the PV lister's content
  vsc,        \* API server: [Snaps -> CIDs \cup {None}], the handle
  vscEvents,
  vscCache

storeVars == <<pv, pvEvents, pvCache, vsc, vscEvents, vscCache>>

PVs == [Names -> VolumeAttributes \cup {None}]
VSCs == [Snaps -> CIDs \cup {None}]
PVEvents == [name : Names, obj : VolumeAttributes \cup {None}]
VSCEvents == [name : Snaps, obj : CIDs \cup {None}]

StoresTypeOK ==
  /\ pv \in PVs
  /\ pvCache \in PVs
  /\ pvEvents \in Seq(PVEvents)
  /\ vsc \in VSCs
  /\ vscCache \in VSCs
  /\ vscEvents \in Seq(VSCEvents)

StoresInit ==
  /\ pv = [n \in Names |-> None] /\ pvCache = pv /\ pvEvents = <<>>
  /\ vsc = [s \in Snaps |-> None] /\ vscCache = vsc /\ vscEvents = <<>>

\* The sidecars' writes: a saved or deleted (None) object and its event.
WritePV(n, obj) ==
  /\ pv' = [pv EXCEPT ![n] = obj]
  /\ pvEvents' = Append(pvEvents, [name |-> n, obj |-> obj])
  /\ UNCHANGED <<pvCache, vsc, vscEvents, vscCache>>

WriteVSC(s, handle) ==
  /\ vsc' = [vsc EXCEPT ![s] = handle]
  /\ vscEvents' = Append(vscEvents, [name |-> s, obj |-> handle])
  /\ UNCHANGED <<vscCache, pv, pvEvents, pvCache>>

\* The informers' add, update and delete handlers.
ApplyPVEvent ==
  /\ pvEvents # <<>>
  /\ pvCache' = [pvCache EXCEPT ![Head(pvEvents).name] = Head(pvEvents).obj]
  /\ pvEvents' = Tail(pvEvents)
  /\ UNCHANGED <<pv, vsc, vscEvents, vscCache>>

ApplyVSCEvent ==
  /\ vscEvents # <<>>
  /\ vscCache' = [vscCache EXCEPT ![Head(vscEvents).name] = Head(vscEvents).obj]
  /\ vscEvents' = Tail(vscEvents)
  /\ UNCHANGED <<vsc, pv, pvEvents, pvCache>>

\* InformerManager.Start: a new process lists everything before it serves.
StartInformers ==
  /\ pvCache' = pv /\ pvEvents' = <<>>
  /\ vscCache' = vsc /\ vscEvents' = <<>>
  /\ UNCHANGED <<pv, vsc>>

CachesCurrent == pvEvents = <<>> /\ vscEvents = <<>>

-----------------------------------------------------------------------------
(***************************************************************************)
(* GetVolumeAttributes returns the attributes of a cached PV whose         *)
(* volumeHandle is the ID (the order of the lister picks one), or          *)
(* ErrPVNotFound when the set is empty.                                    *)
(***************************************************************************)
GetVolumeAttributes(id) ==
  {pvCache[n] : n \in {m \in Names : pvCache[m] # None /\ pvCache[m].handle = id}}

\* cidReferenceUsage, first half: other cached volumes that pin the CID.
volumeRefs(c, excluded) ==
  Cardinality({n \in Names : /\ pvCache[n] # None
                             /\ pvCache[n].handle # excluded
                             /\ pvCache[n].cid = c
                             /\ pvCache[n].pinning})

\* Mutants: the caller's own snapshot excluded always, or never.
snapshotRefs_alwaysExcludes(c, excludeOneSnapshot) ==
  LET n == Cardinality({s \in Snaps : vscCache[s] = c})
  IN  IF n > 0 THEN n - 1 ELSE n

snapshotRefs_neverExcludes(c, excludeOneSnapshot) ==
  Cardinality({s \in Snaps : vscCache[s] = c})

\* ... second half: ListSnapshots filtered by handle, less the caller's own.
snapshotRefs(c, excludeOneSnapshot) ==
  LET n == Cardinality({s \in Snaps : vscCache[s] = c})
  IN  IF excludeOneSnapshot /\ n > 0 THEN n - 1 ELSE n

=============================================================================
