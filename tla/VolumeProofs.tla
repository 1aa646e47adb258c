--------------------------- MODULE VolumeProofs ----------------------------
(***************************************************************************)
(* What the controller promises of volumes, for every set of names, paths, *)
(* claims and handler goroutines: it creates nothing outside the MFS root, *)
(* the strict policy never binds an unpinned volume, no handler touches    *)
(* the tree of a bound volume, and a restore that succeeds is exact.       *)
(***************************************************************************)
EXTENDS ControllerProofs

-----------------------------------------------------------------------------
(***************************************************************************)
(* Who works on what.  Everything below rests on two facts: the sidecar    *)
(* has one call at a time for an object, and a CreateVolume it gave up on  *)
(* keeps the lock, so that no later one succeeds while it still runs.      *)
(***************************************************************************)
Live(c) == h[c].obj \in Objects /\ h[c].gone = "no"

Creating(c) == Holding(c) /\ h[c].op = "CreateVolume"

Succeeded(c) ==
  h[c].pc = "done" /\ h[c].op = "CreateVolume" /\ h[c].code = "OK"

\* Volume operations lock the ID of their volume.
KeysOK ==
  \A c \in Calls :
    Holding(c) /\ h[c].op \in {"CreateVolume", "DeleteVolume"}
      => h[c].key = VolumeKey(sanitizeVolumeID[h[c].obj])

\* Kubernetes is where the calls for an object need it to be.
PhasesOK ==
  \A c \in Calls :
    /\ h[c].op \in {"CreateVolume", "CreateSnapshot"} /\ h[c].gone = "no"
         => phase[h[c].obj] = "wanted"
    /\ h[c].op \in {"DeleteVolume", "DeleteSnapshot"}
         => /\ phase[h[c].obj] \in {"released", "gone"}
            /\ h[c].gone = "no" => phase[h[c].obj] = "released"
    /\ Creating(c) => phase[h[c].obj] = "wanted"

OneCall ==
  /\ \A c, d \in Calls :
       Live(c) /\ Live(d) /\ h[c].obj = h[d].obj => c = d
  /\ \A c, d \in Calls :
       Creating(c) /\ Succeeded(d) /\ h[d].gone = "no" => h[c].obj # h[d].obj

\* The API and the cache hold what CreateVolume answered, or nothing.
ContextsOK ==
  /\ claim \in ClaimSet
  /\ \A n \in Names :
       /\ phase[n] \in {"bound", "released"} => pv[n] = VolumeContext(n)
       /\ pv[n] # None => pv[n] = VolumeContext(n)
       /\ pvCache[n] # None => pvCache[n] = VolumeContext(n)
  /\ \A i \in DOMAIN pvEvents :
       pvEvents[i].obj # None => pvEvents[i].obj = VolumeContext(pvEvents[i].name)

OwnersInv == KeysOK /\ PhasesOK /\ OneCall /\ ContextsOK

-----------------------------------------------------------------------------
(***************************************************************************)
(* Which branch of CreateVolume a handler is in, and what it has done.     *)
(***************************************************************************)
TreeSteps == {"cv_MkdirMFS"} \cup RestoreSteps

BranchOK(c) ==
  /\ Creating(c) => ~InvalidSource(claim[h[c].obj])
  /\ h[c].pc \in {"cv_StatCID", "cv_PinCID"} => claim[h[c].obj].cid # None
  /\ h[c].pc \in TreeSteps \/ (Succeeded(c) /\ claim[h[c].obj].cid = None)
       => /\ claim[h[c].obj].cid = None
          /\ h[c].path = volumePath(h[c].obj)
          /\ h[c].path \in UnderRoot
  /\ /\ Succeeded(c)
     /\ PinFailurePolicy = "strict"
     /\ claim[h[c].obj].cid # None /\ claim[h[c].obj].pinning
     => h[c].pinok

\* A volume by path that was provisioned has an acceptable path.
PathsOK ==
  \A n \in Names :
    phase[n] \in {"bound", "released"} /\ claim[n].cid = None
      => volumePath(n) \in UnderRoot

\* All there is in MFS are trees of volumes and directories that lead there.
Claimed(p) == \E n \in Names : claim[n].cid = None /\ volumePath(n) = p

TreesOK == \A p \in Paths : mfs[p] # None => Claimed(p) \/ Leads(p)

BranchInv ==
  /\ \A c \in Calls : BranchOK(c)
  /\ PathsOK
  /\ StrictPolicyPins
  /\ TreesOK

-----------------------------------------------------------------------------
(***************************************************************************)
(* What DeleteVolume is about to remove is the tree of its own volume.     *)
(***************************************************************************)
DeletionOK(c) ==
  /\ h[c].pc \in DeleteVolumeSteps /\ h[c].path # None
  => claim[h[c].obj].cid = None /\ h[c].path = volumePath(h[c].obj)

(***************************************************************************)
(* A restore: all attempts for a volume copy the same snapshot, and what   *)
(* earlier ones left is part of it.  So once every file is copied, with    *)
(* none refused, there is neither more nor less.                           *)
(***************************************************************************)
Source(n) == claim[n].source

Exists(s) == phase[s] \in {"bound", "released"}

SourceOK(c) ==
  h[c].pc \in TreeSteps =>
    /\ Source(h[c].obj) \in Snaps \cup {None}
    /\ Source(h[c].obj) = None => h[c].cid = None
    /\ Source(h[c].obj) \in Snaps
         => /\ h[c].cid \in CIDs
            /\ phase[Source(h[c].obj)] # "wanted"
            /\ Exists(Source(h[c].obj)) => h[c].cid = vsc[Source(h[c].obj)]

TreeOK(c) ==
  /\ h[c].pc \in TreeSteps /\ Source(h[c].obj) \in Snaps
       => mfs[h[c].path] = None \/ mfs[h[c].path] \subseteq h[c].cid
  /\ h[c].pc \in {"rs_RmMFS", "rs_MkdirMFS"} => h[c].todo = h[c].cid
  /\ h[c].pc = "rs_cpMFS"
       => /\ mfs[h[c].path] # None
          /\ h[c].todo \subseteq h[c].cid
          /\ h[c].cid \ h[c].todo \subseteq mfs[h[c].path]
  /\ Succeeded(c) /\ h[c].gone = "no" /\ Source(h[c].obj) \in Snaps
       => claim[h[c].obj].cid = None /\ mfs[h[c].path] = h[c].cid

LeftoversOK ==
  \A n \in Names :
    /\ phase[n] = "wanted" /\ claim[n].cid = None /\ Source(n) \in Snaps
    /\ volumePath(n) # None /\ mfs[volumePath(n)] # None
    => /\ phase[Source(n)] # "wanted"
       /\ Exists(Source(n)) => mfs[volumePath(n)] \subseteq vsc[Source(n)]

RestoreInv ==
  /\ \A c \in Calls : DeletionOK(c) /\ SourceOK(c) /\ TreeOK(c)
  /\ LeftoversOK

-----------------------------------------------------------------------------
(***************************************************************************)
(* A call as it arrives, field by field.                                   *)
(***************************************************************************)
Started(c, op, o) ==
  /\ h[c].pc = "idle" /\ ~Calling(o)
  /\ h' = [h EXCEPT ![c] = h'[c]]
  /\ h'[c].op = op /\ h'[c].obj = o /\ h'[c].gone = "no"
  /\ \/ h'[c].pc = "done" /\ h'[c].code # "OK"
     \/ h'[c].pc \in Steps

\* An answer given at once.
LEMMA RefuseFields ==
  ASSUME NEW c \in Calls, NEW r \in Handlers, NEW code \in Codes,
         h \in [Calls -> Handlers], Refuse(c, r, code)
  PROVE  /\ h' = [h EXCEPT ![c] = h'[c]]
         /\ h'[c].pc = "done" /\ h'[c].code = code
         /\ h'[c].op = r.op /\ h'[c].obj = r.obj /\ h'[c].gone = r.gone
  <1> DEFINE x == [r EXCEPT !.pc = "done", !.code = code]
  <1>1. /\ x.pc = "done" /\ x.code = code
        /\ x.op = r.op /\ x.obj = r.obj /\ x.gone = r.gone
    BY DEF Handlers
  <1>2. h' = [h EXCEPT ![c] = x]
    BY DEF Refuse
  <1> HIDE DEF x
  <1> QED
    BY <1>1, <1>2

LEMMA RequestGone ==
  ASSUME NEW op \in Ops, NEW o \in Objects, NEW key \in Keys
  PROVE  Request(op, o, key).gone = "no" /\ nextCall("no") = "no"
  BY DEF Request, Idle, nextCall

\* CreateVolume: refused, or on its way in one of its two branches.
LEMMA CreateVolumeStarted ==
  ASSUME IndInv, NEW c \in Calls, NEW n \in Names, CreateVolume(c, n)
  PROVE  /\ Started(c, "CreateVolume", n)
         /\ \/ h'[c].pc = "done"
            \/ /\ h'[c].pc \in {"cv_StatCID", "cv_MkdirMFS"}
               /\ h'[c].key = VolumeKey(sanitizeVolumeID[n])
               /\ ~InvalidSource(claim[n])
         /\ h'[c].pc = "cv_StatCID" => claim[n].cid # None
         /\ h'[c].pc = "cv_MkdirMFS"
              => /\ claim[n].cid = None
                 /\ volumePath(n) # None /\ h'[c].path = volumePath(n)
                 /\ h'[c].cid = IF claim[n].source = None THEN None
                                ELSE vsc[claim[n].source]
  <1> DEFINE key == VolumeKey(sanitizeVolumeID[n])
             r == Request("CreateVolume", n, key)
  <1>1. key \in Keys /\ n \in Objects /\ "CreateVolume" \in Ops
    BY PathAssumption DEF Keys, Objects, Ops
  <1>2. /\ r \in Handlers /\ r.op = "CreateVolume" /\ r.obj = n
        /\ r.key = key /\ r.gone = "no" /\ nextCall("no") = "no"
    BY <1>1, RequestFields, RequestGone
  <1>3. h \in [Calls -> Handlers] /\ h[c].pc = "idle" /\ ~Calling(n)
    BY HandlerFacts DEF CreateVolume, MayCall
  <1> HIDE DEF key, r
  <1>4. CASE \E code \in {"InvalidArgument", "Aborted"} : Refuse(c, r, code)
    BY <1>2, <1>3, <1>4, RefuseFields DEF Codes, Started
  <1>5. CASE /\ claim[n].cid # None /\ ~InvalidSource(claim[n])
             /\ Goto(c, "cv_StatCID", [r EXCEPT !.cid = claim[n].cid])
    <2> DEFINE q == [r EXCEPT !.cid = claim[n].cid]
    <2>1. claim[n].cid \in CIDs
      BY <1>5 DEF IndInv, TypeOK, Claims
    <2>2. /\ q \in Handlers /\ q.op = "CreateVolume" /\ q.obj = n
          /\ q.key = key /\ q.gone = "no"
      BY <1>2, <2>1 DEF Handlers
    <2>3. "cv_StatCID" \in Steps
      BY DEF Steps, CreateVolumeSteps
    <2>4. Goto(c, "cv_StatCID", q)
      BY <1>5
    <2> HIDE DEF q
    <2>5. /\ h' = [h EXCEPT ![c] = h'[c]]
          /\ h'[c].pc = "cv_StatCID" /\ h'[c].op = "CreateVolume"
          /\ h'[c].obj = n /\ h'[c].key = key /\ h'[c].gone = "no"
      BY <1>2, <1>3, <2>2, <2>3, <2>4, GotoFields
    <2> QED
      BY <1>3, <1>5, <2>3, <2>5 DEF key, Started
  <1>6. ASSUME NEW d \in CIDs \cup {None}, volumePath(n) # None,
               claim[n].cid = None, ~InvalidSource(claim[n]),
               d = IF claim[n].source = None THEN None ELSE vsc[claim[n].source],
               Goto(c, "cv_MkdirMFS",
                    [r EXCEPT !.path = volumePath(n), !.cid = d])
        PROVE  /\ Started(c, "CreateVolume", n)
               /\ h'[c].pc = "cv_MkdirMFS" /\ h'[c].key = key
               /\ h'[c].path = volumePath(n) /\ h'[c].cid = d
    <2> DEFINE q == [r EXCEPT !.path = volumePath(n), !.cid = d]
    <2>1. volumePath(n) \in Paths
      BY <1>6, VolumePathType DEF IndInv
    <2>2. /\ q \in Handlers /\ q.op = "CreateVolume" /\ q.obj = n
          /\ q.key = key /\ q.gone = "no" /\ q.path = volumePath(n) /\ q.cid = d
      BY <1>2, <2>1 DEF Handlers
    <2>3. "cv_MkdirMFS" \in Steps
      BY DEF Steps, CreateVolumeSteps
    <2>4. Goto(c, "cv_MkdirMFS", q)
      BY <1>6
    <2> HIDE DEF q
    <2> QED
      BY <1>2, <1>3, <2>2, <2>3, <2>4, GotoFields DEF Started
  <1>7. ASSUME ~InvalidSource(claim[n])
        PROVE  (IF claim[n].source = None THEN None ELSE vsc[claim[n].source])
                 \in CIDs \cup {None}
    BY <1>7 DEF CreateVolume, IndInv, TypeOK, Claims, InvalidSource, ObjectsOK
  <1> QED
    BY <1>4, <1>5, <1>6, <1>7 DEF CreateVolume, key, r

\* The other three calls: refused, or on their way.
LEMMA OtherStarted ==
  ASSUME IndInv, NEW c \in Calls, NEW op \in Ops, NEW o \in Objects,
         NEW key \in Keys, NEW pc \in Steps, NEW r \in Handlers,
         r.op = op, r.obj = o, r.key = key, r.gone = "no", MayCall(c, o),
         Refuse(c, r, "Aborted") \/ Goto(c, pc, r)
  PROVE  /\ Started(c, op, o)
         /\ h'[c].pc \in {"done", pc}
         /\ h'[c].pc = pc => h'[c].key = key /\ h'[c].path = r.path
  <1>1. h \in [Calls -> Handlers] /\ h[c].pc = "idle" /\ ~Calling(o)
    BY HandlerFacts DEF MayCall
  <1>2. nextCall("no") = "no" /\ pc # "done"
    BY NotSteps DEF nextCall
  <1>3. CASE Refuse(c, r, "Aborted")
    BY <1>1, <1>2, <1>3, RefuseFields DEF Codes, Started
  <1>4. CASE Goto(c, pc, r)
    BY <1>1, <1>2, <1>4, GotoFields DEF Started
  <1> QED
    BY <1>3, <1>4

LEMMA DeleteVolumeStarted ==
  ASSUME IndInv, NEW c \in Calls, NEW n \in Names, DeleteVolume(c, n)
  PROVE  /\ Started(c, "DeleteVolume", n)
         /\ h'[c].pc \in {"done", "dv_GetVolumeAttributes"}
         /\ h'[c].pc = "dv_GetVolumeAttributes"
              => h'[c].key = VolumeKey(pv[n].handle) /\ h'[c].path = None
  <1> DEFINE key == VolumeKey(pv[n].handle)
             r == Request("DeleteVolume", n, key)
  <1>1. key \in Keys /\ n \in Objects /\ "DeleteVolume" \in Ops
    BY DEF DeleteVolume, IndInv, ObjectsOK, VolumeAttributes, Keys, Objects, Ops
  <1>2. /\ r \in Handlers /\ r.op = "DeleteVolume" /\ r.obj = n
        /\ r.key = key /\ r.gone = "no" /\ r.path = None
    BY <1>1, RequestFields, RequestGone
  <1>3. "dv_GetVolumeAttributes" \in Steps
    BY DEF Steps, DeleteVolumeSteps
  <1> HIDE DEF key, r
  <1>4. MayCall(c, n) /\ (Refuse(c, r, "Aborted")
                         \/ Goto(c, "dv_GetVolumeAttributes", r))
    BY DEF DeleteVolume, key, r
  <1>5. /\ Started(c, "DeleteVolume", n)
        /\ h'[c].pc \in {"done", "dv_GetVolumeAttributes"}
        /\ h'[c].pc = "dv_GetVolumeAttributes"
             => h'[c].key = key /\ h'[c].path = None
    BY <1>1, <1>2, <1>3, <1>4, OtherStarted
  <1> QED
    BY <1>5 DEF key

LEMMA CreateSnapshotStarted ==
  ASSUME IndInv, NEW c \in Calls, NEW s \in Snaps, CreateSnapshot(c, s)
  PROVE  /\ Started(c, "CreateSnapshot", s)
         /\ h'[c].pc \in {"done", "cs_GetVolumeAttributes"}
  <1> DEFINE r == Request("CreateSnapshot", s, SnapshotKey(s))
  <1>1. SnapshotKey(s) \in Keys /\ s \in Objects /\ "CreateSnapshot" \in Ops
    BY DEF Keys, Objects, Ops
  <1>2. /\ r \in Handlers /\ r.op = "CreateSnapshot" /\ r.obj = s
        /\ r.key = SnapshotKey(s) /\ r.gone = "no"
    BY <1>1, RequestFields, RequestGone
  <1>3. "cs_GetVolumeAttributes" \in Steps
    BY DEF Steps, CreateSnapshotSteps
  <1> HIDE DEF r
  <1>4. MayCall(c, s) /\ (Refuse(c, r, "Aborted")
                         \/ Goto(c, "cs_GetVolumeAttributes", r))
    BY DEF CreateSnapshot, r
  <1> QED
    BY <1>1, <1>2, <1>3, <1>4, OtherStarted

LEMMA DeleteSnapshotStarted ==
  ASSUME IndInv, NEW c \in Calls, NEW s \in Snaps, DeleteSnapshot(c, s)
  PROVE  /\ Started(c, "DeleteSnapshot", s)
         /\ h'[c].pc \in {"done", "ds_ListVolumes"}
  <1> DEFINE key == DeleteSnapshotKey(vsc[s])
             q == Request("DeleteSnapshot", s, key)
             r == [q EXCEPT !.cid = vsc[s]]
  <1>1. vsc[s] \in CIDs
    BY DEF DeleteSnapshot, IndInv, ObjectsOK
  <1>2. key \in Keys /\ s \in Objects /\ "DeleteSnapshot" \in Ops
    BY <1>1 DEF Keys, Objects, Ops
  <1>3. /\ q \in Handlers /\ q.op = "DeleteSnapshot" /\ q.obj = s
        /\ q.key = key /\ q.gone = "no"
    BY <1>2, RequestFields, RequestGone
  <1> HIDE DEF q, key
  <1>4. /\ r \in Handlers /\ r.op = "DeleteSnapshot" /\ r.obj = s
        /\ r.key = key /\ r.gone = "no"
    BY <1>1, <1>3 DEF Handlers
  <1>5. "ds_ListVolumes" \in Steps
    BY DEF Steps, DeleteSnapshotSteps
  <1> HIDE DEF r
  <1>6. MayCall(c, s) /\ (Refuse(c, r, "Aborted") \/ Goto(c, "ds_ListVolumes", r))
    BY DEF DeleteSnapshot, key, q, r
  <1> QED
    BY <1>2, <1>4, <1>5, <1>6, OtherStarted

-----------------------------------------------------------------------------
(***************************************************************************)
(* OwnersInv is inductive, given IndInv.                                   *)
(***************************************************************************)

\* A claim never changes, nor do the context and the path that follow from it.
LEMMA SameClaim ==
  ASSUME claim' = claim
  PROVE  /\ \A n : VolumeContext(n)' = VolumeContext(n)
         /\ \A n : volumePath(n)' = volumePath(n)
         /\ \A p : (Leads(p)' <=> Leads(p)) /\ (Claimed(p)' <=> Claimed(p))
  <1>1. \A n : volumePath(n)' = volumePath(n)
    BY DEF volumePath, claimPath, normalizeMFSPath
  <1>2. \A n : VolumeContext(n)' = VolumeContext(n)
    BY <1>1 DEF VolumeContext
  <1> QED
    BY <1>1, <1>2 DEF Leads, Claimed

\* What the context says of a volume without a CID: writable, at its path.
LEMMA ContextFields ==
  ASSUME NEW n
  PROVE  /\ VolumeContext(n).handle = sanitizeVolumeID[n]
         /\ ~VolumeContext(n).readonly
              => claim[n].cid = None /\ VolumeContext(n).mfspath = volumePath(n)
  <1>1. /\ VolumeContext(n).readonly = (claim[n].cid # None)
        /\ claim[n].cid = None => VolumeContext(n).mfspath = volumePath(n)
        /\ VolumeContext(n).handle = sanitizeVolumeID[n]
    BY DEF VolumeContext
  <1>2. ~VolumeContext(n).readonly => claim[n].cid = None
    BY <1>1, Zenon
  <1> QED
    BY <1>1, <1>2

\* The API, the claims and the caches stay: so does what is said of them.
LEMMA SameContexts ==
  ASSUME ContextsOK, UNCHANGED <<storeVars, claim, phase>>
  PROVE  ContextsOK'
  BY SameClaim DEF ContextsOK, storeVars

\* A handler's step: one that succeeds had the lock, so no other creates.
LEMMA OwnersMove ==
  ASSUME IndInv, OwnersInv, NEW c \in Calls, Holding(c), HandlerMove(c),
         UNCHANGED envVars
  PROVE  OwnersInv'
  <1>1. /\ h \in [Calls -> Handlers]
        /\ \A d \in Calls : d # c => h'[d] = h[d]
        /\ \A d \in Calls : /\ h'[d].op = h[d].op /\ h'[d].obj = h[d].obj
                            /\ h'[d].key = h[d].key
        /\ \A d \in Calls : h'[d].gone = "no" => h[d].gone = "no"
        /\ \A d \in Calls : Holding(d)' => Holding(d)
    BY DEF IndInv, TypeOK, HandlerMove, Holding, nextCall
  <1>2. phase' = phase /\ ContextsOK'
    BY SameContexts DEF envVars, OwnersInv
  <1>3. KeysOK'
    BY <1>1 DEF OwnersInv, KeysOK
  <1>4. PhasesOK'
    BY <1>1, <1>2 DEF OwnersInv, PhasesOK, Creating
  <1>5. ASSUME NEW a \in Calls, NEW b \in Calls,
               Creating(a)', Succeeded(b)', h'[b].gone = "no"
        PROVE  h'[a].obj # h'[b].obj
    <2>1. CASE b # c
      BY <1>1, <1>5, <2>1 DEF OwnersInv, OneCall, Creating, Succeeded
    <2>2. CASE b = c
      <3>1. a # c /\ Holding(a) /\ h[a].op = "CreateVolume"
        BY <1>1, <1>5, <2>2, NotSteps DEF Creating, Succeeded, Holding
      <3>2. h[c].op = "CreateVolume"
        BY <1>1, <1>5, <2>2 DEF Succeeded
      <3> QED
        BY <1>1, <2>2, <3>1, <3>2
           DEF IndInv, LockDiscipline, OwnersInv, KeysOK
    <2> QED
      BY <2>1, <2>2
  <1>6. OneCall'
    BY <1>1, <1>5 DEF OwnersInv, OneCall, Live
  <1> QED
    BY <1>2, <1>3, <1>4, <1>6 DEF OwnersInv

\* A call that arrives: nobody else is calling for its object.
LEMMA OwnersStart ==
  ASSUME IndInv, OwnersInv, NEW c \in Calls, NEW op \in Ops, NEW o \in Objects,
         Started(c, op, o), UNCHANGED envVars,
         op \in {"CreateVolume", "CreateSnapshot"} => phase[o] = "wanted",
         op \in {"DeleteVolume", "DeleteSnapshot"} => phase[o] = "released",
         h'[c].pc \in Steps /\ op \in {"CreateVolume", "DeleteVolume"}
           => h'[c].key = VolumeKey(sanitizeVolumeID[o])
  PROVE  OwnersInv'
  <1>1. /\ \A d \in Calls : d # c => h'[d] = h[d]
        /\ h'[c].op = op /\ h'[c].obj = o /\ h'[c].gone = "no"
        /\ \A d \in Calls : ~(h[d].obj = o /\ h[d].gone = "no")
        /\ ~Succeeded(c)'
    BY HandlerFacts, NotSteps DEF Started, Calling, Succeeded
  <1>2. phase' = phase /\ ContextsOK'
    BY SameContexts DEF envVars, OwnersInv
  <1>3. KeysOK'
    BY <1>1 DEF OwnersInv, KeysOK, Holding
  <1>4. PhasesOK'
    BY <1>1, <1>2 DEF OwnersInv, PhasesOK, Creating, Holding, Ops
  <1>5. OneCall'
    BY <1>1 DEF OwnersInv, OneCall, Live, Creating, Succeeded, Holding
  <1> QED
    BY <1>2, <1>3, <1>4, <1>5 DEF OwnersInv

\* Handlers leave, or their callers do; the rest is as before.
LEMMA OwnersLeave ==
  ASSUME IndInv, OwnersInv, ContextsOK',
         \A d \in Calls :
           \/ h'[d] = Idle
           \/ /\ h'[d].pc = h[d].pc /\ h'[d].op = h[d].op /\ h'[d].obj = h[d].obj
              /\ h'[d].key = h[d].key /\ h'[d].code = h[d].code
              /\ h'[d].gone = "no" => h[d].gone = "no",
         UNCHANGED phase
  PROVE  OwnersInv'
  <1>1. /\ Idle.pc = "idle" /\ Idle.op = None /\ Idle.obj = None
        /\ None \notin Objects /\ None \notin Ops
    BY ControllerAssumption DEF Idle
  <1>2. \A d \in Calls : ~(h'[d] = Idle /\ (Holding(d)' \/ Live(d)' \/ Succeeded(d)'))
    BY <1>1, NotSteps DEF Holding, Live, Succeeded
  <1>3. KeysOK'
    BY <1>2 DEF OwnersInv, KeysOK, Holding
  <1>4. PhasesOK'
    BY <1>1, <1>2 DEF OwnersInv, PhasesOK, Creating, Holding, Ops
  <1>5. OneCall'
    BY <1>2 DEF OwnersInv, OneCall, Live, Creating, Succeeded, Holding
  <1> QED
    BY <1>3, <1>4, <1>5 DEF OwnersInv

\* A saved or deleted PV is a volume context or nothing.
LEMMA ContextsWrite ==
  ASSUME IndInv, ContextsOK, NEW n \in Names, NEW x \in {None, VolumeContext(n)},
         WritePV(n, x), claim' = claim,
         \A m \in Names \ {n} : phase'[m] = phase[m],
         phase'[n] \in {"bound", "released"} => x = VolumeContext(n)
  PROVE  ContextsOK'
  <1> DEFINE e == [name |-> n, obj |-> x]
  <1>1. pvEvents' = Append(pvEvents, e) /\ pv' = [pv EXCEPT ![n] = x] /\ pvCache' = pvCache
    BY DEF WritePV
  <1>2. pvEvents \in Seq(PVEvents) /\ pv \in [Names -> VolumeAttributes \cup {None}]
    BY DEF IndInv, TypeOK, StoresTypeOK, PVs
  <1>3. x \in VolumeAttributes \cup {None}
    BY VolumeContextType DEF IndInv
  <1>4. e \in PVEvents /\ e.name = n /\ e.obj = x
    BY <1>3 DEF PVEvents
  <1>5. ASSUME NEW i \in DOMAIN pvEvents', pvEvents'[i].obj # None
        PROVE  pvEvents'[i].obj = VolumeContext(pvEvents'[i].name)
    <2> HIDE DEF e
    <2>1. i \in 1..(Len(pvEvents) + 1)
      BY <1>1, <1>2, <1>4
    <2>2. CASE i \in 1..Len(pvEvents)
      BY <1>1, <1>2, <1>4, <1>5, <2>2 DEF ContextsOK
    <2>3. CASE i = Len(pvEvents) + 1
      BY <1>1, <1>2, <1>4, <1>5, <2>3
    <2> QED
      BY <2>1, <2>2, <2>3
  <1>6. ASSUME NEW m \in Names
        PROVE  /\ phase'[m] \in {"bound", "released"} => pv'[m] = VolumeContext(m)
               /\ pv'[m] # None => pv'[m] = VolumeContext(m)
               /\ pvCache'[m] # None => pvCache'[m] = VolumeContext(m)
    BY <1>1, <1>2 DEF ContextsOK
  <1> QED
    BY <1>5, <1>6, SameClaim DEF ContextsOK

\* Recording a success: the caller was the only one, and nobody creates.
LEMMA OwnersReply ==
  ASSUME IndInv, OwnersInv, NEW c \in Calls, Reply(c)
  PROVE  OwnersInv'
  <1>1. /\ h \in [Calls -> Handlers] /\ h[c] \in Handlers /\ HandlerOK(h[c])
        /\ h' = [h EXCEPT ![c] = Idle] /\ h[c].pc = "done" /\ claim' = claim
    BY HandlerFacts DEF Reply
  <1>2. /\ h'[c] = Idle
        /\ \A d \in Calls : d # c => h'[d] = h[d]
    BY <1>1
  <1>3. CASE ~(h[c].code = "OK" /\ h[c].gone = "no")
    <2>1. UNCHANGED <<storeVars, claim, phase>>
      BY <1>1, <1>3 DEF Reply
    <2>2. ContextsOK' /\ phase' = phase
      BY <2>1, SameContexts DEF OwnersInv
    <2> QED
      BY <1>2, <2>2, OwnersLeave
  <1>4. CASE h[c].code = "OK" /\ h[c].gone = "no"
    <2> DEFINE o == h[c].obj
    <2>1. Recorded(c, o) /\ h[c].op \in Ops /\ o \in Objects
      BY <1>1, <1>4 DEF Reply, HandlerOK, Objects, Ops
    <2>2. phase \in [Objects -> Phases]
      BY DEF IndInv, TypeOK
    <2>3. /\ \A x \in Objects : x # o => phase'[x] = phase[x]
          /\ h[c].op \in {"CreateVolume", "CreateSnapshot"} => phase'[o] = "bound"
          /\ h[c].op \in {"DeleteVolume", "DeleteSnapshot"} => phase'[o] = "gone"
      BY <2>1, <2>2 DEF Recorded
    <2>4. ContextsOK'
      <3>1. CASE h[c].op = "CreateVolume"
        <4>1. o \in Names /\ WritePV(o, VolumeContext(o))
          BY <1>1, <2>1, <3>1 DEF Recorded, HandlerOK
        <4> HIDE DEF o
        <4> QED
          BY <1>1, <2>3, <4>1, ContextsWrite DEF OwnersInv, Objects
      <3>2. CASE h[c].op = "DeleteVolume"
        <4>1. o \in Names /\ WritePV(o, None) /\ phase'[o] = "gone"
          BY <1>1, <2>1, <2>3, <3>2 DEF Recorded, HandlerOK
        <4> HIDE DEF o
        <4> QED
          BY <1>1, <2>3, <4>1, ContextsWrite DEF OwnersInv, Objects
      <3>3. CASE h[c].op \in {"CreateSnapshot", "DeleteSnapshot"}
        <4>1. /\ o \in Snaps /\ pv' = pv /\ pvEvents' = pvEvents
              /\ pvCache' = pvCache
          BY <1>1, <2>1, <3>3 DEF Recorded, HandlerOK, WriteVSC
        <4>2. \A n \in Names : phase'[n] = phase[n]
          BY <2>3, <4>1, ObjectAssumption DEF Objects
        <4> QED
          BY <1>1, <4>1, <4>2, SameClaim DEF OwnersInv, ContextsOK
      <3> QED
        BY <2>1, <3>1, <3>2, <3>3 DEF Ops
    <2>5. \A d \in Calls : d # c /\ h[d].gone = "no" => h[d].obj # o
      BY <1>4, <2>1 DEF OwnersInv, OneCall, Live
    <2>6. \A d \in Calls : Creating(d) => h[d].obj # o
      <3> SUFFICES ASSUME NEW d \in Calls, Creating(d), h[d].obj = o
                   PROVE  FALSE
        OBVIOUS
      <3>1. phase[o] = "wanted" /\ o \in Names
        BY DEF OwnersInv, PhasesOK, Creating, IndInv, HandlerOK
      <3>2. h[c].op = "CreateVolume"
        BY <1>1, <1>4, <2>1, <3>1, ObjectAssumption
           DEF OwnersInv, PhasesOK, HandlerOK, Ops
      <3> QED
        BY <1>1, <1>4, <3>2 DEF OwnersInv, OneCall, Succeeded
    <2>7. \A d \in Calls : /\ HandlerOK(h[d])
                           /\ h[d].op \in Ops => h[d].obj \in Objects
      BY DEF IndInv, HandlerOK, Ops, Objects
    <2> HIDE DEF o
    <2>8. KeysOK' /\ OneCall'
      <3>1. /\ Idle.pc = "idle" /\ Idle.obj = None /\ None \notin Objects
        BY ControllerAssumption DEF Idle
      <3> QED
        BY <1>2, <3>1, NotSteps
           DEF OwnersInv, KeysOK, OneCall, Live, Creating, Succeeded, Holding
    <2>9. PhasesOK'
      <3> SUFFICES ASSUME NEW d \in Calls
                   PROVE  /\ h'[d].op \in {"CreateVolume", "CreateSnapshot"}
                              /\ h'[d].gone = "no" => phase'[h'[d].obj] = "wanted"
                          /\ h'[d].op \in {"DeleteVolume", "DeleteSnapshot"}
                             => /\ phase'[h'[d].obj] \in {"released", "gone"}
                                /\ h'[d].gone = "no" => phase'[h'[d].obj] = "released"
                          /\ Creating(d)' => phase'[h'[d].obj] = "wanted"
        BY DEF PhasesOK
      <3>1. CASE d = c
        BY <1>2, <3>1, NotSteps, ControllerAssumption DEF Idle, Creating, Holding, Ops
      <3>2. CASE d # c
        <4>1. h'[d] = h[d] /\ (Creating(d)' <=> Creating(d))
          BY <1>2, <3>2 DEF Creating, Holding
        <4>2. CASE h[d].op \in Ops
          <5>1. CASE h[d].obj # o
            BY <2>3, <2>7, <4>1, <4>2, <5>1 DEF OwnersInv, PhasesOK
          <5>2. CASE h[d].obj = o
            <6>1. h[d].gone # "no" /\ ~Creating(d)
              BY <2>5, <2>6, <3>2, <5>2
            <6>2. h[d].op \in {"DeleteVolume", "DeleteSnapshot"}
                    => phase[o] \in {"released", "gone"}
              BY <5>2 DEF OwnersInv, PhasesOK
            <6>3. h[c].op \in {"CreateVolume", "CreateSnapshot"} => phase[o] = "wanted"
              BY <1>4 DEF OwnersInv, PhasesOK, o
            <6>4. h[d].op \in {"DeleteVolume", "DeleteSnapshot"} => phase'[o] = "gone"
              BY <2>1, <2>3, <6>2, <6>3 DEF Ops
            <6> QED
              BY <4>1, <5>2, <6>1, <6>4
          <5> QED
            BY <5>1, <5>2
        <4>3. CASE h[d].op \notin Ops
          <5>1. ~Creating(d)
            BY <4>3 DEF Creating, Ops
          <5> QED
            BY <4>1, <4>3, <5>1 DEF Ops
        <4> QED
          BY <4>2, <4>3
      <3> QED
        BY <3>1, <3>2
    <2> QED
      BY <2>4, <2>8, <2>9 DEF OwnersInv
  <1> QED
    BY <1>3, <1>4

\* The driver dies, users, nodes and informers act.
LEMMA OwnersOthers ==
  ASSUME IndInv, OwnersInv,
         \/ \E c \in Calls : Abandon(c)
         \/ Crash
         \/ \E o \in Objects : ReleaseObject(o)
         \/ \E n \in Names : NodeImport(n)
         \/ InformerStep
         \/ UNCHANGED vars
  PROVE  OwnersInv'
  <1>1. ASSUME NEW c \in Calls, Abandon(c)
        PROVE  OwnersInv'
    <2>1. ContextsOK' /\ phase' = phase
      BY <1>1, SameContexts DEF Abandon, envVars, OwnersInv
    <2>2. h[c] \in Handlers /\ h \in [Calls -> Handlers]
      BY HandlerFacts
    <2> DEFINE x == [h[c] EXCEPT !.gone = "now"]
    <2>3. /\ x.pc = h[c].pc /\ x.op = h[c].op /\ x.obj = h[c].obj
          /\ x.key = h[c].key /\ x.code = h[c].code /\ x.gone = "now"
      BY <2>2 DEF Handlers
    <2>4. h' = [h EXCEPT ![c] = x]
      BY <1>1 DEF Abandon
    <2> HIDE DEF x
    <2>5. \A d \in Calls :
           /\ h'[d].pc = h[d].pc /\ h'[d].op = h[d].op /\ h'[d].obj = h[d].obj
           /\ h'[d].key = h[d].key /\ h'[d].code = h[d].code
           /\ h'[d].gone = "no" => h[d].gone = "no"
      BY <2>2, <2>3, <2>4
    <2> QED
      BY <2>1, <2>5, OwnersLeave
  <1>2. CASE Crash
    <2>1. ContextsOK' /\ phase' = phase
      <3>1. /\ pv' = pv /\ pvCache' = pv /\ pvEvents' = <<>> /\ claim' = claim
            /\ phase' = phase
        BY <1>2 DEF Crash, StartInformers
      <3> QED
        BY <3>1, SameClaim DEF OwnersInv, ContextsOK
    <2>2. \A d \in Calls : h'[d] = Idle
      BY <1>2 DEF Crash
    <2> QED
      BY <2>1, <2>2, OwnersLeave
  <1>3. ASSUME NEW o \in Objects, ReleaseObject(o)
        PROVE  OwnersInv'
    <2>1. /\ phase \in [Objects -> Phases] /\ phase' = [phase EXCEPT ![o] = "released"]
          /\ phase[o] = "bound" /\ h' = h /\ UNCHANGED <<storeVars, claim>>
      BY <1>3 DEF ReleaseObject, IndInv, TypeOK
    <2>2. \A d \in Calls : h[d].op \in Ops => h[d].obj \in Objects
      BY DEF IndInv, HandlerOK, Ops, Objects
    <2>3. \A n \in Names : phase'[n] \in {"bound", "released"}
                             => phase[n] \in {"bound", "released"}
      BY <2>1 DEF Objects
    <2>4. ContextsOK'
      BY <2>1, <2>3, SameClaim DEF OwnersInv, ContextsOK, storeVars
    <2>5. PhasesOK'
      BY <2>1, <2>2 DEF OwnersInv, PhasesOK, Creating, Holding, Ops
    <2>6. KeysOK' /\ OneCall'
      BY <2>1 DEF OwnersInv, KeysOK, OneCall, Live, Creating, Succeeded, Holding
    <2> QED
      BY <2>4, <2>5, <2>6 DEF OwnersInv
  <1>4. CASE (\E n \in Names : NodeImport(n)) \/ UNCHANGED vars
    <2>1. UNCHANGED <<storeVars, claim, phase>> /\ h' = h
      BY <1>4 DEF NodeImport, vars
    <2>2. ContextsOK' /\ phase' = phase
      BY <2>1, SameContexts DEF OwnersInv
    <2> QED
      BY <2>1, <2>2, OwnersLeave
  <1>5. CASE InformerStep
    <2>1. UNCHANGED <<pv, claim, phase, h>>
      BY <1>5 DEF InformerStep, ApplyPVEvent, ApplyVSCEvent
    <2>2. ContextsOK'
      <3>1. CASE ApplyVSCEvent
        BY <2>1, <3>1, SameClaim DEF ApplyVSCEvent, OwnersInv, ContextsOK
      <3>2. CASE ApplyPVEvent
        <4>1. /\ pvEvents \in Seq(PVEvents) /\ pvEvents # <<>>
              /\ pvCache \in [Names -> VolumeAttributes \cup {None}]
          BY <3>2 DEF ApplyPVEvent, IndInv, TypeOK, StoresTypeOK, PVs
        <4> DEFINE e == Head(pvEvents)
        <4>2. e \in PVEvents /\ e = pvEvents[1] /\ 1 \in DOMAIN pvEvents
          BY <4>1
        <4>3. pvCache' = [pvCache EXCEPT ![e.name] = e.obj]
          BY <3>2 DEF ApplyPVEvent
        <4> HIDE DEF e
        <4>4. e.name \in Names
          BY <4>2 DEF PVEvents
        <4>5. e.obj # None => e.obj = VolumeContext(e.name)
          BY <4>2 DEF OwnersInv, ContextsOK
        <4>6. \A n \in Names : pvCache'[n] # None => pvCache'[n] = VolumeContext(n)
          BY <4>1, <4>3, <4>4, <4>5 DEF OwnersInv, ContextsOK
        <4>7. ASSUME NEW i \in DOMAIN pvEvents', pvEvents'[i].obj # None
              PROVE  pvEvents'[i].obj = VolumeContext(pvEvents'[i].name)
          <5>1. pvEvents' = Tail(pvEvents)
            BY <3>2 DEF ApplyPVEvent
          <5>2. i \in 1..(Len(pvEvents) - 1) /\ pvEvents'[i] = pvEvents[i + 1]
            BY <4>1, <4>7, <5>1
          <5>3. i + 1 \in DOMAIN pvEvents
            BY <4>1, <5>2
          <5> QED
            BY <4>7, <5>2, <5>3 DEF OwnersInv, ContextsOK
        <4> QED
          BY <2>1, <4>6, <4>7, SameClaim DEF OwnersInv, ContextsOK
      <3> QED
        BY <1>5, <3>1, <3>2 DEF InformerStep
    <2> QED
      BY <2>1, <2>2, OwnersLeave
  <1> QED
    BY <1>1, <1>2, <1>3, <1>4, <1>5

-----------------------------------------------------------------------------
(***************************************************************************)
(* The moves of CreateVolume and of its restore: where a handler goes, and *)
(* what becomes of the tree at its path.                                   *)
(***************************************************************************)
Failed(c) == h'[c].pc = "done" /\ h'[c].code # "OK"
Passed(c) == h'[c].pc = "done" /\ h'[c].code = "OK"

CreateVolumeMoves(c) ==
  LET from(pc) == h[c].pc = pc
      to(pc) == h'[c].pc = pc
      p == h[c].path
  IN  /\ h'[c].path = p /\ h'[c].cid = h[c].cid
      /\ \/ Failed(c) /\ mfs' = mfs
         \/ /\ from("cv_MkdirMFS") \/ from("rs_MkdirMFS")
            /\ Failed(c) /\ \E o : MkdirMFS(p, o)
         \/ /\ from("rs_cpMFS") /\ Failed(c)
            /\ \E f \in h[c].todo : \E o : ~cpRefused(f, p) /\ cpMFS(f, p, o)
         \/ from("cv_StatCID") /\ to("cv_PinCID") /\ mfs' = mfs
         \/ /\ from("cv_StatCID") /\ Passed(c) /\ mfs' = mfs
            /\ ~claim[h[c].obj].pinning
         \/ /\ from("cv_PinCID") /\ Passed(c) /\ mfs' = mfs
            /\ h'[c].pinok \/ PinFailurePolicy = "best-effort"
         \/ /\ from("cv_MkdirMFS") /\ Passed(c) /\ MkdirMFS(p, "ok")
            /\ h[c].cid = None
         \/ /\ from("cv_MkdirMFS") /\ to("rs_StatCID") /\ MkdirMFS(p, "ok")
            /\ h[c].cid # None
         \/ from("rs_StatCID") /\ to("rs_GetCIDContent") /\ mfs' = mfs
         \/ /\ from("rs_GetCIDContent") /\ to("rs_RmMFS") /\ mfs' = mfs
            /\ h'[c].todo = h[c].cid
         \/ /\ from("rs_RmMFS") /\ to("rs_MkdirMFS") /\ \E o : RmMFS(p, o)
            /\ h'[c].todo = h[c].todo
         \/ /\ from("rs_MkdirMFS") /\ to("rs_cpMFS") /\ MkdirMFS(p, "ok")
            /\ h'[c].todo = h[c].todo
         \/ /\ from("rs_cpMFS") /\ Passed(c) /\ mfs' = mfs
            /\ h[c].todo = {}
         \/ /\ from("rs_cpMFS") /\ to("rs_cpMFS")
            /\ \E f \in h[c].todo : /\ h'[c].todo = h[c].todo \ {f}
                                    /\ ~cpRefused(f, p)
                                    /\ cpMFS(f, p, "ok")

\* A handler that goes on, or returns, with its fields as they are.
LEMMA SameFields ==
  ASSUME IndInv, NEW c \in Calls
  PROVE  /\ \A pc \in Steps :
              Goto(c, pc, h[c])
                => /\ h'[c].pc = pc /\ h'[c].path = h[c].path
                   /\ h'[c].cid = h[c].cid /\ h'[c].todo = h[c].todo
         /\ \A code \in Codes :
              Finish(c, code, h[c])
                => /\ h'[c].pc = "done" /\ h'[c].code = code
                   /\ h'[c].path = h[c].path /\ h'[c].cid = h[c].cid
  BY HandlerFacts, GotoFields, FinishFields

LEMMA CreateVolumeStepMoves ==
  ASSUME IndInv, NEW c \in Calls, CreateVolumeStep(c)
  PROVE  CreateVolumeMoves(c)
  <1> USE DEF CreateVolumeMoves, Failed, Passed, Codes
  <1>1. h[c] \in Handlers /\ h \in [Calls -> Handlers]
    BY HandlerFacts
  <1>2. /\ "cv_PinCID" \in Steps /\ "rs_StatCID" \in Steps
        /\ "rs_GetCIDContent" \in Steps /\ "rs_RmMFS" \in Steps
        /\ "rs_MkdirMFS" \in Steps /\ "rs_cpMFS" \in Steps
    BY DEF Steps, CreateVolumeSteps, RestoreSteps
  <1>3. CASE cv_StatCID(c)
    BY <1>2, <1>3, SameFields DEF cv_StatCID, ipfsVars
  <1>4. CASE cv_PinCID(c)
    <2>1. CASE \E code \in {"Internal"} : Finish(c, code, h[c])
      BY <1>4, <2>1, SameFields DEF cv_PinCID
    <2>2. CASE Finish(c, "OK", h[c]) /\ PinFailurePolicy = "best-effort"
      BY <1>4, <2>2, SameFields DEF cv_PinCID
    <2>3. CASE Finish(c, "OK", [h[c] EXCEPT !.pinok = TRUE])
      <3> DEFINE r == [h[c] EXCEPT !.pinok = TRUE]
      <3>1. /\ r \in Handlers /\ r.pinok = TRUE
            /\ r.path = h[c].path /\ r.cid = h[c].cid
        BY <1>1 DEF Handlers
      <3>2. Finish(c, "OK", r)
        BY <2>3
      <3> HIDE DEF r
      <3>3. /\ h'[c].pc = "done" /\ h'[c].code = "OK" /\ h'[c].pinok = TRUE
            /\ h'[c].path = h[c].path /\ h'[c].cid = h[c].cid
        BY <1>1, <3>1, <3>2, FinishFields
      <3> QED
        BY <1>4, <3>3 DEF cv_PinCID
    <2> QED
      BY <1>4, <2>1, <2>2, <2>3 DEF cv_PinCID
  <1>5. CASE cv_MkdirMFS(c)
    BY <1>2, <1>5, SameFields DEF cv_MkdirMFS
  <1>6. CASE rs_StatCID(c)
    BY <1>2, <1>6, SameFields DEF rs_StatCID, ipfsVars
  <1>7. CASE rs_GetCIDContent(c)
    <2>1. CASE Finish(c, "Internal", h[c])
      BY <1>7, <2>1, SameFields DEF rs_GetCIDContent, ipfsVars
    <2>2. CASE Goto(c, "rs_RmMFS", [h[c] EXCEPT !.todo = h[c].cid])
      <3> DEFINE r == [h[c] EXCEPT !.todo = h[c].cid]
      <3>1. h[c].cid \in CIDs
        BY <1>7, HandlerFacts DEF rs_GetCIDContent, HandlerOK, RestoreSteps
      <3>2. /\ r \in Handlers /\ r.todo = h[c].cid
            /\ r.path = h[c].path /\ r.cid = h[c].cid
        BY <1>1, <3>1, CIDsAreDirs DEF Handlers
      <3>3. Goto(c, "rs_RmMFS", r)
        BY <2>2
      <3> HIDE DEF r
      <3>4. /\ h'[c].pc = "rs_RmMFS" /\ h'[c].todo = h[c].cid
            /\ h'[c].path = h[c].path /\ h'[c].cid = h[c].cid
        BY <1>1, <1>2, <3>2, <3>3, GotoFields
      <3> QED
        BY <1>7, <3>4 DEF rs_GetCIDContent, ipfsVars
    <2> QED
      BY <1>7, <2>1, <2>2 DEF rs_GetCIDContent
  <1>8. CASE rs_RmMFS(c)
    BY <1>2, <1>8, SameFields DEF rs_RmMFS
  <1>9. CASE rs_MkdirMFS(c)
    BY <1>2, <1>9, SameFields DEF rs_MkdirMFS
  <1>10. CASE rs_cpMFS(c)
    <2>1. CASE Finish(c, "OK", h[c]) /\ h[c].todo = {} /\ UNCHANGED mfs
      BY <1>10, <2>1, SameFields DEF rs_cpMFS
    <2>2. CASE Finish(c, "Internal", h[c])
      BY <1>10, <2>2, SameFields DEF rs_cpMFS
    <2>3. ASSUME NEW f \in h[c].todo, ~cpRefused(f, h[c].path),
                 cpMFS(f, h[c].path, "ok"),
                 Goto(c, "rs_cpMFS", [h[c] EXCEPT !.todo = @ \ {f}])
          PROVE  CreateVolumeMoves(c)
      <3> DEFINE r == [h[c] EXCEPT !.todo = @ \ {f}]
      <3>1. /\ r \in Handlers /\ r.todo = h[c].todo \ {f}
            /\ r.path = h[c].path /\ r.cid = h[c].cid
        BY <1>1 DEF Handlers
      <3>2. Goto(c, "rs_cpMFS", r)
        BY <2>3
      <3> HIDE DEF r
      <3>3. /\ h'[c].pc = "rs_cpMFS" /\ h'[c].todo = h[c].todo \ {f}
            /\ h'[c].path = h[c].path /\ h'[c].cid = h[c].cid
        BY <1>1, <1>2, <3>1, <3>2, GotoFields
      <3> QED
        BY <1>10, <2>3, <3>3 DEF rs_cpMFS
    <2> QED
      BY <1>10, <2>1, <2>2, <2>3 DEF rs_cpMFS
  <1> QED
    BY <1>3, <1>4, <1>5, <1>6, <1>7, <1>8, <1>9, <1>10 DEF CreateVolumeStep

\* The path a volume gets is below the root, or refused.
LEMMA VolumePathUnderRoot ==
  ASSUME NEW n \in Names
  PROVE  volumePath(n) \in UnderRoot \cup {None}
  BY DEF volumePath, claimPath, normalizeMFSPath

\* DeleteVolume: the path it found in the cache, and the tree it removes.
DeleteVolumeMoves(c) ==
  /\ \/ h'[c].path = h[c].path
     \/ /\ h[c].pc = "dv_GetVolumeAttributes"
        /\ \E a \in GetVolumeAttributes(h[c].key[2]) :
             h'[c].path = IF a.mfspath # None /\ ~a.readonly
                          THEN Clean[a.mfspath] ELSE None
  /\ \/ mfs' = mfs
     \/ /\ h[c].pc = "dv_RmMFS" /\ h[c].path # None
        /\ \E o : RmMFS(h[c].path, o)

LEMMA DeleteVolumeStepMoves ==
  ASSUME IndInv, NEW c \in Calls, DeleteVolumeStep(c)
  PROVE  DeleteVolumeMoves(c)
  <1> USE DEF DeleteVolumeMoves, Codes
  <1>1. h[c] \in Handlers /\ h \in [Calls -> Handlers]
    BY HandlerFacts
  <1>2. /\ "dv_ListVolumes" \in Steps /\ "dv_ListSnapshots" \in Steps
        /\ "dv_UnpinCID" \in Steps /\ "dv_RmMFS" \in Steps
    BY DEF Steps, DeleteVolumeSteps
  <1>3. CASE dv_GetVolumeAttributes(c)
    <2>1. CASE Finish(c, "OK", h[c])
      BY <1>3, <2>1, SameFields DEF dv_GetVolumeAttributes, ipfsVars
    <2>2. ASSUME NEW a \in GetVolumeAttributes(h[c].key[2]),
                 NEW pc \in {"dv_ListVolumes", "dv_RmMFS"},
                 Goto(c, pc,
                      [h[c] EXCEPT !.cid = IF a.pinning THEN a.cid ELSE None,
                                   !.path = IF a.mfspath # None /\ ~a.readonly
                                            THEN Clean[a.mfspath] ELSE None])
          PROVE  DeleteVolumeMoves(c)
      <3> DEFINE cid == IF a.pinning THEN a.cid ELSE None
                 path == IF a.mfspath # None /\ ~a.readonly
                         THEN Clean[a.mfspath] ELSE None
                 r == [h[c] EXCEPT !.cid = cid, !.path = path]
      <3>1. a \in VolumeAttributes
        BY HandlerFacts, AttributesType
      <3>2. cid \in CIDs \cup {None} /\ path \in Paths \cup {None}
        BY <3>1, PathAssumption DEF VolumeAttributes
      <3>3. Goto(c, pc, r)
        BY <2>2
      <3> HIDE DEF cid, path
      <3>4. r \in Handlers /\ r.path = path
        BY <1>1, <3>2 DEF Handlers
      <3> HIDE DEF r
      <3>5. h'[c].path = path
        BY <1>1, <1>2, <3>3, <3>4, GotoFields
      <3> QED
        BY <1>3, <3>5 DEF path, dv_GetVolumeAttributes, ipfsVars
    <2> QED
      BY <1>3, <2>1, <2>2 DEF dv_GetVolumeAttributes
  <1>4. CASE dv_ListVolumes(c)
    <2> DEFINE b == volumeRefs(h[c].cid, h[c].key[2]) > 0
               r == [h[c] EXCEPT !.refs = b]
    <2>1. b \in BOOLEAN
      OBVIOUS
    <2>2. Goto(c, "dv_ListSnapshots", r)
      BY <1>4 DEF dv_ListVolumes
    <2> HIDE DEF b
    <2>3. r \in Handlers /\ r.path = h[c].path
      BY <1>1, <2>1 DEF Handlers
    <2> HIDE DEF r
    <2>4. h'[c].path = h[c].path
      BY <1>1, <1>2, <2>2, <2>3, GotoFields
    <2> QED
      BY <1>4, <2>4 DEF dv_ListVolumes, ipfsVars
  <1>5. CASE dv_ListSnapshots(c)
    BY <1>2, <1>5, SameFields DEF dv_ListSnapshots, ipfsVars
  <1>6. CASE dv_UnpinCID(c)
    BY <1>2, <1>6, SameFields DEF dv_UnpinCID
  <1>7. CASE dv_RmMFS(c)
    BY <1>7, SameFields DEF dv_RmMFS
  <1> QED
    BY <1>3, <1>4, <1>5, <1>6, <1>7 DEF DeleteVolumeStep

\* Every handler's step moves it on and leaves the environment alone.
LEMMA StepIsMove ==
  ASSUME IndInv, NEW c \in Calls, HandlerStep(c)
  PROVE  /\ Holding(c) /\ HandlerMove(c) /\ CallEffects /\ UNCHANGED envVars
         /\ \A d \in Calls \ {c} : h'[d] = h[d]
  <1>1. Holding(c) /\ HandlerMove(c) /\ CallEffects
    BY CreateVolumeStepMove, DeleteVolumeStepMove, CreateSnapshotStepMove,
       DeleteSnapshotStepMove DEF HandlerStep
  <1> QED
    BY <1>1, HandlerFacts DEF HandlerMove, CallEffects

\* Snapshots read the trees only.
LEMMA SnapshotsOnlyRead ==
  ASSUME NEW c, CreateSnapshotStep(c) \/ DeleteSnapshotStep(c)
  PROVE  mfs' = mfs
  BY DEF CreateSnapshotStep, DeleteSnapshotStep, cs_GetVolumeAttributes,
         cs_ResolveMFSCID, cs_PinCID, ds_ListVolumes, ds_ListSnapshots, ds_UnpinCID,
         ipfsVars

\* A step of another operation is not one of CreateVolume.
LEMMA StepOps ==
  ASSUME IndInv, NEW c \in Calls
  PROVE  /\ CreateVolumeStep(c) => h[c].op = "CreateVolume"
         /\ DeleteVolumeStep(c) => h[c].op = "DeleteVolume" /\ h[c].pc \in DeleteVolumeSteps
         /\ CreateSnapshotStep(c) => h[c].op = "CreateSnapshot"
         /\ DeleteSnapshotStep(c) => h[c].op = "DeleteSnapshot"
  <1>1. HandlerOK(h[c])
    BY HandlerFacts
  <1>2. CreateVolumeStep(c) => h[c].pc \in CreateVolumeSteps
    BY DEF CreateVolumeStep, CreateVolumeSteps, RestoreSteps, cv_StatCID, cv_PinCID,
           cv_MkdirMFS, rs_StatCID, rs_GetCIDContent, rs_RmMFS, rs_MkdirMFS, rs_cpMFS
  <1>3. DeleteVolumeStep(c) => h[c].pc \in DeleteVolumeSteps
    BY DEF DeleteVolumeStep, DeleteVolumeSteps, dv_GetVolumeAttributes,
           dv_ListVolumes, dv_ListSnapshots, dv_UnpinCID, dv_RmMFS
  <1>4. CreateSnapshotStep(c) => h[c].pc \in CreateSnapshotSteps
    BY DEF CreateSnapshotStep, CreateSnapshotSteps, cs_GetVolumeAttributes,
           cs_ResolveMFSCID, cs_PinCID
  <1>5. DeleteSnapshotStep(c) => h[c].pc \in DeleteSnapshotSteps
    BY DEF DeleteSnapshotStep, DeleteSnapshotSteps, ds_ListVolumes,
           ds_ListSnapshots, ds_UnpinCID
  <1> QED
    BY <1>1, <1>2, <1>3, <1>4, <1>5 DEF HandlerOK

(***************************************************************************)
(* A step writes at most the path of its handler, removes what is inside   *)
(* it and makes the directories around it: CreateVolume at a step that     *)
(* works on a tree, DeleteVolume at its removal.                           *)
(***************************************************************************)
LEMMA StepWrites ==
  ASSUME IndInv, NEW c \in Calls, HandlerStep(c), NEW p \in Paths,
         mfs'[p] # mfs[p]
  PROVE  /\ h[c].path # None /\ ~Apart(p, h[c].path)
         /\ mfs'[p] # None => p = h[c].path \/ h[c].path \in Below[p]
         /\ \/ CreateVolumeStep(c) /\ h[c].pc \in TreeSteps
            \/ DeleteVolumeStep(c) /\ h[c].pc = "dv_RmMFS" /\ mfs'[p] = None
  <1>1. mfs \in [Paths -> CIDs \cup {None}]
    BY DEF IndInv, TypeOK, IpfsTypeOK
  <1>2. CASE CreateVolumeStep(c)
    <2>1. CreateVolumeMoves(c)
      BY <1>2, CreateVolumeStepMoves
    <2>2. PICK q : /\ q = h[c].path
                   /\ \E o, f : MkdirMFS(q, o) \/ RmMFS(q, o) \/ cpMFS(f, q, o)
                   /\ h[c].pc \in TreeSteps
      BY <2>1, <1>2 DEF CreateVolumeMoves, TreeSteps, RestoreSteps
    <2>3. q # None
      BY <2>2, HandlerFacts, NoneAssumption, PathAssumption DEF HandlerOK, TreeSteps
    <2> QED
      BY <1>1, <1>2, <2>2, <2>3 DEF MkdirMFS, RmMFS, cpMFS, Made, Removed, Apart
  <1>3. CASE DeleteVolumeStep(c)
    <2>1. DeleteVolumeMoves(c)
      BY <1>3, DeleteVolumeStepMoves
    <2> QED
      BY <1>1, <1>3, <2>1 DEF DeleteVolumeMoves, RmMFS, Removed, Apart
  <1>4. CASE CreateSnapshotStep(c) \/ DeleteSnapshotStep(c)
    BY <1>4, SnapshotsOnlyRead
  <1> QED
    BY <1>2, <1>3, <1>4 DEF HandlerStep

-----------------------------------------------------------------------------
(***************************************************************************)
(* BranchInv is inductive, given IndInv and OwnersInv.                     *)
(***************************************************************************)

\* What is said of a handler follows from a few of its fields and the claims.
LEMMA SameBranch ==
  ASSUME NEW d, BranchOK(d), claim' = claim,
         h'[d].pc = h[d].pc, h'[d].op = h[d].op, h'[d].obj = h[d].obj,
         h'[d].path = h[d].path, h'[d].pinok = h[d].pinok, h'[d].code = h[d].code
  PROVE  BranchOK(d)'
  BY SameClaim DEF BranchOK, Creating, Succeeded, Holding, InvalidSource

\* A handler that neither creates nor has created promises nothing here.
LEMMA NoBranch ==
  ASSUME NEW d, HandlerOK(h'[d]), h'[d].op # "CreateVolume"
  PROVE  BranchOK(d)'
  BY DEF BranchOK, Creating, Succeeded, HandlerOK, TreeSteps, CreateVolumeSteps

LEMMA BranchMove ==
  ASSUME IndInv, OwnersInv, BranchInv, NEW c \in Calls, HandlerStep(c)
  PROVE  BranchInv'
  <1>1. /\ HandlerMove(c) /\ UNCHANGED envVars
        /\ \A d \in Calls \ {c} : h'[d] = h[d]
    BY StepIsMove
  <1>2. UNCHANGED <<claim, phase, held, pv>>
    BY <1>1 DEF envVars, storeVars
  <1>3. BranchOK(c)'
    <2>1. CASE CreateVolumeStep(c)
      <3>1. CreateVolumeMoves(c) /\ h[c].op = "CreateVolume" /\ BranchOK(c)
        BY <2>1, CreateVolumeStepMoves, StepOps DEF BranchInv
      <3>2. h'[c].op = h[c].op /\ h'[c].obj = h[c].obj /\ Holding(c)
        BY <1>1, StepIsMove DEF HandlerMove
      <3>3. ~InvalidSource(claim'[h'[c].obj])
        BY <1>2, <3>1, <3>2 DEF BranchOK, Creating, InvalidSource
      <3>4. \/ h[c].pc \in {"cv_StatCID", "cv_PinCID"}
            \/ h[c].pc \in TreeSteps
            \/ Failed(c)
        BY <3>1 DEF CreateVolumeMoves, TreeSteps, RestoreSteps
      <3>5. volumePath(h[c].obj)' = volumePath(h[c].obj)
        BY <1>2, <3>2, SameClaim
      <3>6. CASE Failed(c)
        BY <3>6 DEF Failed, BranchOK, Creating, Succeeded, TreeSteps, RestoreSteps,
                    Holding, Steps, CreateVolumeSteps, DeleteVolumeSteps,
                    CreateSnapshotSteps, DeleteSnapshotSteps
      <3>7. CASE h[c].pc \in {"cv_StatCID", "cv_PinCID"} /\ ~Failed(c)
        <4>1. claim[h[c].obj].cid # None
          BY <3>1, <3>7 DEF BranchOK
        <4>2. h'[c].pc \notin TreeSteps
          BY <3>1, <3>7 DEF CreateVolumeMoves, TreeSteps, RestoreSteps, Passed
        <4>3. /\ Succeeded(c)' /\ PinFailurePolicy = "strict"
              /\ claim[h[c].obj].pinning
              => h'[c].pinok
          BY <3>1, <3>7 DEF CreateVolumeMoves, Passed, Succeeded
        <4> QED
          BY <1>2, <3>2, <3>3, <4>1, <4>2, <4>3 DEF BranchOK, Creating, Succeeded
      <3>8. CASE h[c].pc \in TreeSteps /\ ~Failed(c)
        <4>1. /\ claim[h[c].obj].cid = None
              /\ h[c].path = volumePath(h[c].obj) /\ h[c].path \in UnderRoot
          BY <3>1, <3>8 DEF BranchOK
        <4>2. /\ h'[c].pc \notin {"cv_StatCID", "cv_PinCID"}
              /\ h'[c].path = h[c].path
          BY <3>1, <3>8 DEF CreateVolumeMoves, TreeSteps, RestoreSteps, Passed
        <4> QED
          BY <1>2, <3>2, <3>3, <3>5, <4>1, <4>2 DEF BranchOK, Creating, Succeeded
      <3> QED
        BY <3>4, <3>6, <3>7, <3>8
    <2>2. CASE ~CreateVolumeStep(c)
      <3>1. h'[c].op # "CreateVolume" /\ HandlerOK(h'[c])
        BY <1>1, <2>2, StepOps DEF HandlerStep, HandlerMove
      <3> QED
        BY <3>1, NoBranch
    <2> QED
      BY <2>1, <2>2
  <1>4. \A d \in Calls : BranchOK(d)'
    BY <1>1, <1>2, <1>3, SameBranch DEF BranchInv
  <1>5. PathsOK' /\ StrictPolicyPins'
    BY <1>2, SameClaim DEF BranchInv, PathsOK, StrictPolicyPins
  <1>6. TreesOK'
    <2> SUFFICES ASSUME NEW p \in Paths, mfs'[p] # None
                 PROVE  Claimed(p) \/ Leads(p)
      BY <1>2, SameClaim DEF TreesOK
    <2>1. CASE mfs'[p] = mfs[p]
      BY <2>1 DEF BranchInv, TreesOK
    <2>2. CASE mfs'[p] # mfs[p]
      <3>1. /\ p = h[c].path \/ h[c].path \in Below[p]
            /\ h[c].pc \in TreeSteps
        BY <2>2, StepWrites
      <3>2. /\ claim[h[c].obj].cid = None /\ h[c].path = volumePath(h[c].obj)
            /\ h[c].path # None /\ h[c].obj \in Names
        BY <3>1, HandlerFacts, PathAssumption, NoneAssumption
        DEF BranchInv, BranchOK, HandlerOK, TreeSteps, CreateVolumeSteps
      <3> QED
        BY <3>1, <3>2 DEF Claimed, Leads
    <2> QED
      BY <2>1, <2>2
  <1> QED
    BY <1>4, <1>5, <1>6 DEF BranchInv

LEMMA BranchStart ==
  ASSUME IndInv, BranchInv,
         \/ \E n \in Names : CallVolume(n)
         \/ \E s \in Snaps : CallSnapshot(s)
  PROVE  BranchInv'
  <1>1. UNCHANGED <<ipfsVars, envVars>>
    BY DEF CallVolume, CallSnapshot, CreateVolume, DeleteVolume, CreateSnapshot,
           DeleteSnapshot
  <1>2. UNCHANGED <<claim, phase, held, pv, mfs>>
    BY <1>1 DEF envVars, storeVars, ipfsVars
  <1>3. ASSUME NEW c \in Calls, NEW op \in Ops, NEW o \in Objects, Started(c, op, o),
               BranchOK(c)'
        PROVE  \A d \in Calls : BranchOK(d)'
    <2>1. \A d \in Calls \ {c} : h'[d] = h[d]
      BY <1>3, HandlerFacts DEF Started
    <2> QED
      BY <1>2, <1>3, <2>1, SameBranch DEF BranchInv
  <1>4. ASSUME NEW c \in Calls, NEW n \in Names, CreateVolume(c, n)
        PROVE  \A d \in Calls : BranchOK(d)'
    <2>1. Started(c, "CreateVolume", n)
      BY <1>4, CreateVolumeStarted
    <2>2. /\ h'[c].obj = n /\ ~Succeeded(c)'
          /\ Creating(c)' => ~InvalidSource(claim[n])
          /\ h'[c].pc \in {"done", "cv_StatCID", "cv_MkdirMFS"}
      BY <1>4, <2>1, CreateVolumeStarted, NotSteps
         DEF Started, Succeeded, Creating, Holding
    <2>3. h'[c].pc = "cv_MkdirMFS"
            => /\ claim[n].cid = None
               /\ h'[c].path = volumePath(n) /\ volumePath(n) \in UnderRoot
      BY <1>4, CreateVolumeStarted, VolumePathUnderRoot
    <2>4. h'[c].pc = "cv_StatCID" => claim[n].cid # None
      BY <1>4, CreateVolumeStarted
    <2>5. BranchOK(c)'
      BY <1>2, <2>2, <2>3, <2>4, SameClaim
         DEF BranchOK, TreeSteps, RestoreSteps, InvalidSource
    <2> QED
      BY <1>3, <2>1, <2>5 DEF Ops, Objects
  <1>5. ASSUME NEW c \in Calls, NEW op \in Ops, NEW o \in Objects,
               Started(c, op, o), op # "CreateVolume", HandlerStart(c)
        PROVE  \A d \in Calls : BranchOK(d)'
    <2>1. BranchOK(c)'
      BY <1>5, NoBranch DEF Started, HandlerStart
    <2> QED
      BY <1>3, <1>5, <2>1
  <1>6. \A d \in Calls : BranchOK(d)'
    <2>1. ASSUME NEW c \in Calls, NEW n \in Names, DeleteVolume(c, n)
          PROVE  \A d \in Calls : BranchOK(d)'
      BY <2>1, <1>5, DeleteVolumeStarted, DeleteVolumeStart DEF Ops, Objects
    <2>2. ASSUME NEW c \in Calls, NEW s \in Snaps, CreateSnapshot(c, s)
          PROVE  \A d \in Calls : BranchOK(d)'
      BY <2>2, <1>5, CreateSnapshotStarted, CreateSnapshotStart DEF Ops, Objects
    <2>3. ASSUME NEW c \in Calls, NEW s \in Snaps, DeleteSnapshot(c, s)
          PROVE  \A d \in Calls : BranchOK(d)'
      BY <2>3, <1>5, DeleteSnapshotStarted, DeleteSnapshotStart DEF Ops, Objects
    <2> QED
      BY <1>4, <2>1, <2>2, <2>3 DEF CallVolume, CallSnapshot
  <1> QED
    BY <1>2, <1>6, SameClaim
       DEF BranchInv, PathsOK, StrictPolicyPins, TreesOK

\* Recording a success: the handler knew where, and whether it pinned.
LEMMA BranchReply ==
  ASSUME IndInv, OwnersInv, BranchInv, NEW c \in Calls, Reply(c)
  PROVE  BranchInv'
  <1>1. /\ HandlerOK(h[c]) /\ h[c].pc = "done" /\ UNCHANGED <<claim, mfs>>
        /\ h'[c] = Idle
        /\ \A d \in Calls \ {c} : h'[d] = h[d]
    BY HandlerFacts DEF Reply, ipfsVars
  <1>2. \A d \in Calls : BranchOK(d)'
    <2>1. Idle.op # "CreateVolume"
      BY ControllerAssumption DEF Idle, Ops
    <2>2. BranchOK(c)'
      BY <1>1, <2>1, IdleOK, NoBranch
    <2> QED
      BY <1>1, <2>2, SameBranch DEF BranchInv
  <1>3. TreesOK'
    BY <1>1, SameClaim DEF BranchInv, TreesOK
  <1>4. CASE ~(h[c].code = "OK" /\ h[c].gone = "no")
    <2>1. UNCHANGED <<phase, held>>
      BY <1>4 DEF Reply
    <2>2. PathsOK' /\ StrictPolicyPins'
      BY <1>1, <2>1, SameClaim DEF BranchInv, PathsOK, StrictPolicyPins
    <2> QED
      BY <1>2, <1>3, <2>2 DEF BranchInv
  <1>5. CASE h[c].code = "OK" /\ h[c].gone = "no"
    <2> DEFINE o == h[c].obj
    <2>1. Recorded(c, o) /\ h[c].op \in Ops /\ o \in Objects
      BY <1>1, <1>5 DEF Reply, HandlerOK, Objects, Ops
    <2>2. phase \in [Objects -> Phases]
      BY DEF IndInv, TypeOK
    <2>3. /\ \A n \in Names : n # o => phase'[n] = phase[n] /\ (n \in held => n \in held')
          /\ phase'[o] \in {"bound", "gone"}
          /\ o \in Names /\ phase'[o] = "bound"
               => h[c].op = "CreateVolume" /\ (h[c].pinok => o \in held')
      BY <1>1, <2>1, <2>2, ObjectAssumption
         DEF Recorded, Created, Objects, HandlerOK
    <2>4. o \in Names /\ phase'[o] = "bound" => Succeeded(c) /\ BranchOK(c)
      BY <1>1, <1>5, <2>3 DEF Succeeded, BranchInv
    <2> HIDE DEF o
    <2>5. PathsOK'
      <3> SUFFICES ASSUME NEW n \in Names, phase'[n] \in {"bound", "released"},
                          claim[n].cid = None
                   PROVE  volumePath(n) \in UnderRoot
        BY <1>1, SameClaim DEF PathsOK
      <3>1. CASE n # o
        BY <2>3, <3>1 DEF BranchInv, PathsOK
      <3>2. CASE n = o
        BY <2>3, <2>4, <3>2 DEF BranchOK, o
      <3> QED
        BY <3>1, <3>2
    <2>6. StrictPolicyPins'
      <3> SUFFICES ASSUME NEW n \in Names, phase'[n] = "bound", claim[n].cid # None,
                          claim[n].pinning, PinFailurePolicy = "strict"
                   PROVE  n \in held'
        BY <1>1 DEF StrictPolicyPins
      <3>1. CASE n # o
        BY <2>3, <3>1 DEF BranchInv, StrictPolicyPins
      <3>2. CASE n = o
        BY <2>3, <2>4, <3>2 DEF BranchOK, o
      <3> QED
        BY <3>1, <3>2
    <2> QED
      BY <1>2, <1>3, <2>5, <2>6 DEF BranchInv
  <1> QED
    BY <1>4, <1>5

\* The driver dies, users, nodes and informers act.
LEMMA BranchOthers ==
  ASSUME IndInv, OwnersInv, BranchInv,
         \/ \E c \in Calls : Abandon(c)
         \/ Crash
         \/ \E o \in Objects : ReleaseObject(o)
         \/ \E n \in Names : NodeImport(n)
         \/ InformerStep
         \/ UNCHANGED vars
  PROVE  BranchInv'
  <1>1. claim' = claim /\ held' = held
    BY DEF Abandon, Crash, ReleaseObject, NodeImport, InformerStep, vars, envVars
  <1>2. /\ \A n \in Names : /\ phase'[n] = "bound" => phase[n] = "bound"
                            /\ phase'[n] = "released"
                                 => phase[n] \in {"bound", "released"}
    <2>1. phase \in [Objects -> Phases]
      BY DEF IndInv, TypeOK
    <2> QED
      BY <2>1 DEF Abandon, Crash, ReleaseObject, NodeImport, InformerStep, vars,
                  envVars, Objects
  <1>3. PathsOK' /\ StrictPolicyPins'
    BY <1>1, <1>2, SameClaim DEF BranchInv, PathsOK, StrictPolicyPins
  <1>4. TreesOK'
    <2>1. ASSUME NEW n \in Names, NodeImport(n)
          PROVE  TreesOK'
      <3>1. phase[n] \in {"bound", "released"} /\ pv[n] = VolumeContext(n)
        BY <2>1 DEF NodeImport, OwnersInv, ContextsOK
      <3>2. claim[n].cid = None /\ pv[n].mfspath = volumePath(n)
        BY <2>1, <3>1, ContextFields DEF NodeImport
      <3>3. pv[n].mfspath \in Paths /\ pv[n].mfspath # None
        BY <3>1, <3>2, PathAssumption, NoneAssumption DEF BranchInv, PathsOK
      <3>4. \A p \in Paths : mfs'[p] # None
              => mfs[p] # None \/ p = volumePath(n) \/ volumePath(n) \in Below[p]
        BY <2>1, <3>2, <3>3 DEF NodeImport, Imported, Made, IndInv, TypeOK, IpfsTypeOK
      <3>5. \A p \in Paths : mfs'[p] # None => Claimed(p) \/ Leads(p)
        BY <3>2, <3>3, <3>4 DEF BranchInv, TreesOK, Claimed, Leads
      <3> QED
        BY <1>1, <3>5, SameClaim DEF TreesOK
    <2>2. CASE ~ \E n \in Names : NodeImport(n)
      <3>1. mfs' = mfs
        BY <2>2 DEF Abandon, Crash, ReleaseObject, InformerStep, vars, ipfsVars
      <3> QED
        BY <1>1, <3>1, SameClaim DEF BranchInv, TreesOK
    <2> QED
      BY <2>1, <2>2
  <1>5. \A d \in Calls : BranchOK(d)'
    <2>1. ASSUME NEW c \in Calls, Abandon(c)
          PROVE  \A d \in Calls : BranchOK(d)'
      <3>1. h[c] \in Handlers /\ h \in [Calls -> Handlers]
        BY HandlerFacts
      <3> DEFINE x == [h[c] EXCEPT !.gone = "now"]
      <3>2. /\ x.pc = h[c].pc /\ x.op = h[c].op /\ x.obj = h[c].obj
            /\ x.path = h[c].path /\ x.pinok = h[c].pinok /\ x.code = h[c].code
        BY <3>1 DEF Handlers
      <3>3. h' = [h EXCEPT ![c] = x]
        BY <2>1 DEF Abandon
      <3> HIDE DEF x
      <3>4. \A d \in Calls :
              /\ h'[d].pc = h[d].pc /\ h'[d].op = h[d].op /\ h'[d].obj = h[d].obj
              /\ h'[d].path = h[d].path /\ h'[d].pinok = h[d].pinok
              /\ h'[d].code = h[d].code
        BY <3>1, <3>2, <3>3
      <3> QED
        BY <1>1, <3>4, SameBranch DEF BranchInv
    <2>2. CASE Crash
      <3>1. Idle.op # "CreateVolume" /\ \A d \in Calls : h'[d] = Idle
        BY <2>2, ControllerAssumption DEF Idle, Ops, Crash
      <3> QED
        BY <3>1, IdleOK, NoBranch
    <2>3. CASE h' = h
      BY <1>1, <2>3, SameBranch DEF BranchInv
    <2> QED
      BY <2>1, <2>2, <2>3 DEF ReleaseObject, NodeImport, InformerStep, vars
  <1> QED
    BY <1>3, <1>4, <1>5 DEF BranchInv

-----------------------------------------------------------------------------
(***************************************************************************)
(* Every step keeps OwnersInv and BranchInv.                               *)
(***************************************************************************)

\* An arriving call finds its object in the phase it needs.
LEMMA OwnersCalls ==
  ASSUME IndInv, OwnersInv,
         \/ \E n \in Names : CallVolume(n)
         \/ \E s \in Snaps : CallSnapshot(s)
  PROVE  OwnersInv'
  <1>1. UNCHANGED envVars
    BY DEF CallVolume, CallSnapshot, CreateVolume, DeleteVolume, CreateSnapshot,
           DeleteSnapshot
  <1>2. ASSUME NEW c \in Calls, NEW n \in Names, CreateVolume(c, n)
        PROVE  OwnersInv'
    <2>1. Started(c, "CreateVolume", n) /\ phase[n] = "wanted"
      BY <1>2, CreateVolumeStarted DEF CreateVolume
    <2>2. h'[c].pc \in Steps => h'[c].key = VolumeKey(sanitizeVolumeID[n])
      BY <1>2, CreateVolumeStarted, NotSteps
    <2> QED
      BY <1>1, <2>1, <2>2, OwnersStart DEF Ops, Objects
  <1>3. ASSUME NEW c \in Calls, NEW n \in Names, DeleteVolume(c, n)
        PROVE  OwnersInv'
    <2>1. Started(c, "DeleteVolume", n) /\ phase[n] = "released"
      BY <1>3, DeleteVolumeStarted DEF DeleteVolume
    <2>2. pv[n].handle = sanitizeVolumeID[n]
      BY <2>1, ContextFields DEF OwnersInv, ContextsOK
    <2>3. h'[c].pc \in Steps => h'[c].key = VolumeKey(sanitizeVolumeID[n])
      BY <1>3, <2>2, DeleteVolumeStarted, NotSteps
    <2> QED
      BY <1>1, <2>1, <2>3, OwnersStart DEF Ops, Objects
  <1>4. ASSUME NEW c \in Calls, NEW s \in Snaps, CreateSnapshot(c, s)
        PROVE  OwnersInv'
    <2>1. Started(c, "CreateSnapshot", s) /\ phase[s] = "wanted"
      BY <1>4, CreateSnapshotStarted DEF CreateSnapshot
    <2> QED
      BY <1>1, <2>1, OwnersStart DEF Ops, Objects
  <1>5. ASSUME NEW c \in Calls, NEW s \in Snaps, DeleteSnapshot(c, s)
        PROVE  OwnersInv'
    <2>1. Started(c, "DeleteSnapshot", s) /\ phase[s] = "released"
      BY <1>5, DeleteSnapshotStarted DEF DeleteSnapshot
    <2> QED
      BY <1>1, <2>1, OwnersStart DEF Ops, Objects
  <1> QED
    BY <1>2, <1>3, <1>4, <1>5 DEF CallVolume, CallSnapshot

VolumeInv == IndInv /\ OwnersInv /\ BranchInv

LEMMA FreshVolumeInv == Fresh => VolumeInv
  <1> SUFFICES ASSUME Fresh PROVE VolumeInv
    OBVIOUS
  <1>1. IndInv
    BY FreshIndInv
  <1>2. /\ \A c \in Calls : h[c] = Idle
        /\ Idle.pc = "idle" /\ Idle.op = None /\ Idle.obj = None
        /\ None \notin Ops /\ None \notin Objects
        /\ \A n \in Names : phase[n] = "wanted"
        /\ \A p \in Paths : mfs[p] = None
    BY ControllerAssumption DEF Fresh, IpfsInit, Idle
  <1>3. KeysOK /\ PhasesOK /\ OneCall
    BY <1>2, NotSteps
       DEF KeysOK, PhasesOK, OneCall, Live, Creating, Succeeded, Holding, Ops
  <1>4. ContextsOK
    <2>1. /\ claim \in ClaimSet
          /\ \A n \in Names : pv[n] = None /\ pvCache[n] = None
          /\ pvEvents = <<>>
      BY DEF Fresh
    <2> QED
      BY <1>2, <2>1 DEF ContextsOK
  <1>5. BranchInv
    <2>1. \A c \in Calls : BranchOK(c)
      BY <1>2, NotSteps
         DEF BranchOK, Creating, Succeeded, Holding, TreeSteps, RestoreSteps
    <2>2. PathsOK /\ StrictPolicyPins /\ TreesOK
      BY <1>2 DEF PathsOK, StrictPolicyPins, TreesOK
    <2> QED
      BY <2>1, <2>2 DEF BranchInv
  <1> QED
    BY <1>1, <1>3, <1>4, <1>5 DEF VolumeInv, OwnersInv

LEMMA InitVolumeInv == Init => VolumeInv
  BY InitFresh, FreshVolumeInv

LEMMA NextVolumeInv == VolumeInv /\ [Next]_vars => VolumeInv'
  <1> SUFFICES ASSUME IndInv, OwnersInv, BranchInv, [Next]_vars
               PROVE  VolumeInv'
    BY DEF VolumeInv
  <1>1. IndInv'
    BY NextIndInv
  <1>2. CASE (\E n \in Names : CallVolume(n)) \/ (\E s \in Snaps : CallSnapshot(s))
    BY <1>1, <1>2, OwnersCalls, BranchStart DEF VolumeInv
  <1>3. CASE \E c \in Calls : HandlerStep(c)
    BY <1>1, <1>3, StepIsMove, OwnersMove, BranchMove DEF VolumeInv
  <1>4. CASE \E c \in Calls : Reply(c)
    BY <1>1, <1>4, OwnersReply, BranchReply DEF VolumeInv
  <1>5. CASE \/ \E c \in Calls : Abandon(c)
             \/ Crash
             \/ \E o \in Objects : ReleaseObject(o)
             \/ \E n \in Names : NodeImport(n)
             \/ InformerStep
             \/ UNCHANGED vars
    BY <1>1, <1>5, OwnersOthers, BranchOthers DEF VolumeInv
  <1> QED
    BY <1>2, <1>3, <1>4, <1>5 DEF Next

LEMMA AlwaysVolumeInv == Spec => []VolumeInv
  BY InitVolumeInv, NextVolumeInv, PTL DEF Spec

(***************************************************************************)
(* The driver creates nothing outside its MFS root but the directories     *)
(* that lead to it, for any spelling of the paths, any nesting, any number *)
(* of volumes and handlers, any failures and crashes (controller.go:       *)
(* 110-137, utils.go:193-209).                                             *)
(***************************************************************************)
THEOREM NothingOutsideRoot == Spec => []UnderRootOnly
  <1>1. VolumeInv => UnderRootOnly
    <2> SUFFICES ASSUME VolumeInv, NEW p \in Paths, mfs[p] # None
                 PROVE  p \in UnderRoot \/ Below[p] \cap UnderRoot # {}
      BY DEF UnderRootOnly
    <2>1. Claimed(p) \/ Leads(p)
      BY DEF VolumeInv, BranchInv, TreesOK
    <2> QED
      BY <2>1, VolumePathUnderRoot, NoneAssumption, PathAssumption
      DEF Claimed, Leads
  <1> QED
    BY <1>1, AlwaysVolumeInv, PTL

(***************************************************************************)
(* Under the strict policy, a volume whose CID is to be pinned is bound    *)
(* only by a CreateVolume whose own pin succeeded, for any interleaving of *)
(* retries, late answers and restarts (controller.go:98-107).              *)
(***************************************************************************)
THEOREM StrictPolicyHolds == Spec => []StrictPolicyPins
  <1>1. VolumeInv => StrictPolicyPins
    BY DEF VolumeInv, BranchInv
  <1> QED
    BY <1>1, AlwaysVolumeInv, PTL

-----------------------------------------------------------------------------
(***************************************************************************)
(* RestoreInv is inductive for distinct volumes, given VolumeInv.          *)
(***************************************************************************)

\* A handler at work on a tree creates a volume that Kubernetes waits for.
LEMMA TreeFacts ==
  ASSUME VolumeInv, NEW c \in Calls, h[c].pc \in TreeSteps
  PROVE  /\ Creating(c) /\ h[c].obj \in Names /\ phase[h[c].obj] = "wanted"
         /\ claim[h[c].obj].cid = None /\ ~InvalidSource(claim[h[c].obj])
         /\ h[c].path = volumePath(h[c].obj) /\ h[c].path \in Paths
         /\ h[c].path # None
  <1>1. HandlerOK(h[c]) /\ BranchOK(c) /\ h[c].path \in UnderRoot
    BY HandlerFacts DEF VolumeInv, BranchInv, BranchOK
  <1>2. h[c].op = "CreateVolume" /\ Holding(c)
    BY <1>1 DEF HandlerOK, TreeSteps, CreateVolumeSteps, Holding, Steps
  <1>3. h[c].path \in Paths /\ h[c].path # None
    BY <1>1, PathAssumption, NoneAssumption
  <1> QED
    BY <1>1, <1>2, <1>3 DEF HandlerOK, Creating, BranchOK, VolumeInv, OwnersInv, PhasesOK

\* So does one that succeeded and whose caller waits for the answer.
LEMMA SucceededFacts ==
  ASSUME VolumeInv, NEW c \in Calls, Succeeded(c), h[c].gone = "no"
  PROVE  /\ h[c].obj \in Names /\ phase[h[c].obj] = "wanted"
         /\ claim[h[c].obj].cid = None
              => /\ h[c].path = volumePath(h[c].obj) /\ h[c].path \in Paths
                 /\ h[c].path # None
  <1>1. HandlerOK(h[c]) /\ BranchOK(c)
    BY HandlerFacts DEF VolumeInv, BranchInv
  <1>2. h[c].obj \in Names /\ phase[h[c].obj] = "wanted"
    BY <1>1 DEF Succeeded, HandlerOK, VolumeInv, OwnersInv, PhasesOK
  <1> QED
    BY <1>1, <1>2, PathAssumption, NoneAssumption DEF BranchOK

\* A path, what is inside it and what is around it belong to one volume, and
\* its lock to one creating handler.
LEMMA OwnTree ==
  ASSUME VolumeInv, DistinctVolumes, NEW m \in Names, NEW n \in Names,
         claim[m].cid = None, claim[n].cid = None,
         ~Apart(volumePath(m), volumePath(n)),
         volumePath(m) # None, volumePath(n) # None
  PROVE  m = n
  BY DEF VolumeInv, OwnersInv, ContextsOK, DistinctVolumes, volumePath

LEMMA OneCreator ==
  ASSUME VolumeInv, NEW c \in Calls, NEW d \in Calls, Creating(c), Creating(d),
         h[c].obj = h[d].obj
  PROVE  c = d
  BY DEF VolumeInv, IndInv, LockDiscipline, OwnersInv, KeysOK, Creating

(***************************************************************************)
(* A handler that writes the tree of a volume works for that volume: it    *)
(* creates it as long as Kubernetes waits for it, or removes it once it is *)
(* released.                                                               *)
(***************************************************************************)
LEMMA TreeWriters ==
  ASSUME VolumeInv, DistinctVolumes, \A c \in Calls : DeletionOK(c),
         NEW c \in Calls, HandlerStep(c), NEW n \in Names, claim[n].cid = None,
         volumePath(n) # None, mfs'[volumePath(n)] # mfs[volumePath(n)]
  PROVE  /\ h[c].obj = n /\ h[c].path = volumePath(n)
         /\ \/ /\ CreateVolumeStep(c) /\ h[c].pc \in TreeSteps
               /\ phase[n] = "wanted"
            \/ /\ DeleteVolumeStep(c) /\ h[c].pc = "dv_RmMFS"
               /\ phase[n] \in {"released", "gone"} /\ mfs'[volumePath(n)] = None
  <1>1. volumePath(n) \in Paths
    BY VolumePathUnderRoot, PathAssumption
  <1>2. /\ h[c].path # None /\ ~Apart(volumePath(n), h[c].path)
        /\ \/ CreateVolumeStep(c) /\ h[c].pc \in TreeSteps
           \/ /\ DeleteVolumeStep(c) /\ h[c].pc = "dv_RmMFS"
              /\ mfs'[volumePath(n)] = None
    BY <1>1, StepWrites DEF VolumeInv
  <1>3. CASE CreateVolumeStep(c) /\ h[c].pc \in TreeSteps
    BY <1>2, <1>3, TreeFacts, OwnTree
  <1>4. CASE /\ DeleteVolumeStep(c) /\ h[c].pc = "dv_RmMFS"
             /\ mfs'[volumePath(n)] = None
    <2>1. HandlerOK(h[c]) /\ h[c].op = "DeleteVolume" /\ h[c].obj \in Names
      BY <1>4, HandlerFacts DEF HandlerOK, DeleteVolumeSteps, VolumeInv
    <2>2. claim[h[c].obj].cid = None /\ h[c].path = volumePath(h[c].obj)
      BY <1>2, <1>4 DEF DeletionOK, DeleteVolumeSteps
    <2>3. phase[h[c].obj] \in {"released", "gone"}
      BY <2>1 DEF VolumeInv, OwnersInv, PhasesOK
    <2>4. n = h[c].obj
      BY <1>2, <2>1, <2>2, OwnTree
    <2> QED
      BY <1>4, <2>2, <2>3, <2>4
  <1> QED
    BY <1>2, <1>3, <1>4

(***************************************************************************)
(* As long as Kubernetes waits for a volume, only the handler creating it  *)
(* touches its tree: not the deletion of another, not a node.              *)
(***************************************************************************)
LEMMA OnlyCreatorWrites ==
  ASSUME VolumeInv, DistinctVolumes, \A c \in Calls : DeletionOK(c), [Next]_vars,
         NEW n \in Names, phase[n] = "wanted", claim[n].cid = None,
         volumePath(n) # None, mfs'[volumePath(n)] # mfs[volumePath(n)]
  PROVE  \E c \in Calls : /\ CreateVolumeStep(c) /\ h[c].pc \in TreeSteps
                          /\ h[c].obj = n
  <1>1. volumePath(n) \in Paths
    BY VolumePathUnderRoot, PathAssumption
  <1>2. ASSUME NEW c \in Calls, HandlerStep(c)
        PROVE  CreateVolumeStep(c) /\ h[c].pc \in TreeSteps /\ h[c].obj = n
    BY <1>2, TreeWriters
  <1>3. ASSUME NEW m \in Names, NodeImport(m)
        PROVE  FALSE
    <2>1. phase[m] \in {"bound", "released"} /\ pv[m] = VolumeContext(m)
      BY <1>3 DEF NodeImport, VolumeInv, OwnersInv, ContextsOK
    <2>2. claim[m].cid = None /\ pv[m].mfspath = volumePath(m)
      BY <1>3, <2>1, ContextFields DEF NodeImport
    <2>3. mfs \in [Paths -> CIDs \cup {None}]
      BY DEF VolumeInv, IndInv, TypeOK, IpfsTypeOK
    <2>4. ~Apart(volumePath(n), volumePath(m))
      BY <1>1, <1>3, <2>2, <2>3 DEF NodeImport, Imported, Made, Apart
    <2>5. volumePath(m) # None
      BY <2>1, <2>2, PathAssumption, NoneAssumption
      DEF VolumeInv, BranchInv, PathsOK
    <2> QED
      BY <2>1, <2>2, <2>4, <2>5, OwnTree
  <1>4. \/ \E c \in Calls : HandlerStep(c)
        \/ \E m \in Names : NodeImport(m)
    BY DEF Next, vars, ipfsVars, CallVolume, CallSnapshot, CreateVolume, DeleteVolume,
           CreateSnapshot, DeleteSnapshot, Reply, Abandon, Crash, ReleaseObject,
           InformerStep
  <1> QED
    BY <1>2, <1>3, <1>4

\* No claim changes and no object is wanted again; a snapshot keeps its CID.
LEMMA SnapshotsKept ==
  ASSUME VolumeInv, [Next]_vars
  PROVE  /\ claim' = claim
         /\ \A o \in Objects : phase[o] # "wanted" => phase'[o] # "wanted"
         /\ \A s \in Snaps : phase[s] # "wanted" /\ Exists(s)'
              => Exists(s) /\ vsc'[s] = vsc[s]
  <1> USE DEF Exists
  <1>1. phase \in [Objects -> Phases] /\ vsc \in [Snaps -> CIDs \cup {None}]
    BY DEF VolumeInv, IndInv, TypeOK, StoresTypeOK, VSCs
  <1>2. CASE UNCHANGED <<claim, phase, vsc>>
    BY <1>2
  <1>3. ASSUME NEW c \in Calls, Reply(c), h[c].code = "OK", h[c].gone = "no"
        PROVE  /\ claim' = claim
               /\ \A o \in Objects : phase[o] # "wanted" => phase'[o] # "wanted"
               /\ \A s \in Snaps : phase[s] # "wanted" /\ Exists(s)'
                    => Exists(s) /\ vsc'[s] = vsc[s]
    <2> DEFINE x == h[c].obj
    <2>1. /\ HandlerOK(h[c]) /\ h[c].op \in Ops /\ x \in Objects /\ Recorded(c, x)
          /\ claim' = claim
      BY <1>3, HandlerFacts DEF Reply, HandlerOK, Objects, Ops, VolumeInv
    <2>2. h[c].op \in {"CreateVolume", "CreateSnapshot"} => phase[x] = "wanted"
      BY <1>3 DEF VolumeInv, OwnersInv, PhasesOK
    <2>3. /\ x \in Snaps => h[c].op \in {"CreateSnapshot", "DeleteSnapshot"}
          /\ x \notin Snaps => h[c].op \in {"CreateVolume", "DeleteVolume"}
      BY <2>1, ObjectAssumption DEF HandlerOK, Ops
    <2> HIDE DEF x
    <2>4. /\ phase' = [phase EXCEPT ![x] = phase'[x]]
          /\ phase'[x] \in {"bound", "gone"}
          /\ phase'[x] = "bound" => phase[x] = "wanted"
      BY <1>1, <2>1, <2>2 DEF Recorded
    <2>5. \A s \in Snaps : s # x => vsc'[s] = vsc[s]
      BY <1>1, <2>1, <2>3 DEF Recorded, WritePV, WriteVSC
    <2> QED
      BY <1>1, <2>1, <2>4, <2>5 DEF Objects
  <1>4. ASSUME NEW o \in Objects, ReleaseObject(o)
        PROVE  /\ claim' = claim
               /\ \A x \in Objects : phase[x] # "wanted" => phase'[x] # "wanted"
               /\ \A s \in Snaps : phase[s] # "wanted" /\ Exists(s)'
                    => Exists(s) /\ vsc'[s] = vsc[s]
    BY <1>1, <1>4 DEF ReleaseObject, storeVars, Objects
  <1>5. \/ UNCHANGED <<claim, phase, vsc>>
        \/ \E c \in Calls : Reply(c) /\ h[c].code = "OK" /\ h[c].gone = "no"
        \/ \E o \in Objects : ReleaseObject(o)
    <2>1. ASSUME NEW c \in Calls, HandlerStep(c)
          PROVE  UNCHANGED <<claim, phase, vsc>>
      BY <2>1, StepIsMove DEF envVars, storeVars, VolumeInv
    <2>2. CASE UNCHANGED envVars
      BY <2>2 DEF envVars, storeVars
    <2>3. CASE \E c \in Calls : Reply(c)
      BY <2>3 DEF Reply, storeVars
    <2>4. CASE InformerStep \/ Crash \/ (\E n \in Names : NodeImport(n)) \/ UNCHANGED vars
      BY <2>4 DEF InformerStep, ApplyPVEvent, ApplyVSCEvent, Crash, StartInformers,
                  NodeImport, vars, storeVars
    <2> QED
      BY <2>1, <2>2, <2>3, <2>4
         DEF Next, CallVolume, CallSnapshot, CreateVolume, DeleteVolume,
             CreateSnapshot, DeleteSnapshot, Abandon
  <1> QED
    BY <1>2, <1>3, <1>4, <1>5

\* A tree is left alone by everyone but the handler at work on it.
LEMMA TreesLeftAlone ==
  ASSUME VolumeInv, DistinctVolumes, RestoreInv, [Next]_vars, NEW d \in Calls,
         \/ h[d].pc \in TreeSteps /\ ~CreateVolumeStep(d)
         \/ Succeeded(d) /\ h[d].gone = "no" /\ claim[h[d].obj].cid = None
  PROVE  mfs'[h[d].path] = mfs[h[d].path]
  <1> SUFFICES ASSUME mfs'[h[d].path] # mfs[h[d].path] PROVE FALSE
    OBVIOUS
  <1>1. /\ h[d].obj \in Names /\ phase[h[d].obj] = "wanted"
        /\ claim[h[d].obj].cid = None
        /\ h[d].path = volumePath(h[d].obj) /\ h[d].path # None
    BY TreeFacts, SucceededFacts
  <1>2. \A c \in Calls : DeletionOK(c)
    BY DEF RestoreInv
  <1>3. PICK c \in Calls : /\ CreateVolumeStep(c) /\ h[c].pc \in TreeSteps
                           /\ h[c].obj = h[d].obj
    BY <1>1, <1>2, OnlyCreatorWrites
  <1>4. Creating(c)
    BY <1>3, TreeFacts
  <1>5. CASE h[d].pc \in TreeSteps /\ ~CreateVolumeStep(d)
    BY <1>3, <1>4, <1>5, TreeFacts, OneCreator
  <1>6. CASE Succeeded(d) /\ h[d].gone = "no"
    BY <1>3, <1>4, <1>6 DEF VolumeInv, OwnersInv, OneCall
  <1> QED
    BY <1>5, <1>6

RestoreOK(c) == DeletionOK(c) /\ SourceOK(c) /\ TreeOK(c)

\* A handler that does not move, whether or not its caller still waits.
LEMMA RestoreUnmoved ==
  ASSUME VolumeInv, DistinctVolumes, RestoreInv, [Next]_vars, NEW d \in Calls,
         h'[d].pc = h[d].pc, h'[d].op = h[d].op, h'[d].obj = h[d].obj,
         h'[d].path = h[d].path, h'[d].cid = h[d].cid, h'[d].todo = h[d].todo,
         h'[d].code = h[d].code, h'[d].gone = "no" => h[d].gone = "no",
         ~CreateVolumeStep(d)
  PROVE  RestoreOK(d)'
  <1>1. DeletionOK(d) /\ SourceOK(d) /\ TreeOK(d)
    BY DEF RestoreInv
  <1>2. claim' = claim /\ Source(h[d].obj)' = Source(h[d].obj)
    BY SnapshotsKept DEF Source
  <1>3. DeletionOK(d)'
    BY <1>1, <1>2, SameClaim DEF DeletionOK
  <1>4. SourceOK(d)'
    BY <1>1, <1>2, SnapshotsKept DEF SourceOK, Objects, Source
  <1>5. TreeOK(d)'
    <2>1. CASE h[d].pc \in TreeSteps
      <3>1. mfs'[h[d].path] = mfs[h[d].path] /\ ~Succeeded(d)'
        BY <2>1, TreesLeftAlone DEF Succeeded, TreeSteps, RestoreSteps
      <3> QED
        BY <1>1, <1>2, <3>1 DEF TreeOK, Source
    <2>2. CASE h[d].pc \notin TreeSteps
      <3> SUFFICES ASSUME Succeeded(d), h[d].gone = "no", Source(h[d].obj) \in Snaps
                   PROVE  claim[h[d].obj].cid = None /\ mfs'[h[d].path] = h[d].cid
        BY <1>2, <2>2 DEF TreeOK, Succeeded, TreeSteps, RestoreSteps
      <3>1. claim[h[d].obj].cid = None /\ mfs[h[d].path] = h[d].cid
        BY <1>1 DEF TreeOK
      <3> QED
        BY <3>1, TreesLeftAlone
    <2> QED
      BY <2>1, <2>2
  <1> QED
    BY <1>3, <1>4, <1>5 DEF RestoreOK

\* A handler of another operation has no tree to speak of.
LEMMA NoRestore ==
  ASSUME NEW d, HandlerOK(h'[d])
  PROVE  /\ h'[d].op # "CreateVolume" => SourceOK(d)' /\ TreeOK(d)'
         /\ h'[d].op # "DeleteVolume" => DeletionOK(d)'
  BY DEF SourceOK, TreeOK, DeletionOK, Succeeded, HandlerOK, TreeSteps,
         RestoreSteps, CreateVolumeSteps

(***************************************************************************)
(* The step of a restore: what is at the path stays within the snapshot,   *)
(* and what is missing stays among the files to copy.                      *)
(***************************************************************************)
LEMMA RestoreStep ==
  ASSUME VolumeInv, RestoreInv, [Next]_vars, NEW c \in Calls, CreateVolumeStep(c)
  PROVE  /\ RestoreOK(c)'
         /\ h[c].pc \in TreeSteps /\ Source(h[c].obj) \in Snaps
              => mfs'[h[c].path] = None \/ mfs'[h[c].path] \subseteq h[c].cid
  <1> DEFINE n == h[c].obj
             p == h[c].path
             cid == h[c].cid
  <1>1. /\ CreateVolumeMoves(c) /\ HandlerOK(h'[c]) /\ HandlerOK(h[c])
        /\ h[c].op = "CreateVolume" /\ h'[c].op = "CreateVolume" /\ h'[c].obj = n
        /\ UNCHANGED envVars /\ BranchOK(c) /\ SourceOK(c) /\ TreeOK(c)
        /\ mfs \in [Paths -> CIDs \cup {None}] /\ Creating(c)
    BY CreateVolumeStepMoves, StepOps, StepIsMove, HandlerFacts
       DEF HandlerStep, HandlerMove, VolumeInv, BranchInv, RestoreInv, IpfsTypeOK,
           Creating
  <1>2. /\ UNCHANGED <<claim, phase, vsc>> /\ h'[c].path = p /\ h'[c].cid = cid
        /\ Source(n)' = Source(n)
    BY <1>1 DEF envVars, storeVars, CreateVolumeMoves, Source
  <1>3. DeletionOK(c)'
    BY <1>1, NoRestore
  <1>4. ~InvalidSource(claim[n])
    BY <1>1 DEF BranchOK
  <1>5. CASE h[c].pc \notin TreeSteps
    <2>1. h[c].pc \in {"cv_StatCID", "cv_PinCID"} \/ Failed(c)
      BY <1>1, <1>5 DEF CreateVolumeMoves, TreeSteps, RestoreSteps
    <2>2. h'[c].pc \notin TreeSteps
      BY <1>1, <1>5, <2>1 DEF CreateVolumeMoves, TreeSteps, RestoreSteps, Failed, Passed
    <2>3. Succeeded(c)' => claim[n].cid # None
      BY <1>1, <2>1 DEF BranchOK, Succeeded, Failed
    <2>4. Succeeded(c)' => Source(n) \notin Snaps
      BY <1>4, <2>3 DEF InvalidSource, Source
    <2> QED
      BY <1>1, <1>2, <1>3, <1>5, <2>2, <2>4
         DEF RestoreOK, SourceOK, TreeOK, TreeSteps, RestoreSteps
  <1>6. CASE h[c].pc \in TreeSteps
    <2>1. /\ p \in Paths /\ claim[n].cid = None
      BY <1>6, TreeFacts
    <2>2. SourceOK(c)'
      BY <1>1, <1>2, <1>6 DEF SourceOK, Exists
    <2>3. Source(n) \in Snaps => cid \in CIDs /\ cid # None
      BY <1>1, <1>6, NoneAssumption DEF SourceOK
    <2>4. Source(n) \in Snaps
            => mfs[p] = None \/ mfs[p] \subseteq cid
      BY <1>1, <1>6 DEF TreeOK
    <2>5. h[c].pc = "rs_cpMFS"
            => mfs[p] # None /\ h[c].todo \subseteq cid /\ cid \ h[c].todo \subseteq mfs[p]
      BY <1>1 DEF TreeOK
    <2>6. h[c].pc \in {"rs_RmMFS", "rs_MkdirMFS"} => h[c].todo = cid
      BY <1>1 DEF TreeOK
    <2> HIDE DEF p, cid, n
    <2>7. Source(n) \in Snaps
            => mfs'[p] = None \/ mfs'[p] \subseteq cid
      <3> SUFFICES ASSUME Source(n) \in Snaps PROVE mfs'[p] = None \/ mfs'[p] \subseteq cid
        OBVIOUS
      <3>1. CASE mfs' = mfs
        BY <2>4, <3>1
      <3>2. CASE \E o : MkdirMFS(p, o)
        BY <1>1, <2>1, <2>4, <3>2 DEF MkdirMFS, Made, EmptyDir
      <3>3. CASE \E o : RmMFS(p, o)
        BY <1>1, <2>1, <2>4, <3>3 DEF RmMFS, Removed
      <3>4. CASE /\ h[c].pc = "rs_cpMFS"
                 /\ \E f \in h[c].todo : \E o : ~cpRefused(f, p) /\ cpMFS(f, p, o)
        BY <1>1, <2>1, <2>4, <2>5, <3>4 DEF cpMFS, cpRefused
      <3> QED
        BY <1>1, <3>1, <3>2, <3>3, <3>4 DEF CreateVolumeMoves, p
    <2>8. h'[c].pc \in {"rs_RmMFS", "rs_MkdirMFS"} => h'[c].todo = cid
      BY <1>1, <2>6 DEF CreateVolumeMoves, Failed, Passed, cid
    <2>9. ASSUME h'[c].pc = "rs_cpMFS"
          PROVE  /\ mfs'[p] # None /\ h'[c].todo \subseteq cid
                 /\ cid \ h'[c].todo \subseteq mfs'[p]
      <3>1. CASE /\ h[c].pc = "rs_MkdirMFS" /\ MkdirMFS(p, "ok")
                 /\ h'[c].todo = h[c].todo
        <4>1. EmptyDir # None
          BY NoneAssumption, CIDsAreDirs DEF EmptyDir
        <4> QED
          BY <1>1, <2>1, <2>6, <3>1, <4>1 DEF MkdirMFS, Made
      <3>2. CASE /\ h[c].pc = "rs_cpMFS"
                 /\ \E f \in h[c].todo : /\ h'[c].todo = h[c].todo \ {f}
                                         /\ ~cpRefused(f, p)
                                         /\ cpMFS(f, p, "ok")
        <4>1. PICK f \in h[c].todo : /\ h'[c].todo = h[c].todo \ {f}
                                     /\ ~cpRefused(f, p)
                                     /\ cpMFS(f, p, "ok")
          BY <3>2
        <4>2. /\ mfs'[p] = mfs[p] \cup {f} /\ mfs[p] \in CIDs
              /\ f \in cid /\ h[c].todo \subseteq cid
              /\ cid \ h[c].todo \subseteq mfs[p]
          BY <1>1, <2>1, <2>5, <3>2, <4>1 DEF cpMFS, cpRefused
        <4>3. mfs'[p] # None
          <5>1. f \in h[c].todo /\ h[c].todo \subseteq Files
            BY <1>1, <4>1 DEF HandlerOK, Handlers
          <5>2. mfs'[p] \in CIDs
            BY <4>2, <5>1, CIDsAreDirs
          <5> QED
            BY <5>2, NoneAssumption
        <4> QED
          BY <4>1, <4>2, <4>3
      <3> QED
        BY <1>1, <2>9, <3>1, <3>2 DEF CreateVolumeMoves, Failed, Passed, p
    <2>10. ASSUME Succeeded(c)', Source(n) \in Snaps
           PROVE  mfs'[p] = cid
      <3>1. \/ h[c].pc = "cv_MkdirMFS" /\ cid = None
            \/ h[c].pc = "rs_cpMFS" /\ mfs' = mfs /\ h[c].todo = {}
        BY <1>1, <1>6, <2>10
           DEF CreateVolumeMoves, Succeeded, Failed, Passed, cid, TreeSteps, RestoreSteps
      <3>2. h[c].pc = "rs_cpMFS" /\ mfs' = mfs /\ h[c].todo = {}
        BY <2>3, <2>10, <3>1
      <3> QED
        BY <2>4, <2>5, <2>10, <3>2
    <2>11. TreeOK(c)'
      BY <1>1, <1>2, <2>1, <2>7, <2>8, <2>9, <2>10 DEF TreeOK, n, p, cid
    <2> QED
      BY <1>3, <2>2, <2>7, <2>11 DEF RestoreOK, n, p, cid
  <1> QED
    BY <1>5, <1>6

\* DeleteVolume finds its own volume in the cache, or none.
LEMMA DeletionStep ==
  ASSUME VolumeInv, DistinctVolumes, RestoreInv, NEW c \in Calls, DeleteVolumeStep(c)
  PROVE  DeletionOK(c)'
  <1> DEFINE n == h[c].obj
  <1>1. /\ DeleteVolumeMoves(c) /\ HandlerOK(h[c]) /\ h[c].op = "DeleteVolume"
        /\ h'[c].obj = n /\ UNCHANGED envVars /\ DeletionOK(c)
        /\ h[c].pc \in DeleteVolumeSteps /\ Holding(c)
    BY DeleteVolumeStepMoves, StepOps, StepIsMove, HandlerFacts
       DEF HandlerStep, HandlerMove, VolumeInv, RestoreInv
  <1>2. /\ claim' = claim /\ n \in Names
        /\ h[c].key = VolumeKey(sanitizeVolumeID[n])
    BY <1>1 DEF envVars, HandlerOK, VolumeInv, OwnersInv, KeysOK
  <1> HIDE DEF n
  <1>3. CASE h'[c].path = h[c].path
    BY <1>1, <1>2, <1>3, SameClaim DEF DeletionOK, n
  <1>4. ASSUME NEW a \in GetVolumeAttributes(h[c].key[2]),
               h'[c].path = IF a.mfspath # None /\ ~a.readonly
                            THEN Clean[a.mfspath] ELSE None
        PROVE  DeletionOK(c)'
    <2>1. PICK m \in Names : /\ pvCache[m] # None /\ a = pvCache[m]
                             /\ pvCache[m].handle = h[c].key[2]
      BY <1>4 DEF GetVolumeAttributes
    <2>2. a = VolumeContext(m)
      BY <2>1 DEF VolumeInv, OwnersInv, ContextsOK
    <2>3. h[c].key[2] = sanitizeVolumeID[n]
      BY <1>2 DEF VolumeKey
    <2>4. m = n
      BY <1>2, <2>1, <2>2, <2>3, ContextFields DEF DistinctVolumes, DistinctIDs
    <2>5. h'[c].path # None
            => claim[n].cid = None /\ a.mfspath = volumePath(n) /\ a.mfspath # None
               /\ h'[c].path = Clean[a.mfspath]
      BY <1>4, <2>2, <2>4, ContextFields
    <2>6. h'[c].path # None => h'[c].path = volumePath(n)
      BY <1>2, <2>5, VolumePathUnderRoot, PathAssumption
    <2> QED
      BY <1>1, <1>2, <2>5, <2>6, SameClaim DEF DeletionOK
  <1> QED
    BY <1>1, <1>3, <1>4 DEF DeleteVolumeMoves

\* A new restore takes over what earlier attempts left of the same snapshot.
LEMMA RestoreStart ==
  ASSUME VolumeInv, RestoreInv, NEW c \in Calls, NEW n \in Names, CreateVolume(c, n)
  PROVE  RestoreOK(c)'
  <1>1. /\ HandlerOK(h'[c]) /\ h'[c].op = "CreateVolume" /\ h'[c].obj = n
        /\ ~Succeeded(c)'
        /\ h'[c].pc \in {"done", "cv_StatCID", "cv_MkdirMFS"}
    BY CreateVolumeStarted, CreateVolumeStart, NotSteps
       DEF Started, HandlerStart, Succeeded, VolumeInv
  <1>2. UNCHANGED <<claim, phase, vsc, mfs>> /\ phase[n] = "wanted"
    BY DEF CreateVolume, envVars, storeVars, ipfsVars
  <1>3. Source(n)' = Source(n)
    BY <1>2 DEF Source
  <1>4. DeletionOK(c)'
    BY <1>1, NoRestore
  <1>5. CASE h'[c].pc # "cv_MkdirMFS"
    BY <1>1, <1>4, <1>5 DEF RestoreOK, SourceOK, TreeOK, TreeSteps, RestoreSteps
  <1>6. CASE h'[c].pc = "cv_MkdirMFS"
    <2>1. /\ claim[n].cid = None /\ volumePath(n) # None
          /\ h'[c].path = volumePath(n) /\ ~InvalidSource(claim[n])
          /\ h'[c].cid = IF Source(n) = None THEN None ELSE vsc[Source(n)]
      BY <1>6, CreateVolumeStarted DEF Source, VolumeInv
    <2>2. Source(n) \in Snaps \cup {None}
      BY <2>1 DEF InvalidSource, Source, VolumeInv, IndInv, TypeOK, Claims
    <2>3. Source(n) \in Snaps => Exists(Source(n)) /\ vsc[Source(n)] \in CIDs
      BY DEF CreateVolume, Source, Exists, VolumeInv, IndInv, ObjectsOK
    <2>4. None \notin Snaps
      BY ControllerAssumption DEF Objects
    <2>5. SourceOK(c)'
      BY <1>1, <1>2, <1>3, <2>1, <2>2, <2>3, <2>4 DEF SourceOK, Exists
    <2>6. Source(n) \in Snaps
            => mfs[volumePath(n)] = None \/ mfs[volumePath(n)] \subseteq h'[c].cid
      BY <1>2, <2>1, <2>3, <2>4 DEF RestoreInv, LeftoversOK
    <2>7. TreeOK(c)'
      BY <1>1, <1>2, <1>3, <1>6, <2>1, <2>6 DEF TreeOK
    <2> QED
      BY <1>4, <2>5, <2>7 DEF RestoreOK
  <1> QED
    BY <1>5, <1>6

\* What a volume's earlier attempts left is still part of its snapshot.
LEMMA LeftoversKept ==
  ASSUME VolumeInv, DistinctVolumes, RestoreInv, [Next]_vars
  PROVE  LeftoversOK'
  <1> SUFFICES ASSUME NEW n \in Names, phase'[n] = "wanted", claim[n].cid = None,
                      Source(n) \in Snaps, volumePath(n) # None,
                      mfs'[volumePath(n)] # None
               PROVE  /\ phase'[Source(n)] # "wanted"
                      /\ Exists(Source(n))' => mfs'[volumePath(n)] \subseteq vsc'[Source(n)]
    BY SnapshotsKept, SameClaim DEF LeftoversOK, Source, Exists
  <1> DEFINE s == Source(n)
             p == volumePath(n)
  <1>1. phase[n] = "wanted" /\ claim' = claim /\ s \in Snaps
    BY SnapshotsKept DEF Objects
  <1>2. Source(n)' = s
    BY <1>1 DEF Source
  <1>3. phase[s] # "wanted" => phase'[s] # "wanted"
    BY <1>1, SnapshotsKept DEF Objects
  <1>4. phase[s] # "wanted" /\ Exists(s)' => Exists(s) /\ vsc'[s] = vsc[s]
    BY <1>1, <1>2, SnapshotsKept DEF Exists
  <1>5. CASE mfs'[p] = mfs[p]
    <2>1. phase[s] # "wanted" /\ (Exists(s) => mfs[p] \subseteq vsc[s])
      BY <1>1, <1>5 DEF RestoreInv, LeftoversOK
    <2> QED
      BY <1>2, <1>3, <1>4, <1>5, <2>1
  <1>6. CASE mfs'[p] # mfs[p]
    <2>1. \A c \in Calls : DeletionOK(c)
      BY DEF RestoreInv
    <2>2. PICK c \in Calls : /\ CreateVolumeStep(c) /\ h[c].pc \in TreeSteps
                             /\ h[c].obj = n
      BY <1>1, <1>6, <2>1, OnlyCreatorWrites
    <2>3. h[c].path = p
      BY <2>2, TreeFacts
    <2>4. mfs'[p] \subseteq h[c].cid
      BY <1>1, <2>2, <2>3, RestoreStep
    <2>5. phase[s] # "wanted" /\ (Exists(s) => h[c].cid = vsc[s])
      BY <1>1, <2>2 DEF RestoreInv, SourceOK
    <2> QED
      BY <1>2, <1>3, <1>4, <2>4, <2>5
  <1> QED
    BY <1>5, <1>6

LEMMA FreshRestoreInv == Fresh => RestoreInv
  <1> SUFFICES ASSUME Fresh PROVE RestoreInv
    OBVIOUS
  <1>1. /\ \A c \in Calls : h[c] = Idle
        /\ Idle.pc = "idle"
        /\ \A p \in Paths : mfs[p] = None
    BY DEF Fresh, IpfsInit, Idle
  <1>2. \A c \in Calls : DeletionOK(c) /\ SourceOK(c) /\ TreeOK(c)
    BY <1>1 DEF DeletionOK, SourceOK, TreeOK, Succeeded, TreeSteps, RestoreSteps,
                DeleteVolumeSteps
  <1>3. LeftoversOK
    BY <1>1, VolumePathUnderRoot, PathAssumption DEF LeftoversOK
  <1> QED
    BY <1>2, <1>3 DEF RestoreInv

LEMMA InitRestoreInv == Init => RestoreInv
  BY InitFresh, FreshRestoreInv

LEMMA NextRestoreInv ==
  ASSUME VolumeInv, DistinctVolumes, RestoreInv, [Next]_vars
  PROVE  RestoreInv'
  <1>1. IndInv
    BY DEF VolumeInv
  <1>2. ASSUME NEW d \in Calls, h'[d] = h[d], ~CreateVolumeStep(d)
        PROVE  RestoreOK(d)'
    BY <1>2, RestoreUnmoved
  <1>3. ASSUME NEW d \in Calls, h'[d] = Idle
        PROVE  RestoreOK(d)'
    <2>1. Idle.op \notin Ops
      BY ControllerAssumption DEF Idle
    <2> QED
      BY <1>3, <2>1, IdleOK, NoRestore DEF RestoreOK, Ops
  <1>4. \A d \in Calls : CreateVolumeStep(d) => RestoreOK(d)'
    BY RestoreStep
  <1>5. ASSUME NEW c \in Calls, HandlerStep(c)
        PROVE  \A d \in Calls : RestoreOK(d)'
    <2>1. \A d \in Calls \ {c} : h'[d] = h[d]
      BY <1>1, <1>5, StepIsMove
    <2>2. RestoreOK(c)'
      <3>1. HandlerOK(h'[c]) /\ h'[c].op = h[c].op
        BY <1>1, <1>5, StepIsMove DEF HandlerMove
      <3>2. CASE DeleteVolumeStep(c)
        BY <1>1, <3>1, <3>2, StepOps, NoRestore, DeletionStep DEF RestoreOK
      <3>3. CASE CreateSnapshotStep(c) \/ DeleteSnapshotStep(c)
        BY <1>1, <3>1, <3>3, StepOps, NoRestore DEF RestoreOK
      <3> QED
        BY <1>4, <1>5, <3>2, <3>3 DEF HandlerStep
    <2> QED
      BY <1>2, <1>4, <2>1, <2>2
  <1>6. ASSUME NEW c \in Calls, h[c].pc = "idle", h' = [h EXCEPT ![c] = h'[c]],
               RestoreOK(c)'
        PROVE  \A d \in Calls : RestoreOK(d)'
    BY <1>1, <1>2, <1>4, <1>6, HandlerFacts
  <1>7. ASSUME NEW c \in Calls, NEW op \in Ops, NEW o \in Objects, Started(c, op, o),
               HandlerStart(c), op # "CreateVolume",
               op = "DeleteVolume" => h'[c].pc \in {"done", "dv_GetVolumeAttributes"},
               h'[c].pc = "dv_GetVolumeAttributes" => h'[c].path = None
        PROVE  \A d \in Calls : RestoreOK(d)'
    <2>1. RestoreOK(c)'
      <3>1. SourceOK(c)' /\ TreeOK(c)'
        BY <1>7, NoRestore DEF HandlerStart, Started
      <3>2. DeletionOK(c)'
        BY <1>7, NoRestore DEF HandlerStart, Started, DeletionOK, DeleteVolumeSteps
      <3> QED
        BY <3>1, <3>2 DEF RestoreOK
    <2> QED
      BY <1>6, <1>7, <2>1 DEF HandlerStart
  <1>8. ASSUME NEW c \in Calls, NEW n \in Names, CreateVolume(c, n)
        PROVE  \A d \in Calls : RestoreOK(d)'
    BY <1>1, <1>6, <1>8, RestoreStart, CreateVolumeStarted DEF Started
  <1>9. ASSUME NEW c \in Calls, NEW n \in Names, DeleteVolume(c, n)
        PROVE  \A d \in Calls : RestoreOK(d)'
    BY <1>1, <1>7, <1>9, DeleteVolumeStarted, DeleteVolumeStart DEF Ops, Objects
  <1>10. ASSUME NEW c \in Calls, NEW s \in Snaps, CreateSnapshot(c, s)
         PROVE  \A d \in Calls : RestoreOK(d)'
    BY <1>1, <1>7, <1>10, CreateSnapshotStarted, CreateSnapshotStart DEF Ops, Objects
  <1>11. ASSUME NEW c \in Calls, NEW s \in Snaps, DeleteSnapshot(c, s)
         PROVE  \A d \in Calls : RestoreOK(d)'
    BY <1>1, <1>7, <1>11, DeleteSnapshotStarted, DeleteSnapshotStart DEF Ops, Objects
  <1>12. ASSUME NEW c \in Calls, Reply(c)
         PROVE  \A d \in Calls : RestoreOK(d)'
    <2>1. h'[c] = Idle /\ \A d \in Calls \ {c} : h'[d] = h[d]
      BY <1>1, <1>12, HandlerFacts DEF Reply
    <2> QED
      BY <1>2, <1>3, <1>4, <2>1
  <1>13. ASSUME NEW c \in Calls, Abandon(c)
         PROVE  \A d \in Calls : RestoreOK(d)'
    <2>1. h[c] \in Handlers /\ h \in [Calls -> Handlers]
      BY <1>1, HandlerFacts
    <2> DEFINE x == [h[c] EXCEPT !.gone = "now"]
    <2>2. /\ x.pc = h[c].pc /\ x.op = h[c].op /\ x.obj = h[c].obj
          /\ x.path = h[c].path /\ x.cid = h[c].cid /\ x.todo = h[c].todo
          /\ x.code = h[c].code /\ x.gone = "now"
      BY <2>1 DEF Handlers
    <2>3. h' = [h EXCEPT ![c] = x]
      BY <1>13 DEF Abandon
    <2> HIDE DEF x
    <2>4. \A d \in Calls :
            /\ h'[d].pc = h[d].pc /\ h'[d].op = h[d].op /\ h'[d].obj = h[d].obj
            /\ h'[d].path = h[d].path /\ h'[d].cid = h[d].cid
            /\ h'[d].todo = h[d].todo /\ h'[d].code = h[d].code
            /\ h'[d].gone = "no" => h[d].gone = "no"
      BY <2>1, <2>2, <2>3
    <2> QED
      BY <1>4, <2>4, RestoreUnmoved
  <1>14. ASSUME Crash
         PROVE  \A d \in Calls : RestoreOK(d)'
    BY <1>3, <1>14 DEF Crash
  <1>15. ASSUME h' = h
         PROVE  \A d \in Calls : RestoreOK(d)'
    BY <1>2, <1>4, <1>15
  <1>16. \A d \in Calls : RestoreOK(d)'
    BY <1>5, <1>8, <1>9, <1>10, <1>11, <1>12, <1>13, <1>14, <1>15
       DEF Next, vars, CallVolume, CallSnapshot, ReleaseObject, NodeImport, InformerStep
  <1> QED
    BY <1>16, LeftoversKept DEF RestoreInv, RestoreOK

LEMMA AlwaysRestoreInv ==
  ASSUME DistinctVolumes
  PROVE  Spec => [](VolumeInv /\ RestoreInv)
  <1>1. Init => VolumeInv /\ RestoreInv
    BY InitVolumeInv, InitRestoreInv
  <1>2. VolumeInv /\ RestoreInv /\ [Next]_vars => (VolumeInv /\ RestoreInv)'
    BY NextVolumeInv, NextRestoreInv
  <1> QED
    BY <1>1, <1>2, PTL DEF Spec

(***************************************************************************)
(* No handler ever reaches for the tree of a bound volume, nor for what is *)
(* around or inside it, which a recursive rm would take along: neither the *)
(* restore of a call given up on, which the lock keeps from overlapping a  *)
(* retry that succeeds, nor the deletion of another volume, which the      *)
(* cache may be late for.  Volumes are apart: none has the path of another *)
(* or one inside it, which utils.go:204 accepts and this theorem cannot    *)
(* do without (controller.go:193-260, utils.go:109-178, client.go:365-387).*)
(***************************************************************************)
THEOREM BoundVolumesUntouched ==
  ASSUME DistinctVolumes
  PROVE  Spec => []NoClobber
  <1>1. VolumeInv /\ RestoreInv => NoClobber
    <2> SUFFICES ASSUME VolumeInv, RestoreInv, NEW c \in Calls, NEW n \in Names,
                        h[c].pc \in {"rs_RmMFS", "rs_MkdirMFS", "rs_cpMFS", "dv_RmMFS"},
                        h[c].path # None, phase[n] = "bound", ~pv[n].readonly,
                        ~Apart(h[c].path, pv[n].mfspath)
                 PROVE  FALSE
      BY DEF NoClobber
    <2>1. pv[n] = VolumeContext(n)
      BY DEF VolumeInv, OwnersInv, ContextsOK
    <2>2. claim[n].cid = None /\ pv[n].mfspath = volumePath(n)
      BY <2>1, ContextFields
    <2>5. volumePath(n) # None
      BY <2>2, PathAssumption, NoneAssumption DEF VolumeInv, BranchInv, PathsOK
    <2>3. CASE h[c].pc \in TreeSteps
      BY <2>2, <2>3, <2>5, TreeFacts, OwnTree
    <2>4. CASE h[c].pc = "dv_RmMFS"
      <3>1. h[c].op = "DeleteVolume" /\ h[c].obj \in Names
        BY <2>4, HandlerFacts DEF HandlerOK, DeleteVolumeSteps, VolumeInv
      <3>2. claim[h[c].obj].cid = None /\ h[c].path = volumePath(h[c].obj)
        BY <2>4 DEF RestoreInv, DeletionOK, DeleteVolumeSteps
      <3>3. phase[h[c].obj] # "bound"
        BY <3>1 DEF VolumeInv, OwnersInv, PhasesOK
      <3> QED
        BY <2>2, <2>5, <3>1, <3>2, <3>3, OwnTree
    <2> QED
      BY <2>3, <2>4 DEF TreeSteps, RestoreSteps
  <1> QED
    BY <1>1, AlwaysRestoreInv, PTL

(***************************************************************************)
(* A CreateVolume that answers OK for a snapshot source has left exactly   *)
(* the snapshot at the volume's path, whatever failed attempts, late calls *)
(* and restarts went before (controller.go:193-233, client.go:477-577).    *)
(***************************************************************************)
THEOREM RestoresAreExact ==
  ASSUME DistinctVolumes
  PROVE  Spec => []RestoreExact
  <1>1. RestoreInv => RestoreExact
    BY DEF RestoreInv, RestoreExact, TreeOK, Succeeded, Source
  <1> QED
    BY <1>1, AlwaysRestoreInv, PTL

-----------------------------------------------------------------------------
(***************************************************************************)
(* The controller beside someone else who writes a volume's tree: the      *)
(* nodes, which Next only has as a step of their own (NodeImport).  These  *)
(* lemmas are about the controller's steps alone, ControllerNext, and      *)
(* about a write that is none of its steps.                                *)
(***************************************************************************)
ControllerNext ==
  \/ \E n \in Names : CallVolume(n)
  \/ \E s \in Snaps : CallSnapshot(s)
  \/ \E c \in Calls : HandlerStep(c) \/ Reply(c) \/ Abandon(c)
  \/ \E o \in Objects : ReleaseObject(o)
  \/ InformerStep
  \/ Crash

LEMMA ControllerSteps == ControllerNext => Next
  BY DEF ControllerNext, Next

\* Only handlers write trees.
LEMMA OthersDoNotWrite ==
  ASSUME ControllerNext, ~\E c \in Calls : HandlerStep(c)
  PROVE  mfs' = mfs
  BY DEF ControllerNext, CallVolume, CallSnapshot, CreateVolume, DeleteVolume,
         CreateSnapshot, DeleteSnapshot, Reply, Abandon, Crash, ReleaseObject,
         InformerStep, ipfsVars

\* The controller leaves the tree of a bound volume alone.
LEMMA BoundTreesKept ==
  ASSUME VolumeInv, RestoreInv, DistinctVolumes, ControllerNext,
         NEW n \in Names, claim[n].cid = None, volumePath(n) # None,
         phase[n] = "bound"
  PROVE  mfs'[volumePath(n)] = mfs[volumePath(n)]
  BY TreeWriters, OthersDoNotWrite DEF RestoreInv

(***************************************************************************)
(* A tree of volume n changed by someone else keeps everything said so     *)
(* far, once Kubernetes no longer waits for n.                             *)
(***************************************************************************)
WritesAt(q) ==
  \A p \in Paths : mfs'[p] # mfs[p]
    => ~Apart(p, q) /\ (mfs'[p] # None => p = q \/ q \in Below[p])

LEMMA ForeignWrite ==
  ASSUME VolumeInv, RestoreInv, DistinctVolumes,
         NEW n \in Names, claim[n].cid = None, volumePath(n) \in UnderRoot,
         UNCHANGED <<locks, pinned, storeVars, h, claim, phase, held>>,
         IpfsTypeOK', faults' \in 0..MaxFaults, writes' \in 0..MaxWrites,
         WritesAt(volumePath(n)),
         phase[n] # "wanted" \/ mfs' = mfs
  PROVE  VolumeInv' /\ RestoreInv'
  <1>1. IndInv'
    BY DEF VolumeInv, IndInv, TypeOK, StoresTypeOK, storeVars, ObjectsOK,
           LockDiscipline, Holding
  <1>2. /\ \A m : VolumeContext(m)' = VolumeContext(m)
        /\ \A m : volumePath(m)' = volumePath(m)
    BY SameClaim
  <1>3. OwnersInv'
    BY <1>2 DEF VolumeInv, OwnersInv, KeysOK, PhasesOK, OneCall, ContextsOK, Live,
                Creating, Succeeded, Holding, storeVars
  <1>4. BranchInv'
    <2>1. \A c \in Calls : BranchOK(c)'
      BY SameBranch DEF VolumeInv, BranchInv
    <2>2. PathsOK' /\ StrictPolicyPins'
      BY <1>2 DEF VolumeInv, BranchInv, PathsOK, StrictPolicyPins
    <2>3. TreesOK'
      <3>1. volumePath(n) # None
        BY PathAssumption, NoneAssumption
      <3>2. \A p \in Paths : mfs'[p] # None
              => mfs[p] # None \/ p = volumePath(n) \/ volumePath(n) \in Below[p]
        BY DEF WritesAt
      <3>3. \A p \in Paths : mfs'[p] # None => Claimed(p) \/ Leads(p)
        BY <3>1, <3>2 DEF VolumeInv, BranchInv, TreesOK, Claimed, Leads
      <3> QED
        BY <3>3, SameClaim DEF TreesOK
    <2> QED
      BY <2>1, <2>2, <2>3 DEF BranchInv
  <1>5. ASSUME NEW m \in Names, claim[m].cid = None, phase[m] = "wanted",
               volumePath(m) # None
        PROVE  mfs'[volumePath(m)] = mfs[volumePath(m)]
    <2>1. volumePath(m) \in Paths
      BY <1>5, VolumePathUnderRoot, PathAssumption
    <2>2. phase[n] # "wanted" => Apart(volumePath(m), volumePath(n))
      BY <1>5, OwnTree, PathAssumption, NoneAssumption
    <2> QED
      BY <2>1, <2>2 DEF WritesAt
  <1>6. ASSUME NEW c \in Calls
        PROVE  DeletionOK(c)' /\ SourceOK(c)' /\ TreeOK(c)'
    <2>1. DeletionOK(c) /\ SourceOK(c) /\ TreeOK(c)
      BY DEF RestoreInv
    <2>2. DeletionOK(c)' /\ SourceOK(c)'
      BY <1>2, <2>1 DEF DeletionOK, SourceOK, Source, Exists, storeVars
    <2>3. h[c].pc \in TreeSteps => mfs'[h[c].path] = mfs[h[c].path]
      BY <1>5, TreeFacts
    <2>4. /\ Succeeded(c) /\ h[c].gone = "no" /\ claim[h[c].obj].cid = None
          => mfs'[h[c].path] = mfs[h[c].path]
      BY <1>5, SucceededFacts
    <2>5. TreeOK(c)'
      BY <2>1, <2>3, <2>4 DEF TreeOK, Source, Succeeded, TreeSteps, RestoreSteps
    <2> QED
      BY <2>2, <2>5
  <1>7. LeftoversOK'
    BY <1>2, <1>5 DEF RestoreInv, LeftoversOK, Source, Exists, storeVars
  <1> QED
    BY <1>1, <1>3, <1>4, <1>6, <1>7 DEF VolumeInv, RestoreInv

(***************************************************************************)
(* What a step of the controller may mean for a handler: nothing, but that *)
(* its caller gave up; a step of its own; its end; or its call.            *)
(***************************************************************************)
Stands(c) ==
  /\ h'[c].pc = h[c].pc /\ h'[c].op = h[c].op /\ h'[c].obj = h[c].obj
  /\ h'[c].path = h[c].path /\ h'[c].cid = h[c].cid /\ h'[c].code = h[c].code
  /\ h'[c].gone = "no" => h[c].gone = "no"

Called(c) ==
  \/ \E n \in Names : CreateVolume(c, n) \/ DeleteVolume(c, n)
  \/ \E s \in Snaps : CreateSnapshot(c, s) \/ DeleteSnapshot(c, s)

LEMMA HandlerChanges ==
  ASSUME IndInv, ControllerNext, NEW c \in Calls
  PROVE  Stands(c) \/ HandlerStep(c) \/ h'[c] = Idle \/ Called(c)
  <1>0. h \in [Calls -> Handlers]
    BY HandlerFacts
  <1>1. ASSUME h'[c] = h[c] PROVE Stands(c)
    BY <1>1 DEF Stands
  <1>2. ASSUME NEW e \in Calls, HandlerStep(e) PROVE HandlerStep(c) \/ Stands(c)
    BY <1>1, <1>2, StepIsMove
  <1>3. ASSUME NEW e \in Calls, NEW op, NEW o, Started(e, op, o)
        PROVE  e = c \/ Stands(c)
    BY <1>0, <1>1, <1>3 DEF Started
  <1>4. ASSUME NEW n \in Names, CallVolume(n) PROVE Called(c) \/ Stands(c)
    BY <1>3, <1>4, CreateVolumeStarted, DeleteVolumeStarted DEF CallVolume, Called
  <1>5. ASSUME NEW s \in Snaps, CallSnapshot(s) PROVE Called(c) \/ Stands(c)
    BY <1>3, <1>5, CreateSnapshotStarted, DeleteSnapshotStarted
       DEF CallSnapshot, Called
  <1>6. ASSUME NEW e \in Calls, Reply(e) PROVE h'[c] = Idle \/ Stands(c)
    BY <1>0, <1>1, <1>6 DEF Reply
  <1>7. ASSUME NEW e \in Calls, Abandon(e) PROVE Stands(c)
    <2> DEFINE x == [h[e] EXCEPT !.gone = "now"]
    <2>1. /\ x.pc = h[e].pc /\ x.op = h[e].op /\ x.obj = h[e].obj
          /\ x.path = h[e].path /\ x.cid = h[e].cid /\ x.code = h[e].code
          /\ x.gone = "now"
      BY <1>0 DEF Handlers
    <2>2. h' = [h EXCEPT ![e] = x]
      BY <1>7 DEF Abandon
    <2> HIDE DEF x
    <2> QED
      BY <1>0, <2>1, <2>2 DEF Stands
  <1>8. CASE Crash
    BY <1>8 DEF Crash
  <1>9. CASE h' = h
    BY <1>1, <1>9
  <1> QED
    BY <1>2, <1>4, <1>5, <1>6, <1>7, <1>8, <1>9
       DEF ControllerNext, ReleaseObject, InformerStep

(***************************************************************************)
(* A volume that Kubernetes waits for is to hold d: nothing, or what the   *)
(* snapshot it is restored from holds.  The call that is answered OK, and  *)
(* only it, binds the volume, and has left exactly d.                      *)
(***************************************************************************)
Brings(c, n, d) ==
  h[c].obj = n =>
    /\ h[c].pc \in TreeSteps /\ Source(n) \in Snaps => h[c].cid = d
    /\ Succeeded(c) /\ h[c].gone = "no" => mfs[volumePath(n)] = d

Awaited(n, d) ==
  phase[n] = "wanted" =>
    /\ Source(n) = None => d = EmptyDir /\ mfs[volumePath(n)] \in {None, EmptyDir}
    /\ Source(n) \in Snaps
         => /\ phase[Source(n)] # "wanted"
            /\ Exists(Source(n)) => vsc[Source(n)] = d
    /\ \A c \in Calls : Brings(c, n, d)

\* A handler that neither creates nor has created brings nothing.
LEMMA BringsNothing ==
  ASSUME NEW c \in Calls, NEW n, NEW d, HandlerOK(h'[c]), h'[c].op # "CreateVolume"
  PROVE  Brings(c, n, d)'
  BY DEF Brings, Succeeded, HandlerOK, TreeSteps, CreateVolumeSteps

\* Nor does one that stands still bring anything else.
LEMMA BringsTheSame ==
  ASSUME VolumeInv, DistinctVolumes, RestoreInv, [Next]_vars, claim' = claim,
         NEW c \in Calls, NEW n \in Names, NEW d, claim[n].cid = None,
         Brings(c, n, d), ~CreateVolumeStep(c),
         h'[c].pc = h[c].pc, h'[c].op = h[c].op, h'[c].obj = h[c].obj,
         h'[c].cid = h[c].cid, h'[c].code = h[c].code,
         h'[c].gone = "no" => h[c].gone = "no"
  PROVE  Brings(c, n, d)'
  <1>1. volumePath(n)' = volumePath(n)
    BY SameClaim
  <1>2. Succeeded(c) /\ h[c].gone = "no" /\ h[c].obj = n
          => mfs'[volumePath(n)] = mfs[volumePath(n)]
    BY TreesLeftAlone, SucceededFacts
  <1> QED
    BY <1>1, <1>2 DEF Brings, Succeeded, Source

\* The step that succeeds leaves what was to be brought.
LEMMA BringsIt ==
  ASSUME VolumeInv, DistinctVolumes, RestoreInv, [Next]_vars,
         NEW c \in Calls, NEW n \in Names, NEW d, claim[n].cid = None,
         volumePath(n) # None, phase[n] = "wanted", Awaited(n, d),
         CreateVolumeStep(c), claim' = claim
  PROVE  Brings(c, n, d)'
  <1> SUFFICES ASSUME h'[c].obj = n PROVE Brings(c, n, d)'
    BY DEF Brings
  <1>0. /\ volumePath(n)' = volumePath(n)
        /\ mfs \in [Paths -> CIDs \cup {None}] /\ IndInv
    BY SameClaim DEF VolumeInv, IndInv, TypeOK, IpfsTypeOK
  <1>1. /\ HandlerMove(c) /\ h[c].obj = n /\ h[c].op = "CreateVolume"
        /\ CreateVolumeMoves(c)
    BY <1>0, CreateVolumeStepMoves, StepIsMove, StepOps DEF HandlerMove, HandlerStep
  <1>2. h[c].pc \notin {"cv_StatCID", "cv_PinCID"}
    BY <1>1 DEF VolumeInv, BranchInv, BranchOK
  <1>3. h[c].pc \in TreeSteps /\ h'[c].cid = h[c].cid
    BY <1>1, <1>2
       DEF CreateVolumeMoves, TreeSteps, RestoreSteps, CreateVolumeStep, cv_StatCID,
           cv_PinCID, cv_MkdirMFS, rs_StatCID, rs_GetCIDContent, rs_RmMFS,
           rs_MkdirMFS, rs_cpMFS
  <1>4. Source(n) \in Snaps => h'[c].cid = d
    BY <1>1, <1>3 DEF Awaited, Brings
  <1>5. ASSUME Succeeded(c)', h'[c].gone = "no"
        PROVE  mfs'[volumePath(n)] = d
    <2>1. /\ h[c].path = volumePath(n) /\ h[c].path \in Paths
          /\ SourceOK(c) /\ HandlerOK(h[c])
      BY <1>0, <1>1, <1>3, TreeFacts, HandlerFacts DEF RestoreInv
    <2>2. CASE Source(n) \in Snaps
      <3>1. RestoreInv' /\ VolumeInv'
        BY NextRestoreInv, NextVolumeInv
      <3>2. TreeOK(c)' /\ h'[c].path = h[c].path
        BY <1>1, <3>1 DEF RestoreInv, CreateVolumeMoves
      <3> QED
        BY <1>0, <1>4, <1>5, <2>1, <2>2, <3>2 DEF TreeOK, Source
    <2>3. CASE Source(n) \notin Snaps
      <3>1. Source(n) = None /\ h[c].cid = None
        BY <1>1, <1>3, <2>1, <2>3 DEF SourceOK
      <3>2. h[c].pc = "cv_MkdirMFS"
        BY <1>3, <2>1, <3>1, NoneAssumption DEF HandlerOK, TreeSteps
      <3>3. MkdirMFS(h[c].path, "ok")
        BY <1>1, <1>5, <3>2 DEF CreateVolumeMoves, Failed, Succeeded
      <3>4. d = EmptyDir /\ mfs[volumePath(n)] \in {None, EmptyDir}
        BY <3>1 DEF Awaited
      <3> QED
        BY <1>0, <2>1, <3>3, <3>4, NoneAssumption DEF MkdirMFS, Made
    <2> QED
      BY <2>2, <2>3
  <1> QED
    BY <1>0, <1>4, <1>5 DEF Brings, Source

LEMMA AwaitedKept ==
  ASSUME VolumeInv, DistinctVolumes, RestoreInv, ControllerNext,
         NEW n \in Names, NEW d, claim[n].cid = None, volumePath(n) # None,
         Awaited(n, d)
  PROVE  Awaited(n, d)'
  <1>1. [Next]_vars /\ IndInv
    BY ControllerSteps DEF VolumeInv
  <1>2. /\ claim' = claim
        /\ \A o \in Objects : phase[o] # "wanted" => phase'[o] # "wanted"
        /\ \A s \in Snaps : phase[s] # "wanted" /\ Exists(s)'
             => Exists(s) /\ vsc'[s] = vsc[s]
    BY <1>1, SnapshotsKept
  <1> SUFFICES ASSUME phase'[n] = "wanted" PROVE Awaited(n, d)'
    BY DEF Awaited
  <1>3. /\ phase[n] = "wanted" /\ volumePath(n)' = volumePath(n)
        /\ volumePath(n) \in Paths /\ Snaps \subseteq Objects
    BY <1>2, SameClaim, VolumePathUnderRoot, PathAssumption DEF Objects
  <1>4. Source(n) = None => mfs'[volumePath(n)] \in {None, EmptyDir}
    <2> SUFFICES ASSUME Source(n) = None, mfs'[volumePath(n)] # mfs[volumePath(n)]
                 PROVE  mfs'[volumePath(n)] \in {None, EmptyDir}
      BY <1>3 DEF Awaited
    <2>1. PICK c \in Calls : /\ CreateVolumeStep(c) /\ h[c].pc \in TreeSteps
                             /\ h[c].obj = n
      BY <1>1, <1>3, OnlyCreatorWrites DEF RestoreInv
    <2>2. /\ h[c].path = volumePath(n) /\ HandlerOK(h[c]) /\ h[c].cid = None
          /\ CreateVolumeMoves(c) /\ mfs \in [Paths -> CIDs \cup {None}]
      BY <1>1, <2>1, TreeFacts, HandlerFacts, CreateVolumeStepMoves
         DEF RestoreInv, SourceOK, IndInv, TypeOK, IpfsTypeOK
    <2>3. h[c].pc = "cv_MkdirMFS"
      BY <2>1, <2>2, NoneAssumption DEF HandlerOK, TreeSteps
    <2>4. mfs' # mfs => \E o : MkdirMFS(h[c].path, o)
      BY <2>2, <2>3 DEF CreateVolumeMoves
    <2> QED
      BY <1>3, <2>2, <2>4 DEF MkdirMFS, Made
  <1>5. ASSUME NEW c \in Calls, ~CreateVolumeStep(c),
               h'[c].pc = h[c].pc, h'[c].op = h[c].op, h'[c].obj = h[c].obj,
               h'[c].cid = h[c].cid, h'[c].code = h[c].code,
               h'[c].gone = "no" => h[c].gone = "no"
        PROVE  Brings(c, n, d)'
    BY <1>1, <1>2, <1>3, <1>5, BringsTheSame DEF Awaited
  <1>6. ASSUME NEW c \in Calls, CreateVolumeStep(c)
        PROVE  Brings(c, n, d)'
    BY <1>1, <1>2, <1>3, <1>6, BringsIt
  <1>7. ASSUME NEW c \in Calls, h'[c] = Idle
        PROVE  Brings(c, n, d)'
    <2>1. Idle.op # "CreateVolume"
      BY ControllerAssumption DEF Idle, Ops
    <2> QED
      BY <1>7, <2>1, IdleOK, BringsNothing
  <1>8. ASSUME NEW c \in Calls, HandlerStep(c)
        PROVE  Brings(c, n, d)'
    <2>1. CASE ~CreateVolumeStep(c)
      <3>1. HandlerOK(h'[c]) /\ h'[c].op # "CreateVolume"
        BY <1>1, <1>8, <2>1, StepIsMove, StepOps DEF HandlerMove, HandlerStep
      <3> QED
        BY <3>1, BringsNothing
    <2> QED
      BY <1>6, <2>1
  <1>9. ASSUME NEW c \in Calls, NEW m \in Names, CreateVolume(c, m)
        PROVE  Brings(c, n, d)'
    <2>1. /\ Started(c, "CreateVolume", m) /\ HandlerStart(c)
          /\ h'[c].pc \in TreeSteps => h'[c].pc = "cv_MkdirMFS"
      BY <1>1, <1>9, CreateVolumeStarted, CreateVolumeStart
         DEF TreeSteps, RestoreSteps
    <2>2. h'[c].obj = m /\ ~Succeeded(c)'
      BY <2>1, NotSteps DEF Started, Succeeded
    <2>3. m = n /\ h'[c].pc \in TreeSteps /\ Source(n) \in Snaps => h'[c].cid = d
      <3> SUFFICES ASSUME m = n, h'[c].pc \in TreeSteps, Source(n) \in Snaps
                   PROVE  h'[c].cid = d
        OBVIOUS
      <3>1. Source(n) # None
        BY ControllerAssumption DEF Objects
      <3>2. h'[c].cid = vsc[Source(n)]
        BY <1>1, <1>9, <2>1, <3>1, CreateVolumeStarted DEF Source
      <3>3. phase[Source(n)] = "bound"
        BY <1>9 DEF CreateVolume, Source
      <3> QED
        BY <1>3, <3>2, <3>3 DEF Awaited, Exists
    <2> QED
      BY <1>2, <2>2, <2>3 DEF Brings, Source
  <1>10. ASSUME NEW c \in Calls, NEW o \in Objects,
                \/ o \in Names /\ DeleteVolume(c, o)
                \/ o \in Snaps /\ (CreateSnapshot(c, o) \/ DeleteSnapshot(c, o))
         PROVE  Brings(c, n, d)'
    BY <1>1, <1>10, DeleteVolumeStarted, DeleteVolumeStart, CreateSnapshotStarted,
       CreateSnapshotStart, DeleteSnapshotStarted, DeleteSnapshotStart, BringsNothing
       DEF Started, HandlerStart
  <1>11. \A c \in Calls : Brings(c, n, d)'
    BY <1>1, <1>5, <1>6, <1>7, <1>8, <1>9, <1>10, HandlerChanges
       DEF Stands, Called, Objects
  <1> QED
    BY <1>2, <1>3, <1>4, <1>11 DEF Awaited, Source

(***************************************************************************)
(* CreateSnapshot: it resolves the path of its source volume, and records  *)
(* what it found there.                                                    *)
(***************************************************************************)
Taking(c) == h[c].op = "CreateSnapshot" /\ h[c].gone = "no"

Took(c) ==
  /\ h[c].op = "CreateSnapshot"
  /\ h[c].pc = "cs_PinCID" \/ (h[c].pc = "done" /\ h[c].code = "OK")

TakenFrom(c) ==
  h[c].pc = "cs_ResolveMFSCID" /\ claim[SourceOf[h[c].obj]].cid = None
    => h[c].path = volumePath(SourceOf[h[c].obj])

CreateSnapshotMoves(c) ==
  \/ Failed(c)
  \/ /\ h[c].pc = "cs_GetVolumeAttributes" /\ h'[c].pc = "cs_ResolveMFSCID"
     /\ \E a \in GetVolumeAttributes(sanitizeVolumeID[SourceOf[h[c].obj]]) :
          a.mfspath # None /\ h'[c].path = Clean[a.mfspath]
  \/ /\ h[c].pc = "cs_ResolveMFSCID" /\ h'[c].pc = "cs_PinCID"
     /\ h'[c].cid = mfs[h[c].path]
  \/ /\ h[c].pc = "cs_PinCID" /\ h'[c].pc = "done"
     /\ h'[c].cid = h[c].cid

LEMMA CreateSnapshotStepMoves ==
  ASSUME IndInv, NEW c \in Calls, CreateSnapshotStep(c)
  PROVE  CreateSnapshotMoves(c)
  <1> USE DEF CreateSnapshotMoves, Failed, Codes
  <1>1. /\ h[c] \in Handlers /\ h \in [Calls -> Handlers] /\ HandlerOK(h[c])
        /\ mfs \in [Paths -> CIDs \cup {None}]
    BY HandlerFacts DEF IndInv, TypeOK, IpfsTypeOK
  <1>2. "cs_ResolveMFSCID" \in Steps /\ "cs_PinCID" \in Steps
    BY DEF Steps, CreateSnapshotSteps
  <1>3. CASE cs_GetVolumeAttributes(c)
    <2>1. CASE \E code \in {"NotFound", "InvalidArgument"} : Finish(c, code, h[c])
      BY <2>1, SameFields
    <2>2. ASSUME NEW a \in GetVolumeAttributes(sanitizeVolumeID[SourceOf[h[c].obj]]),
                 a.mfspath # None,
                 Goto(c, "cs_ResolveMFSCID", [h[c] EXCEPT !.path = Clean[a.mfspath]])
          PROVE  CreateSnapshotMoves(c)
      <3> DEFINE path == Clean[a.mfspath]
                 r == [h[c] EXCEPT !.path = path]
      <3>1. a \in VolumeAttributes
        BY HandlerFacts, AttributesType
      <3>2. path \in Paths
        BY <2>2, <3>1, PathAssumption DEF VolumeAttributes
      <3>3. Goto(c, "cs_ResolveMFSCID", r)
        BY <2>2
      <3> HIDE DEF path
      <3>4. r \in Handlers /\ r.path = path
        BY <1>1, <3>2 DEF Handlers
      <3> HIDE DEF r
      <3>5. h'[c].pc = "cs_ResolveMFSCID" /\ h'[c].path = path
        BY <1>1, <1>2, <3>3, <3>4, GotoFields
      <3> QED
        BY <1>3, <2>2, <3>5 DEF path, cs_GetVolumeAttributes
    <2> QED
      BY <1>3, <2>1, <2>2 DEF cs_GetVolumeAttributes
  <1>4. CASE cs_ResolveMFSCID(c)
    <2>1. CASE Finish(c, "Internal", h[c])
      BY <2>1, SameFields
    <2>2. CASE /\ mfs[h[c].path] # None
               /\ Goto(c, "cs_PinCID", [h[c] EXCEPT !.cid = mfs[h[c].path]])
      <3> DEFINE cid == mfs[h[c].path]
                 r == [h[c] EXCEPT !.cid = cid]
      <3>1. h[c].path \in Paths /\ cid \in CIDs
        BY <1>1, <1>4, <2>2 DEF HandlerOK, cs_ResolveMFSCID
      <3>2. Goto(c, "cs_PinCID", r)
        BY <2>2
      <3> HIDE DEF cid
      <3>3. r \in Handlers /\ r.cid = cid
        BY <1>1, <3>1 DEF Handlers
      <3> HIDE DEF r
      <3>4. h'[c].pc = "cs_PinCID" /\ h'[c].cid = cid
        BY <1>1, <1>2, <3>2, <3>3, GotoFields
      <3> QED
        BY <1>4, <3>4 DEF cid, cs_ResolveMFSCID
    <2> QED
      BY <1>4, <2>1, <2>2 DEF cs_ResolveMFSCID, ResolveMFSCID
  <1>5. CASE cs_PinCID(c)
    <2>1. PICK b \in BOOLEAN : Finish(c, "OK", [h[c] EXCEPT !.pinok = b])
      BY <1>5 DEF cs_PinCID
    <2> DEFINE r == [h[c] EXCEPT !.pinok = b]
    <2>2. r \in Handlers /\ r.cid = h[c].cid
      BY <1>1 DEF Handlers
    <2>3. Finish(c, "OK", r)
      BY <2>1
    <2> HIDE DEF r
    <2>4. h'[c].pc = "done" /\ h'[c].cid = h[c].cid
      BY <1>1, <2>2, <2>3, FinishFields
    <2> QED
      BY <1>5, <2>4 DEF cs_PinCID
  <1> QED
    BY <1>3, <1>4, <1>5 DEF CreateSnapshotStep

\* A call that is answered for a snapshot began as one, and not finished.
LEMMA TakingBegins ==
  ASSUME IndInv, ControllerNext, NEW c \in Calls, Taking(c)'
  PROVE  \/ Taking(c) /\ h'[c].obj = h[c].obj
         \/ \E s \in Snaps : CreateSnapshot(c, s) /\ h'[c].obj = s /\ ~Took(c)'
  <1>1. CASE Stands(c)
    BY <1>1 DEF Taking, Stands
  <1>2. CASE HandlerStep(c)
    BY <1>2, StepIsMove DEF Taking, HandlerMove, nextCall
  <1>3. CASE h'[c] = Idle
    BY <1>3, ControllerAssumption DEF Taking, Idle, Ops
  <1>4. CASE Called(c)
    <2>1. PICK s \in Snaps : CreateSnapshot(c, s)
      BY <1>4, CreateVolumeStarted, DeleteVolumeStarted, DeleteSnapshotStarted
         DEF Called, Started, Taking
    <2>2. Started(c, "CreateSnapshot", s) /\ h'[c].pc \in {"done", "cs_GetVolumeAttributes"}
      BY <2>1, CreateSnapshotStarted
    <2> QED
      BY <2>1, <2>2, NotSteps DEF Started, Took
  <1> QED
    BY <1>1, <1>2, <1>3, <1>4, HandlerChanges

\* What a snapshot holds was found at the path, or long before.
LEMMA TookWhat ==
  ASSUME IndInv, ControllerNext, NEW c \in Calls, Taking(c)', Took(c)'
  PROVE  /\ Taking(c) /\ h'[c].obj = h[c].obj
         /\ \/ Took(c) /\ h'[c].cid = h[c].cid
            \/ h[c].pc = "cs_ResolveMFSCID" /\ h'[c].cid = mfs[h[c].path]
  <1>1. Taking(c) /\ h'[c].obj = h[c].obj
    BY TakingBegins
  <1>2. CASE Stands(c)
    BY <1>1, <1>2 DEF Stands, Took
  <1>3. CASE HandlerStep(c)
    <2>1. CreateSnapshotStep(c)
      BY <1>1, <1>3, StepOps DEF HandlerStep, Taking
    <2> QED
      BY <1>1, <2>1, CreateSnapshotStepMoves DEF CreateSnapshotMoves, Failed, Took, Taking
  <1>4. CASE h'[c] = Idle
    BY <1>4 DEF Took, Idle
  <1>5. CASE Called(c)
    <2>1. PICK s \in Snaps : CreateSnapshot(c, s)
      BY <1>5, CreateVolumeStarted, DeleteVolumeStarted, DeleteSnapshotStarted
         DEF Called, Started, Taking
    <2>2. Started(c, "CreateSnapshot", s) /\ h'[c].pc \in {"done", "cs_GetVolumeAttributes"}
      BY <2>1, CreateSnapshotStarted
    <2> QED
      BY <2>2, NotSteps DEF Started, Took
  <1> QED
    BY <1>2, <1>3, <1>4, <1>5, HandlerChanges

LEMMA TakenFromKept ==
  ASSUME VolumeInv, DistinctIDs, ControllerNext, NEW c \in Calls, TakenFrom(c)
  PROVE  TakenFrom(c)'
  <1>1. IndInv /\ IndInv' /\ claim' = claim /\ [Next]_vars
    BY ControllerSteps, NextVolumeInv, SnapshotsKept DEF VolumeInv
  <1> SUFFICES ASSUME h'[c].pc = "cs_ResolveMFSCID",
                      claim[SourceOf[h'[c].obj]].cid = None
               PROVE  h'[c].path = volumePath(SourceOf[h'[c].obj])
    BY <1>1 DEF TakenFrom, volumePath
  <1>3. CASE Stands(c)
    BY <1>1, <1>3 DEF Stands, TakenFrom
  <1>4. CASE HandlerStep(c)
    <2>1. HandlerOK(h'[c]) /\ h'[c].op = h[c].op /\ h'[c].obj = h[c].obj
      BY <1>1, <1>4, StepIsMove DEF HandlerMove
    <2>2. h[c].op = "CreateSnapshot" /\ h[c].obj \in Snaps
      BY <2>1 DEF HandlerOK, CreateSnapshotSteps
    <2>3. CreateSnapshotStep(c)
      BY <1>1, <1>4, <2>2, StepOps DEF HandlerStep
    <2> DEFINE n == SourceOf[h[c].obj]
    <2>4. n \in Names
      BY <2>2, ControllerAssumption
    <2>5. PICK a \in GetVolumeAttributes(sanitizeVolumeID[n]) :
            a.mfspath # None /\ h'[c].path = Clean[a.mfspath]
      BY <1>1, <2>3, CreateSnapshotStepMoves DEF CreateSnapshotMoves, Failed
    <2> HIDE DEF n
    <2>6. PICK m \in Names : /\ pvCache[m] # None /\ a = pvCache[m]
                             /\ a.handle = sanitizeVolumeID[n]
      BY <2>5 DEF GetVolumeAttributes
    <2>7. a = VolumeContext(m) /\ m = n
      BY <2>4, <2>6 DEF VolumeInv, OwnersInv, ContextsOK, VolumeContext, DistinctIDs
    <2>8. claim[n].cid = None
      BY <1>1, <2>1 DEF n
    <2>9. a.mfspath = volumePath(n)
      BY <2>7, <2>8 DEF VolumeContext
    <2>10. volumePath(n) \in Paths
      BY <2>4, <2>5, <2>9, VolumePathUnderRoot, PathAssumption
    <2>11. Clean[volumePath(n)] = volumePath(n)
      BY <2>10, PathAssumption
    <2> QED
      BY <2>1, <2>5, <2>9, <2>11 DEF n
  <1>5. CASE h'[c] = Idle
    BY <1>5 DEF Idle
  <1>6. CASE Called(c)
    BY <1>1, <1>6, CreateVolumeStarted, DeleteVolumeStarted, CreateSnapshotStarted,
       DeleteSnapshotStarted DEF Called
  <1> QED
    BY <1>1, <1>3, <1>4, <1>5, <1>6, HandlerChanges

(***************************************************************************)
(* Where Kubernetes goes with an object, and which step takes it there.    *)
(***************************************************************************)
Answered(c, op, o) ==
  /\ Reply(c) /\ h[c].pc = "done" /\ h[c].code = "OK" /\ h[c].gone = "no"
  /\ h[c].op = op /\ h[c].obj = o /\ Recorded(c, o)

LEMMA PhaseSteps ==
  ASSUME VolumeInv, ControllerNext, NEW o \in Objects, phase'[o] # phase[o]
  PROVE  \/ /\ phase[o] = "wanted" /\ phase'[o] = "bound"
            /\ \E c \in Calls : \/ Answered(c, "CreateVolume", o) /\ o \in Names
                                \/ Answered(c, "CreateSnapshot", o) /\ o \in Snaps
         \/ /\ phase[o] = "bound" /\ phase'[o] = "released" /\ ReleaseObject(o)
         \/ /\ phase[o] = "released" /\ phase'[o] = "gone"
            /\ \E c \in Calls : \/ Answered(c, "DeleteVolume", o) /\ o \in Names
                                \/ Answered(c, "DeleteSnapshot", o) /\ o \in Snaps
  <1>1. phase \in [Objects -> Phases]
    BY DEF VolumeInv, IndInv, TypeOK
  <1>2. ASSUME NEW c \in Calls, HandlerStep(c) PROVE FALSE
    BY <1>2, StepIsMove DEF envVars, VolumeInv
  <1>3. ~UNCHANGED envVars /\ ~InformerStep /\ ~Crash
    BY DEF envVars, InformerStep, Crash
  <1>4. CASE \E c \in Calls : Reply(c)
    <2>1. PICK c \in Calls : Reply(c)
      BY <1>4
    <2>2. /\ h[c].pc = "done" /\ h[c].code = "OK" /\ h[c].gone = "no"
          /\ Recorded(c, h[c].obj)
      BY <2>1 DEF Reply
    <2>3. HandlerOK(h[c]) /\ h[c].op \in Ops
      BY <2>2, HandlerFacts DEF HandlerOK, VolumeInv
    <2>4. h[c].obj = o
      BY <1>1, <2>2 DEF Recorded
    <2>5. /\ h[c].op \in {"CreateVolume", "CreateSnapshot"} => phase[o] = "wanted"
          /\ h[c].op \in {"DeleteVolume", "DeleteSnapshot"} => phase[o] = "released"
      BY <2>2, <2>4 DEF VolumeInv, OwnersInv, PhasesOK
    <2>6. /\ h[c].op \in {"CreateVolume", "CreateSnapshot"} => phase'[o] = "bound"
          /\ h[c].op \in {"DeleteVolume", "DeleteSnapshot"} => phase'[o] = "gone"
      BY <1>1, <2>2, <2>4 DEF Recorded
    <2> QED
      BY <2>1, <2>2, <2>3, <2>4, <2>5, <2>6 DEF Answered, HandlerOK, Ops
  <1>5. ASSUME NEW x \in Objects, ReleaseObject(x)
        PROVE  x = o /\ phase[o] = "bound" /\ phase'[o] = "released"
    BY <1>1, <1>5 DEF ReleaseObject
  <1> QED
    BY <1>2, <1>3, <1>4, <1>5
       DEF ControllerNext, CallVolume, CallSnapshot, CreateVolume, DeleteVolume,
           CreateSnapshot, DeleteSnapshot, Abandon

\* What an answer records in the API for a snapshot, and only an answer.
LEMMA SnapshotRecorded ==
  ASSUME VolumeInv, ControllerNext, NEW s \in Snaps, vsc'[s] # vsc[s]
  PROVE  vsc'[s] = None \/ \E c \in Calls : Taking(c) /\ Took(c) /\ vsc'[s] = h[c].cid
  <1>1. vsc \in [Snaps -> CIDs \cup {None}]
    BY DEF VolumeInv, IndInv, TypeOK, StoresTypeOK, VSCs
  <1>2. ASSUME NEW c \in Calls, HandlerStep(c) PROVE FALSE
    BY <1>2, StepIsMove DEF envVars, storeVars, VolumeInv
  <1>3. ~UNCHANGED envVars /\ ~UNCHANGED storeVars /\ ~InformerStep /\ ~Crash
    BY DEF envVars, storeVars, InformerStep, ApplyPVEvent, ApplyVSCEvent, Crash,
           StartInformers
  <1>4. ASSUME NEW c \in Calls, Reply(c)
        PROVE  vsc'[s] = None \/ (Taking(c) /\ Took(c) /\ vsc'[s] = h[c].cid)
    <2>1. /\ h[c].pc = "done" /\ h[c].code = "OK" /\ h[c].gone = "no"
          /\ Recorded(c, h[c].obj)
      BY <1>3, <1>4 DEF Reply
    <2> QED
      BY <1>1, <2>1 DEF Recorded, WritePV, WriteVSC, Taking, Took
  <1> QED
    BY <1>2, <1>3, <1>4
       DEF ControllerNext, CallVolume, CallSnapshot, CreateVolume, DeleteVolume,
           CreateSnapshot, DeleteSnapshot, Abandon, ReleaseObject

\* A call that arrives is all that happens.
LEMMA CallsAlone ==
  ASSUME IndInv, NEW c \in Calls, Called(c)
  PROVE  /\ \A d \in Calls : ~(HandlerStep(d) \/ Reply(d) \/ Abandon(d))
         /\ \A o \in Objects : ~ReleaseObject(o)
         /\ ~InformerStep /\ ~Crash
  <1>1. h[c].pc = "idle" /\ h'[c].pc # "idle" /\ h \in [Calls -> Handlers]
    <2>1. ASSUME NEW op, NEW o, Started(c, op, o)
          PROVE  h[c].pc = "idle" /\ h'[c].pc # "idle"
      BY <2>1, NotSteps DEF Started
    <2> QED
      BY <2>1, HandlerFacts, CreateVolumeStarted, DeleteVolumeStarted,
         CreateSnapshotStarted, DeleteSnapshotStarted DEF Called
  <1>2. ASSUME NEW d \in Calls, HandlerStep(d) PROVE FALSE
    BY <1>1, <1>2, StepIsMove, NotSteps DEF Holding
  <1>3. ASSUME NEW d \in Calls, Reply(d) PROVE FALSE
    BY <1>1, <1>3 DEF Reply, Idle
  <1>4. ASSUME NEW d \in Calls, Abandon(d) PROVE FALSE
    <2>1. d # c => h'[c] = h[c]
      BY <1>1, <1>4 DEF Abandon
    <2> QED
      BY <1>1, <1>4, <2>1 DEF Abandon
  <1>5. ~Crash
    BY <1>1 DEF Crash, Idle
  <1>6. h' # h
    BY <1>1
  <1> QED
    BY <1>2, <1>3, <1>4, <1>5, <1>6 DEF ReleaseObject, InformerStep

=============================================================================
