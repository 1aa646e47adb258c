-------------------------- MODULE ControllerProofs --------------------------
(***************************************************************************)
(* Type correctness and the lock discipline of the controller, for every   *)
(* set of volumes, snapshots, paths and handler goroutines, every bound on *)
(* faults and every StorageClass.                                          *)
(*                                                                         *)
(* Neither is inductive: a handler's next move is only well typed because  *)
(* the fields its step uses were set by the steps before (HandlerOK) and   *)
(* because the API still has what Kubernetes calls bound (ObjectsOK).  The *)
(* inductive invariant is their conjunction, IndInv.                       *)
(*                                                                         *)
(* Every step of a handler that holds its lock has the same effect on the  *)
(* handlers and the lock set, HandlerMove; one lemma shows that such a     *)
(* step keeps IndInv, and each action is shown to have that shape.         *)
(***************************************************************************)
EXTENDS Controller, TLAPS

\* What a handler between TryAcquire and Release does to h and to locks.
HandlerMove(c) ==
  /\ h' = [h EXCEPT ![c] = h'[c]]
  /\ HandlerOK(h'[c])
  /\ h'[c].key = h[c].key /\ h'[c].op = h[c].op /\ h'[c].obj = h[c].obj
  /\ h'[c].gone = nextCall(h[c].gone)
  /\ \/ h'[c].pc \in Steps /\ locks' = locks
     \/ h'[c].pc = "done" /\ locks' = locks \ {h[c].key}

\* What the IPFS calls a handler makes leave well typed.
CallEffects ==
  /\ IpfsTypeOK'
  /\ faults' \in 0..MaxFaults
  /\ UNCHANGED envVars

-----------------------------------------------------------------------------
(***************************************************************************)
(* Lemmas about the moves themselves.                                      *)
(***************************************************************************)

\* A CID is a set of files, so anything between is one too.
LEMMA CIDsAreDirs == CIDs = SUBSET Files
  BY DEF CIDs

\* The updated handler, field by field: it goes on to another step.
LEMMA GotoFields ==
  ASSUME NEW c \in Calls, NEW r \in Handlers, NEW pc \in Steps,
         h \in [Calls -> Handlers], Goto(c, pc, r)
  PROVE  /\ h' = [h EXCEPT ![c] = h'[c]]
         /\ h'[c] \in Handlers
         /\ h'[c].pc = pc /\ h'[c].op = r.op /\ h'[c].obj = r.obj
         /\ h'[c].key = r.key /\ h'[c].cid = r.cid /\ h'[c].path = r.path
         /\ h'[c].todo = r.todo /\ h'[c].pinok = r.pinok
         /\ h'[c].gone = nextCall(r.gone)
  <1> DEFINE x == [r EXCEPT !.pc = pc, !.gone = nextCall(@)]
  <1>1. nextCall(r.gone) \in {"no", "now", "before"}
    BY DEF nextCall
  <1>2. x \in Handlers
    BY <1>1 DEF Handlers
  <1>3. /\ x.pc = pc /\ x.op = r.op /\ x.obj = r.obj
        /\ x.key = r.key /\ x.cid = r.cid /\ x.path = r.path
        /\ x.todo = r.todo /\ x.pinok = r.pinok /\ x.gone = nextCall(r.gone)
    BY DEF Handlers
  <1>4. h' = [h EXCEPT ![c] = x]
    BY DEF Goto
  <1> HIDE DEF x
  <1>5. h'[c] = x
    BY <1>4
  <1> QED
    BY <1>2, <1>3, <1>4, <1>5

\* The updated handler, field by field: it returns.
LEMMA FinishFields ==
  ASSUME NEW c \in Calls, NEW r \in Handlers, NEW code \in Codes,
         h \in [Calls -> Handlers], Finish(c, code, r)
  PROVE  /\ h' = [h EXCEPT ![c] = h'[c]]
         /\ h'[c] \in Handlers
         /\ h'[c].pc = "done" /\ h'[c].op = r.op /\ h'[c].obj = r.obj
         /\ h'[c].key = r.key /\ h'[c].cid = r.cid /\ h'[c].code = code
         /\ h'[c].path = r.path /\ h'[c].pinok = r.pinok
         /\ h'[c].gone = nextCall(r.gone)
         /\ locks' = locks \ {h[c].key}
  <1> DEFINE x == [r EXCEPT !.pc = "done", !.code = code,
                            !.gone = nextCall(@)]
  <1>1. nextCall(r.gone) \in {"no", "now", "before"}
    BY DEF nextCall
  <1>2. x \in Handlers
    BY <1>1 DEF Handlers
  <1>3. /\ x.pc = "done" /\ x.op = r.op /\ x.obj = r.obj
        /\ x.key = r.key /\ x.cid = r.cid /\ x.code = code
        /\ x.path = r.path /\ x.pinok = r.pinok /\ x.gone = nextCall(r.gone)
    BY DEF Handlers
  <1>4. h' = [h EXCEPT ![c] = x] /\ locks' = locks \ {h[c].key}
    BY DEF Finish, Release
  <1> HIDE DEF x
  <1>5. h'[c] = x
    BY <1>4
  <1> QED
    BY <1>2, <1>3, <1>4, <1>5

(***************************************************************************)
(* A handler that goes on: the step it goes to must belong to its          *)
(* operation, and the fields that step uses must be set.                   *)
(***************************************************************************)
LEMMA GotoMove ==
  ASSUME NEW c \in Calls, NEW r \in Handlers, NEW pc \in Steps,
         h \in [Calls -> Handlers], HandlerOK(h[c]),
         r.op = h[c].op, r.obj = h[c].obj, r.key = h[c].key, r.gone = h[c].gone,
         pc \in CreateVolumeSteps => r.op = "CreateVolume",
         pc \in DeleteVolumeSteps => r.op = "DeleteVolume",
         pc \in CreateSnapshotSteps => r.op = "CreateSnapshot",
         pc \in DeleteSnapshotSteps => r.op = "DeleteSnapshot",
         pc \in {"cv_MkdirMFS", "cs_ResolveMFSCID"} \cup RestoreSteps
           => r.path \in Paths,
         pc \in {"cv_StatCID", "cv_PinCID", "dv_ListVolumes",
                 "dv_ListSnapshots", "dv_UnpinCID", "cs_PinCID"}
                \cup RestoreSteps \cup DeleteSnapshotSteps
           => r.cid \in CIDs,
         Goto(c, pc, r), locks' = locks
  PROVE  HandlerMove(c)
  <1>1. pc # "done"
    BY DEF Steps, CreateVolumeSteps, DeleteVolumeSteps, CreateSnapshotSteps,
           DeleteSnapshotSteps, RestoreSteps
  <1>2. HandlerOK(h'[c])
    BY <1>1, GotoFields DEF HandlerOK
  <1> QED
    BY <1>2, GotoFields DEF HandlerMove

(***************************************************************************)
(* A handler that returns: only a successful CreateSnapshot promises       *)
(* anything of its fields.                                                 *)
(***************************************************************************)
LEMMA FinishMove ==
  ASSUME NEW c \in Calls, NEW r \in Handlers, NEW code \in Codes,
         h \in [Calls -> Handlers], HandlerOK(h[c]), Holding(c),
         r.op = h[c].op, r.obj = h[c].obj, r.key = h[c].key, r.gone = h[c].gone,
         r.op = "CreateSnapshot" /\ code = "OK" => r.cid \in CIDs,
         Finish(c, code, r)
  PROVE  HandlerMove(c)
  <1>1. /\ "done" \notin CreateVolumeSteps
        /\ "done" \notin DeleteVolumeSteps
        /\ "done" \notin CreateSnapshotSteps
        /\ "done" \notin DeleteSnapshotSteps
        /\ "done" \notin RestoreSteps
    BY DEF CreateVolumeSteps, DeleteVolumeSteps, CreateSnapshotSteps,
           DeleteSnapshotSteps, RestoreSteps
  <1>2. r.op \in Ops
    BY DEF Holding, HandlerOK, Steps, Ops
  <1>3. HandlerOK(h'[c])
    BY <1>1, <1>2, FinishFields DEF HandlerOK
  <1> QED
    BY <1>3, FinishFields DEF HandlerMove

(***************************************************************************)
(* A handler's move keeps the inductive invariant.                         *)
(***************************************************************************)
LEMMA MoveKeepsIndInv ==
  ASSUME IndInv, NEW c \in Calls, Holding(c), HandlerMove(c), CallEffects
  PROVE  IndInv'
  <1>1. /\ h \in [Calls -> Handlers]
        /\ h' \in [Calls -> Handlers]
        /\ \A d \in Calls : d # c => h'[d] = h[d]
        /\ \A d \in Calls : HandlerOK(h'[d])
    BY DEF IndInv, TypeOK, HandlerMove, HandlerOK
  <1>2. locks' \subseteq Keys
    BY DEF IndInv, TypeOK, HandlerMove
  <1>3. TypeOK' /\ ObjectsOK'
    BY <1>1, <1>2 DEF IndInv, TypeOK, ObjectsOK, CallEffects, envVars,
                      storeVars, StoresTypeOK
  <1>4. LockDiscipline'
    <2>1. "done" \notin Steps
      BY DEF Steps, CreateVolumeSteps, DeleteVolumeSteps,
             CreateSnapshotSteps, DeleteSnapshotSteps, RestoreSteps
    <2>2. CASE h'[c].pc \in Steps /\ locks' = locks
      <3>1. \A d \in Calls : /\ Holding(d)' <=> Holding(d)
                             /\ h'[d].key = h[d].key
        BY <1>1, <2>2 DEF Holding, HandlerMove
      <3> QED
        BY <2>2, <3>1 DEF IndInv, LockDiscipline
    <2>3. CASE h'[c].pc = "done" /\ locks' = locks \ {h[c].key}
      <3>1. /\ \A d \in Calls : Holding(d)' <=> Holding(d) /\ d # c
            /\ \A d \in Calls : h'[d].key = h[d].key
        BY <1>1, <2>1, <2>3 DEF Holding, HandlerMove
      <3> QED
        BY <2>3, <3>1 DEF IndInv, LockDiscipline
    <2> QED
      BY <2>2, <2>3 DEF HandlerMove
  <1> QED
    BY <1>1, <1>3, <1>4 DEF IndInv

-----------------------------------------------------------------------------
(***************************************************************************)
(* What the calls on the IPFS node preserve.                               *)
(***************************************************************************)

\* Faults stay within their budget.
LEMMA OutcomeType ==
  ASSUME TypeOK, NEW c \in Calls, NEW o, Outcome(c, o)
  PROVE  faults' \in 0..MaxFaults
  <1>1. h[c].gone \in {"no", "now", "before"}
    BY DEF TypeOK, Handlers
  <1> QED
    BY <1>1, ControllerAssumption DEF TypeOK, Outcome

\* Pins are only ever of CIDs.
LEMMA PinType ==
  ASSUME IpfsTypeOK, NEW d \in CIDs, NEW o,
         PinCID(d, o) \/ UnpinCID(d, o), mfs' = mfs
  PROVE  IpfsTypeOK'
  BY DEF IpfsTypeOK, PinCID, UnpinCID

\* MFS paths hold directories or nothing.
LEMMA MfsType ==
  ASSUME IpfsTypeOK, NEW p \in Paths, NEW o,
         \/ MkdirMFS(p, o)
         \/ RmMFS(p, o)
         \/ \E f \in Files : ~cpRefused(f, p) /\ cpMFS(f, p, o),
         pinned' = pinned
  PROVE  IpfsTypeOK'
  <1>1. CASE MkdirMFS(p, o) \/ RmMFS(p, o)
    BY <1>1, CIDsAreDirs
    DEF IpfsTypeOK, MkdirMFS, RmMFS, Made, Removed, EmptyDir
  <1>2. ASSUME NEW f \in Files, ~cpRefused(f, p), cpMFS(f, p, o)
        PROVE  IpfsTypeOK'
    <2>1. mfs[p] \in CIDs
      BY <1>2 DEF cpRefused, IpfsTypeOK
    <2>2. mfs[p] \cup {f} \in CIDs
      BY <2>1, CIDsAreDirs
    <2> QED
      BY <1>2, <2>2 DEF cpMFS, IpfsTypeOK
  <1> QED
    BY <1>1, <1>2

\* Attributes in the PV lister's cache are well typed.
LEMMA AttributesType ==
  ASSUME TypeOK, NEW id
  PROVE  GetVolumeAttributes(id) \subseteq VolumeAttributes
  BY DEF TypeOK, StoresTypeOK, PVs, GetVolumeAttributes

-----------------------------------------------------------------------------
(***************************************************************************)
(* CreateVolume and the restore.                                           *)
(***************************************************************************)

\* The facts every step of a handler starts from.
LEMMA HandlerFacts ==
  ASSUME IndInv, NEW c \in Calls
  PROVE  /\ TypeOK /\ IpfsTypeOK
         /\ h \in [Calls -> Handlers] /\ h[c] \in Handlers
         /\ HandlerOK(h[c])
         /\ faults \in 0..MaxFaults
  BY DEF IndInv, TypeOK

\* Every step of CreateVolume and of its restore is a HandlerMove.
LEMMA CreateVolumeStepMove ==
  ASSUME IndInv, NEW c \in Calls, CreateVolumeStep(c)
  PROVE  Holding(c) /\ HandlerMove(c) /\ CallEffects
  <1>1. CASE cv_StatCID(c)
    <2>1. h[c].op = "CreateVolume" /\ Holding(c) /\ h[c].cid \in CIDs
      BY <1>1, HandlerFacts
         DEF cv_StatCID, HandlerOK, Holding, Steps, CreateVolumeSteps, RestoreSteps
    <2>2. CallEffects
      BY <1>1, <2>1, HandlerFacts, OutcomeType
         DEF cv_StatCID, CallEffects, ipfsVars, IpfsTypeOK
    <2>3. HandlerMove(c)
      <3>1. CASE \E code \in {"Internal", "NotFound", "OK"} : Finish(c, code, h[c])
        BY <2>1, <3>1, HandlerFacts, FinishMove DEF Codes
      <3>2. CASE Goto(c, "cv_PinCID", h[c]) /\ UNCHANGED locks
        BY <2>1, <3>2, HandlerFacts, GotoMove
           DEF Steps, CreateVolumeSteps, RestoreSteps, DeleteVolumeSteps,
               CreateSnapshotSteps, DeleteSnapshotSteps
      <3> QED
        BY <1>1, <3>1, <3>2 DEF cv_StatCID
    <2> QED
      BY <2>1, <2>2, <2>3
  <1>2. CASE cv_PinCID(c)
    <2>1. h[c].op = "CreateVolume" /\ Holding(c) /\ h[c].cid \in CIDs
      BY <1>2, HandlerFacts
         DEF cv_PinCID, HandlerOK, Holding, Steps, CreateVolumeSteps, RestoreSteps
    <2>2. CallEffects
      BY <1>2, <2>1, HandlerFacts, OutcomeType, PinType
         DEF cv_PinCID, CallEffects, envVars
    <2>3. HandlerMove(c)
      <3>1. CASE \E code \in {"Internal", "OK"} : Finish(c, code, h[c])
        BY <2>1, <3>1, HandlerFacts, FinishMove DEF Codes
      <3>2. CASE Finish(c, "OK", [h[c] EXCEPT !.pinok = TRUE])
        <4>1. /\ [h[c] EXCEPT !.pinok = TRUE] \in Handlers
              /\ [h[c] EXCEPT !.pinok = TRUE].op = h[c].op
              /\ [h[c] EXCEPT !.pinok = TRUE].obj = h[c].obj
              /\ [h[c] EXCEPT !.pinok = TRUE].key = h[c].key
              /\ [h[c] EXCEPT !.pinok = TRUE].gone = h[c].gone
          BY HandlerFacts DEF Handlers
        <4> QED
          BY <2>1, <3>2, <4>1, HandlerFacts, FinishMove DEF Codes
      <3> QED
        BY <1>2, <3>1, <3>2 DEF cv_PinCID
    <2> QED
      BY <2>1, <2>2, <2>3
  <1>3. CASE cv_MkdirMFS(c)
    <2>1. h[c].op = "CreateVolume" /\ Holding(c) /\ h[c].path \in Paths
      BY <1>3, HandlerFacts
         DEF cv_MkdirMFS, HandlerOK, Holding, Steps, CreateVolumeSteps, RestoreSteps
    <2>2. CallEffects
      BY <1>3, <2>1, HandlerFacts, OutcomeType, MfsType
         DEF cv_MkdirMFS, CallEffects, envVars
    <2>3. HandlerMove(c)
      <3>1. CASE \E code \in {"Internal", "OK"} : Finish(c, code, h[c])
        BY <2>1, <3>1, HandlerFacts, FinishMove DEF Codes
      <3>2. CASE /\ Goto(c, "rs_StatCID", h[c]) /\ UNCHANGED locks
                 /\ h[c].cid # None
        <4>1. h[c].cid \in CIDs
          BY <3>2, HandlerFacts DEF Handlers
        <4> QED
          BY <2>1, <3>2, <4>1, HandlerFacts, GotoMove
             DEF Steps, CreateVolumeSteps, RestoreSteps, DeleteVolumeSteps,
                 CreateSnapshotSteps, DeleteSnapshotSteps
      <3> QED
        BY <1>3, <3>1, <3>2 DEF cv_MkdirMFS
    <2> QED
      BY <2>1, <2>2, <2>3
  <1>4. CASE rs_StatCID(c)
    <2>1. h[c].op = "CreateVolume" /\ Holding(c) /\ h[c].cid \in CIDs
          /\ h[c].path \in Paths
      BY <1>4, HandlerFacts
         DEF rs_StatCID, HandlerOK, Holding, Steps, CreateVolumeSteps, RestoreSteps
    <2>2. CallEffects
      BY <1>4, <2>1, HandlerFacts, OutcomeType
         DEF rs_StatCID, CallEffects, ipfsVars, IpfsTypeOK
    <2>3. HandlerMove(c)
      <3>1. CASE \E code \in {"Internal", "NotFound"} : Finish(c, code, h[c])
        BY <2>1, <3>1, HandlerFacts, FinishMove DEF Codes
      <3>2. CASE Goto(c, "rs_GetCIDContent", h[c]) /\ UNCHANGED locks
        BY <2>1, <3>2, HandlerFacts, GotoMove
           DEF Steps, CreateVolumeSteps, RestoreSteps, DeleteVolumeSteps,
               CreateSnapshotSteps, DeleteSnapshotSteps
      <3> QED
        BY <1>4, <3>1, <3>2 DEF rs_StatCID
    <2> QED
      BY <2>1, <2>2, <2>3
  <1>5. CASE rs_GetCIDContent(c)
    <2>1. h[c].op = "CreateVolume" /\ Holding(c) /\ h[c].cid \in CIDs
          /\ h[c].path \in Paths
      BY <1>5, HandlerFacts
         DEF rs_GetCIDContent, HandlerOK, Holding, Steps, CreateVolumeSteps, RestoreSteps
    <2>2. CallEffects
      BY <1>5, <2>1, HandlerFacts, OutcomeType
         DEF rs_GetCIDContent, CallEffects, ipfsVars, IpfsTypeOK
    <2>3. HandlerMove(c)
      <3>1. CASE \E code \in {"Internal"} : Finish(c, code, h[c])
        BY <2>1, <3>1, HandlerFacts, FinishMove DEF Codes
      <3>2. CASE /\ Goto(c, "rs_RmMFS", [h[c] EXCEPT !.todo = h[c].cid])
                 /\ UNCHANGED locks
        <4> DEFINE r == [h[c] EXCEPT !.todo = h[c].cid]
        <4>1. /\ r \in Handlers
              /\ r.op = h[c].op /\ r.obj = h[c].obj /\ r.key = h[c].key
              /\ r.gone = h[c].gone
              /\ r.cid = h[c].cid /\ r.path = h[c].path
          BY <2>1, HandlerFacts, CIDsAreDirs DEF Handlers
        <4> HIDE DEF r
        <4> QED
          BY <2>1, <3>2, <4>1, HandlerFacts, GotoMove
             DEF r, Steps, CreateVolumeSteps, RestoreSteps, DeleteVolumeSteps,
                 CreateSnapshotSteps, DeleteSnapshotSteps
      <3> QED
        BY <1>5, <3>1, <3>2 DEF rs_GetCIDContent
    <2> QED
      BY <2>1, <2>2, <2>3
  <1>6. CASE rs_RmMFS(c)
    <2>1. h[c].op = "CreateVolume" /\ Holding(c) /\ h[c].cid \in CIDs
          /\ h[c].path \in Paths
      BY <1>6, HandlerFacts
         DEF rs_RmMFS, HandlerOK, Holding, Steps, CreateVolumeSteps, RestoreSteps
    <2>2. CallEffects
      BY <1>6, <2>1, HandlerFacts, OutcomeType, MfsType
         DEF rs_RmMFS, CallEffects, envVars
    <2>3. HandlerMove(c)
      <3>1. CASE Goto(c, "rs_MkdirMFS", h[c]) /\ UNCHANGED locks
        BY <2>1, <3>1, HandlerFacts, GotoMove
           DEF Steps, CreateVolumeSteps, RestoreSteps, DeleteVolumeSteps,
               CreateSnapshotSteps, DeleteSnapshotSteps
      <3> QED
        BY <1>6, <3>1 DEF rs_RmMFS
    <2> QED
      BY <2>1, <2>2, <2>3
  <1>7. CASE rs_MkdirMFS(c)
    <2>1. h[c].op = "CreateVolume" /\ Holding(c) /\ h[c].cid \in CIDs
          /\ h[c].path \in Paths
      BY <1>7, HandlerFacts
         DEF rs_MkdirMFS, HandlerOK, Holding, Steps, CreateVolumeSteps, RestoreSteps
    <2>2. CallEffects
      BY <1>7, <2>1, HandlerFacts, OutcomeType, MfsType
         DEF rs_MkdirMFS, CallEffects, envVars
    <2>3. HandlerMove(c)
      <3>1. CASE \E code \in {"Internal"} : Finish(c, code, h[c])
        BY <2>1, <3>1, HandlerFacts, FinishMove DEF Codes
      <3>2. CASE Goto(c, "rs_cpMFS", h[c]) /\ UNCHANGED locks
        BY <2>1, <3>2, HandlerFacts, GotoMove
           DEF Steps, CreateVolumeSteps, RestoreSteps, DeleteVolumeSteps,
               CreateSnapshotSteps, DeleteSnapshotSteps
      <3> QED
        BY <1>7, <3>1, <3>2 DEF rs_MkdirMFS
    <2> QED
      BY <2>1, <2>2, <2>3
  <1>8. CASE rs_cpMFS(c)
    <2>1. h[c].op = "CreateVolume" /\ Holding(c) /\ h[c].cid \in CIDs
          /\ h[c].path \in Paths /\ h[c].todo \subseteq Files
      BY <1>8, HandlerFacts
         DEF rs_cpMFS, HandlerOK, Holding, Steps, CreateVolumeSteps,
             RestoreSteps, Handlers
    <2>2. CallEffects
      BY <1>8, <2>1, HandlerFacts, OutcomeType, MfsType
         DEF rs_cpMFS, CallEffects, IpfsTypeOK
    <2>3. HandlerMove(c)
      <3>1. CASE \E code \in {"Internal", "OK"} : Finish(c, code, h[c])
        BY <2>1, <3>1, HandlerFacts, FinishMove DEF Codes
      <3>2. ASSUME NEW f \in Files, UNCHANGED locks,
                   Goto(c, "rs_cpMFS", [h[c] EXCEPT !.todo = @ \ {f}])
            PROVE  HandlerMove(c)
        <4> DEFINE r == [h[c] EXCEPT !.todo = @ \ {f}]
        <4>1. /\ r \in Handlers
              /\ r.op = h[c].op /\ r.obj = h[c].obj /\ r.key = h[c].key
              /\ r.gone = h[c].gone
              /\ r.cid = h[c].cid /\ r.path = h[c].path
          BY <2>1, HandlerFacts DEF Handlers
        <4> HIDE DEF r
        <4> QED
          BY <2>1, <3>2, <4>1, HandlerFacts, GotoMove
             DEF r, Steps, CreateVolumeSteps, RestoreSteps, DeleteVolumeSteps,
                 CreateSnapshotSteps, DeleteSnapshotSteps
      <3> QED
        BY <1>8, <2>1, <3>1, <3>2 DEF rs_cpMFS
    <2> QED
      BY <2>1, <2>2, <2>3
  <1> QED
    BY <1>1, <1>2, <1>3, <1>4, <1>5, <1>6, <1>7, <1>8 DEF CreateVolumeStep

-----------------------------------------------------------------------------
(***************************************************************************)
(* DeleteVolume: every step of it is a HandlerMove.                        *)
(***************************************************************************)
LEMMA DeleteVolumeStepMove ==
  ASSUME IndInv, NEW c \in Calls, DeleteVolumeStep(c)
  PROVE  Holding(c) /\ HandlerMove(c) /\ CallEffects
  <1>1. CASE dv_GetVolumeAttributes(c)
    <2>1. h[c].op = "DeleteVolume" /\ Holding(c)
      BY <1>1, HandlerFacts
         DEF dv_GetVolumeAttributes, HandlerOK, Holding, Steps, DeleteVolumeSteps
    <2>2. CallEffects
      BY <1>1, <2>1, HandlerFacts
         DEF dv_GetVolumeAttributes, CallEffects, ipfsVars, IpfsTypeOK
    <2>3. HandlerMove(c)
      <3>1. CASE \E code \in {"OK"} : Finish(c, code, h[c])
        BY <2>1, <3>1, HandlerFacts, FinishMove DEF Codes
      <3>2. ASSUME NEW cid \in CIDs \cup {None}, NEW path \in Paths \cup {None},
                   Goto(c, IF cid # None THEN "dv_ListVolumes" ELSE "dv_RmMFS",
                        [h[c] EXCEPT !.cid = cid, !.path = path]),
                   UNCHANGED locks
            PROVE  HandlerMove(c)
        <4> DEFINE r == [h[c] EXCEPT !.cid = cid, !.path = path]
        <4>1. /\ r \in Handlers
              /\ r.op = h[c].op /\ r.obj = h[c].obj /\ r.key = h[c].key
              /\ r.gone = h[c].gone
              /\ r.cid = cid
          BY HandlerFacts DEF Handlers
        <4> HIDE DEF r
        <4>2. CASE cid # None
            BY <2>1, <3>2, <4>1, <4>2, HandlerFacts, GotoMove
               DEF r, Steps, CreateVolumeSteps, RestoreSteps, DeleteVolumeSteps,
                   CreateSnapshotSteps, DeleteSnapshotSteps
        <4>3. CASE cid = None
            BY <2>1, <3>2, <4>1, <4>3, HandlerFacts, GotoMove
               DEF r, Steps, CreateVolumeSteps, RestoreSteps, DeleteVolumeSteps,
                   CreateSnapshotSteps, DeleteSnapshotSteps
        <4> QED
          BY <4>2, <4>3
      <3>3. ASSUME NEW a \in GetVolumeAttributes(h[c].key[2])
            PROVE  /\ (IF a.pinning THEN a.cid ELSE None) \in CIDs \cup {None}
                   /\ (IF a.mfspath # None /\ ~a.readonly
                       THEN Clean[a.mfspath] ELSE None) \in Paths \cup {None}
        <4>1. a \in VolumeAttributes
          BY HandlerFacts, AttributesType
        <4> QED
          BY <4>1, PathAssumption DEF VolumeAttributes
      <3> QED
        BY <1>1, <3>1, <3>2, <3>3 DEF dv_GetVolumeAttributes
    <2> QED
      BY <2>1, <2>2, <2>3
  <1>2. CASE dv_ListVolumes(c)
    <2>1. h[c].op = "DeleteVolume" /\ Holding(c) /\ h[c].cid \in CIDs
      BY <1>2, HandlerFacts
         DEF dv_ListVolumes, HandlerOK, Holding, Steps, DeleteVolumeSteps
    <2>2. CallEffects
      BY <1>2, <2>1, HandlerFacts
         DEF dv_ListVolumes, CallEffects, ipfsVars, IpfsTypeOK
    <2>3. HandlerMove(c)
      <3> DEFINE b == volumeRefs(h[c].cid, h[c].key[2]) > 0
                 r == [h[c] EXCEPT !.refs = b]
      <3>1. b \in BOOLEAN
        OBVIOUS
      <3> HIDE DEF b
      <3>2. /\ r \in Handlers
            /\ r.op = h[c].op /\ r.obj = h[c].obj /\ r.key = h[c].key
            /\ r.gone = h[c].gone
            /\ r.cid = h[c].cid
        BY <3>1, HandlerFacts DEF Handlers
      <3>3. Goto(c, "dv_ListSnapshots", r) /\ UNCHANGED locks
        BY <1>2 DEF dv_ListVolumes, b
      <3> HIDE DEF r
      <3> QED
        BY <2>1, <3>2, <3>3, HandlerFacts, GotoMove
           DEF Steps, CreateVolumeSteps, RestoreSteps, DeleteVolumeSteps,
               CreateSnapshotSteps, DeleteSnapshotSteps
    <2> QED
      BY <2>1, <2>2, <2>3
  <1>3. CASE dv_ListSnapshots(c)
    <2>1. h[c].op = "DeleteVolume" /\ Holding(c) /\ h[c].cid \in CIDs
      BY <1>3, HandlerFacts
         DEF dv_ListSnapshots, HandlerOK, Holding, Steps, DeleteVolumeSteps
    <2>2. CallEffects
      BY <1>3, <2>1, HandlerFacts
         DEF dv_ListSnapshots, CallEffects, ipfsVars, IpfsTypeOK
    <2>3. HandlerMove(c)
      <3>1. CASE Goto(c, "dv_RmMFS", h[c]) /\ UNCHANGED locks
        BY <2>1, <3>1, HandlerFacts, GotoMove
           DEF Steps, CreateVolumeSteps, RestoreSteps, DeleteVolumeSteps,
               CreateSnapshotSteps, DeleteSnapshotSteps
      <3>2. CASE Goto(c, "dv_UnpinCID", h[c]) /\ UNCHANGED locks
        BY <2>1, <3>2, HandlerFacts, GotoMove
           DEF Steps, CreateVolumeSteps, RestoreSteps, DeleteVolumeSteps,
               CreateSnapshotSteps, DeleteSnapshotSteps
      <3> QED
        BY <1>3, <3>1, <3>2 DEF dv_ListSnapshots
    <2> QED
      BY <2>1, <2>2, <2>3
  <1>4. CASE dv_UnpinCID(c)
    <2>1. h[c].op = "DeleteVolume" /\ Holding(c) /\ h[c].cid \in CIDs
      BY <1>4, HandlerFacts
         DEF dv_UnpinCID, HandlerOK, Holding, Steps, DeleteVolumeSteps
    <2>2. CallEffects
      BY <1>4, <2>1, HandlerFacts, OutcomeType, PinType
         DEF dv_UnpinCID, CallEffects, envVars
    <2>3. HandlerMove(c)
      <3>1. CASE Goto(c, "dv_RmMFS", h[c]) /\ UNCHANGED locks
        BY <2>1, <3>1, HandlerFacts, GotoMove
           DEF Steps, CreateVolumeSteps, RestoreSteps, DeleteVolumeSteps,
               CreateSnapshotSteps, DeleteSnapshotSteps
      <3> QED
        BY <1>4, <3>1 DEF dv_UnpinCID
    <2> QED
      BY <2>1, <2>2, <2>3
  <1>5. CASE dv_RmMFS(c)
    <2>1. h[c].op = "DeleteVolume" /\ Holding(c) /\ h[c].path \in Paths \cup {None}
      BY <1>5, HandlerFacts
         DEF dv_RmMFS, HandlerOK, Holding, Steps, DeleteVolumeSteps,
             Handlers
    <2>2. CallEffects
      BY <1>5, <2>1, HandlerFacts, OutcomeType, MfsType
         DEF dv_RmMFS, CallEffects, envVars, IpfsTypeOK
    <2>3. HandlerMove(c)
      <3>1. CASE \E code \in {"OK"} : Finish(c, code, h[c])
        BY <2>1, <3>1, HandlerFacts, FinishMove DEF Codes
      <3> QED
        BY <1>5, <3>1 DEF dv_RmMFS
    <2> QED
      BY <2>1, <2>2, <2>3
  <1> QED
    BY <1>1, <1>2, <1>3, <1>4, <1>5 DEF DeleteVolumeStep

-----------------------------------------------------------------------------
(***************************************************************************)
(* The snapshot calls.                                                     *)
(***************************************************************************)

\* Every step of CreateSnapshot is a HandlerMove.
LEMMA CreateSnapshotStepMove ==
  ASSUME IndInv, NEW c \in Calls, CreateSnapshotStep(c)
  PROVE  Holding(c) /\ HandlerMove(c) /\ CallEffects
  <1>1. CASE cs_GetVolumeAttributes(c)
    <2>1. h[c].op = "CreateSnapshot" /\ Holding(c)
      BY <1>1, HandlerFacts
         DEF cs_GetVolumeAttributes, HandlerOK, Holding, Steps, CreateSnapshotSteps
    <2>2. CallEffects
      BY <1>1, <2>1, HandlerFacts
         DEF cs_GetVolumeAttributes, CallEffects, ipfsVars, IpfsTypeOK
    <2>3. HandlerMove(c)
      <3>1. CASE \E code \in {"NotFound", "InvalidArgument"} : Finish(c, code, h[c])
        BY <2>1, <3>1, HandlerFacts, FinishMove DEF Codes
      <3>2. ASSUME NEW a \in VolumeAttributes, a.mfspath # None, UNCHANGED locks,
                   Goto(c, "cs_ResolveMFSCID",
                        [h[c] EXCEPT !.path = Clean[a.mfspath]])
            PROVE  HandlerMove(c)
        <4> DEFINE r == [h[c] EXCEPT !.path = Clean[a.mfspath]]
        <4>1. Clean[a.mfspath] \in Paths
          BY <3>2, PathAssumption DEF VolumeAttributes
        <4>2. /\ r \in Handlers
              /\ r.op = h[c].op /\ r.obj = h[c].obj /\ r.key = h[c].key
              /\ r.gone = h[c].gone
              /\ r.path \in Paths
          BY <4>1, HandlerFacts DEF Handlers
        <4> HIDE DEF r
        <4> QED
          BY <2>1, <3>2, <4>2, HandlerFacts, GotoMove
             DEF r, Steps, CreateVolumeSteps, RestoreSteps, DeleteVolumeSteps,
                 CreateSnapshotSteps, DeleteSnapshotSteps
      <3> QED
        BY <1>1, <3>1, <3>2, HandlerFacts, AttributesType
           DEF cs_GetVolumeAttributes
    <2> QED
      BY <2>1, <2>2, <2>3
  <1>2. CASE cs_ResolveMFSCID(c)
    <2>1. h[c].op = "CreateSnapshot" /\ Holding(c) /\ h[c].path \in Paths
      BY <1>2, HandlerFacts
         DEF cs_ResolveMFSCID, HandlerOK, Holding, Steps, CreateSnapshotSteps
    <2>2. CallEffects
      BY <1>2, <2>1, HandlerFacts, OutcomeType
         DEF cs_ResolveMFSCID, CallEffects, ipfsVars, IpfsTypeOK
    <2>3. HandlerMove(c)
      <3>1. CASE \E code \in {"Internal"} : Finish(c, code, h[c])
        BY <2>1, <3>1, HandlerFacts, FinishMove DEF Codes
      <3>2. ASSUME mfs[h[c].path] # None, UNCHANGED locks,
                   Goto(c, "cs_PinCID", [h[c] EXCEPT !.cid = mfs[h[c].path]])
            PROVE  HandlerMove(c)
        <4> DEFINE r == [h[c] EXCEPT !.cid = mfs[h[c].path]]
        <4>1. mfs[h[c].path] \in CIDs
          BY <2>1, <3>2, HandlerFacts DEF IpfsTypeOK
        <4>2. /\ r \in Handlers
              /\ r.op = h[c].op /\ r.obj = h[c].obj /\ r.key = h[c].key
              /\ r.gone = h[c].gone
              /\ r.cid \in CIDs
          BY <4>1, HandlerFacts DEF Handlers
        <4> HIDE DEF r
        <4> QED
          BY <2>1, <3>2, <4>2, HandlerFacts, GotoMove
             DEF r, Steps, CreateVolumeSteps, RestoreSteps, DeleteVolumeSteps,
                 CreateSnapshotSteps, DeleteSnapshotSteps
      <3> QED
        BY <1>2, <3>1, <3>2 DEF cs_ResolveMFSCID, ResolveMFSCID
    <2> QED
      BY <2>1, <2>2, <2>3
  <1>3. CASE cs_PinCID(c)
    <2>1. h[c].op = "CreateSnapshot" /\ Holding(c) /\ h[c].cid \in CIDs
      BY <1>3, HandlerFacts
         DEF cs_PinCID, HandlerOK, Holding, Steps, CreateSnapshotSteps
    <2>2. CallEffects
      BY <1>3, <2>1, HandlerFacts, OutcomeType, PinType
         DEF cs_PinCID, CallEffects, envVars
    <2>3. HandlerMove(c)
      <3>1. ASSUME NEW b \in BOOLEAN, Finish(c, "OK", [h[c] EXCEPT !.pinok = b])
            PROVE  HandlerMove(c)
        <4> DEFINE r == [h[c] EXCEPT !.pinok = b]
        <4>1. /\ r \in Handlers
              /\ r.op = h[c].op /\ r.obj = h[c].obj /\ r.key = h[c].key
              /\ r.gone = h[c].gone
              /\ r.cid \in CIDs
          BY <2>1, HandlerFacts DEF Handlers
        <4> HIDE DEF r
        <4> QED
          BY <2>1, <3>1, <4>1, HandlerFacts, FinishMove DEF r, Codes
      <3>2. \A o : (o = "ok") \in BOOLEAN
        OBVIOUS
      <3> QED
        BY <1>3, <3>1, <3>2 DEF cs_PinCID
    <2> QED
      BY <2>1, <2>2, <2>3
  <1> QED
    BY <1>1, <1>2, <1>3 DEF CreateSnapshotStep

\* Every step of DeleteSnapshot is a HandlerMove.
LEMMA DeleteSnapshotStepMove ==
  ASSUME IndInv, NEW c \in Calls, DeleteSnapshotStep(c)
  PROVE  Holding(c) /\ HandlerMove(c) /\ CallEffects
  <1>1. CASE ds_ListVolumes(c)
    <2>1. h[c].op = "DeleteSnapshot" /\ Holding(c) /\ h[c].cid \in CIDs
      BY <1>1, HandlerFacts
         DEF ds_ListVolumes, HandlerOK, Holding, Steps, DeleteSnapshotSteps
    <2>2. CallEffects
      BY <1>1, <2>1, HandlerFacts
         DEF ds_ListVolumes, CallEffects, ipfsVars, IpfsTypeOK
    <2>3. HandlerMove(c)
      <3> DEFINE b == volumeRefs(h[c].cid, None) > 0
                 r == [h[c] EXCEPT !.refs = b]
      <3>1. b \in BOOLEAN
        OBVIOUS
      <3> HIDE DEF b
      <3>2. /\ r \in Handlers
            /\ r.op = h[c].op /\ r.obj = h[c].obj /\ r.key = h[c].key
            /\ r.gone = h[c].gone
            /\ r.cid = h[c].cid
        BY <3>1, HandlerFacts DEF Handlers
      <3>3. Goto(c, "ds_ListSnapshots", r) /\ UNCHANGED locks
        BY <1>1 DEF ds_ListVolumes, b
      <3> HIDE DEF r
      <3> QED
        BY <2>1, <3>2, <3>3, HandlerFacts, GotoMove
           DEF Steps, CreateVolumeSteps, RestoreSteps, DeleteVolumeSteps,
               CreateSnapshotSteps, DeleteSnapshotSteps
    <2> QED
      BY <2>1, <2>2, <2>3
  <1>2. CASE ds_ListSnapshots(c)
    <2>1. h[c].op = "DeleteSnapshot" /\ Holding(c) /\ h[c].cid \in CIDs
      BY <1>2, HandlerFacts
         DEF ds_ListSnapshots, HandlerOK, Holding, Steps, DeleteSnapshotSteps
    <2>2. CallEffects
      BY <1>2, <2>1, HandlerFacts
         DEF ds_ListSnapshots, CallEffects, ipfsVars, IpfsTypeOK
    <2>3. HandlerMove(c)
      <3>1. CASE \E code \in {"FailedPrecondition", "OK"} : Finish(c, code, h[c])
        BY <2>1, <3>1, HandlerFacts, FinishMove DEF Codes
      <3>2. CASE Goto(c, "ds_UnpinCID", h[c]) /\ UNCHANGED locks
        BY <2>1, <3>2, HandlerFacts, GotoMove
           DEF Steps, CreateVolumeSteps, RestoreSteps, DeleteVolumeSteps,
               CreateSnapshotSteps, DeleteSnapshotSteps
      <3> QED
        BY <1>2, <3>1, <3>2 DEF ds_ListSnapshots
    <2> QED
      BY <2>1, <2>2, <2>3
  <1>3. CASE ds_UnpinCID(c)
    <2>1. h[c].op = "DeleteSnapshot" /\ Holding(c) /\ h[c].cid \in CIDs
      BY <1>3, HandlerFacts
         DEF ds_UnpinCID, HandlerOK, Holding, Steps, DeleteSnapshotSteps
    <2>2. CallEffects
      BY <1>3, <2>1, HandlerFacts, OutcomeType, PinType
         DEF ds_UnpinCID, CallEffects, envVars
    <2>3. HandlerMove(c)
      <3>1. CASE \E code \in {"OK"} : Finish(c, code, h[c])
        BY <2>1, <3>1, HandlerFacts, FinishMove DEF Codes
      <3> QED
        BY <1>3, <3>1 DEF ds_UnpinCID
    <2> QED
      BY <2>1, <2>2, <2>3
  <1> QED
    BY <1>1, <1>2, <1>3 DEF DeleteSnapshotStep

-----------------------------------------------------------------------------
(***************************************************************************)
(* The calls as they arrive: a handler takes its lock or is refused.       *)
(***************************************************************************)
HandlerStart(c) ==
  /\ h[c].pc = "idle"
  /\ h' = [h EXCEPT ![c] = h'[c]]
  /\ HandlerOK(h'[c])
  /\ \/ h'[c].pc = "done" /\ locks' = locks
     \/ /\ h'[c].pc \in Steps
        /\ h'[c].key \in Keys \ locks
        /\ locks' = locks \cup {h'[c].key}

\* The first lines of a handler, field by field.
LEMMA RequestFields ==
  ASSUME NEW op \in Ops, NEW o \in Objects, NEW key \in Keys
  PROVE  /\ Request(op, o, key) \in Handlers
         /\ Request(op, o, key).op = op
         /\ Request(op, o, key).obj = o
         /\ Request(op, o, key).key = key
         /\ Request(op, o, key).cid = None
         /\ Request(op, o, key).path = None
  BY DEF Request, Idle, Handlers

\* Neither "idle" nor "done" is a step.
LEMMA NotSteps == "idle" \notin Steps /\ "done" \notin Steps
  BY DEF Steps, CreateVolumeSteps, RestoreSteps, DeleteVolumeSteps,
         CreateSnapshotSteps, DeleteSnapshotSteps

\* A refused call has the shape HandlerStart.
LEMMA RefuseStart ==
  ASSUME NEW c \in Calls, h \in [Calls -> Handlers], h[c].pc = "idle",
         NEW r \in Handlers, NEW code \in Codes, code # "OK",
         r.op \in Ops,
         r.op \in {"CreateVolume", "DeleteVolume"} => r.obj \in Names,
         r.op \in {"CreateSnapshot", "DeleteSnapshot"} => r.obj \in Snaps,
         Refuse(c, r, code)
  PROVE  HandlerStart(c)
  <1> DEFINE x == [r EXCEPT !.pc = "done", !.code = code]
  <1>1. /\ x \in Handlers /\ x.pc = "done" /\ x.code = code
        /\ x.op = r.op /\ x.obj = r.obj
    BY DEF Handlers
  <1>2. h' = [h EXCEPT ![c] = x] /\ locks' = locks
    BY DEF Refuse
  <1> HIDE DEF x
  <1>3. h'[c] = x
    BY <1>2
  <1>4. HandlerOK(x)
    BY <1>1, NotSteps DEF HandlerOK, Steps, CreateVolumeSteps
  <1> QED
    BY <1>1, <1>2, <1>3, <1>4 DEF HandlerStart

\* A call that takes its lock has the shape HandlerStart.
LEMMA AcquireStart ==
  ASSUME NEW c \in Calls, h \in [Calls -> Handlers], h[c].pc = "idle",
         NEW r \in Handlers, NEW key \in Keys, NEW pc \in Steps,
         r.key = key,
         pc \in CreateVolumeSteps => r.op = "CreateVolume",
         pc \in DeleteVolumeSteps => r.op = "DeleteVolume",
         pc \in CreateSnapshotSteps => r.op = "CreateSnapshot",
         pc \in DeleteSnapshotSteps => r.op = "DeleteSnapshot",
         r.op \in {"CreateVolume", "DeleteVolume"} => r.obj \in Names,
         r.op \in {"CreateSnapshot", "DeleteSnapshot"} => r.obj \in Snaps,
         pc \in {"cv_MkdirMFS", "cs_ResolveMFSCID"} \cup RestoreSteps
           => r.path \in Paths,
         pc \in {"cv_StatCID", "cv_PinCID", "dv_ListVolumes",
                 "dv_ListSnapshots", "dv_UnpinCID", "cs_PinCID"}
                \cup RestoreSteps \cup DeleteSnapshotSteps
           => r.cid \in CIDs,
         TryAcquire(key), Goto(c, pc, r)
  PROVE  HandlerStart(c)
  <1>1. HandlerOK(h'[c])
    BY GotoFields, NotSteps DEF HandlerOK
  <1> QED
    BY <1>1, GotoFields DEF HandlerStart, TryAcquire

\* The start of a call keeps the inductive invariant.
LEMMA StartKeepsIndInv ==
  ASSUME IndInv, NEW c \in Calls, HandlerStart(c),
         UNCHANGED <<ipfsVars, envVars, faults>>
  PROVE  IndInv'
  <1>1. /\ h \in [Calls -> Handlers]
        /\ h' \in [Calls -> Handlers]
        /\ \A d \in Calls : d # c => h'[d] = h[d]
        /\ \A d \in Calls : HandlerOK(h'[d])
    BY DEF IndInv, TypeOK, HandlerStart, HandlerOK
  <1>2. locks' \subseteq Keys
    BY DEF IndInv, TypeOK, HandlerStart
  <1>3. TypeOK' /\ ObjectsOK'
    BY <1>1, <1>2 DEF IndInv, TypeOK, ObjectsOK, ipfsVars, IpfsTypeOK, envVars,
                      storeVars, StoresTypeOK
  <1>4. LockDiscipline'
    <2>1. ~Holding(c)
      BY NotSteps DEF Holding, HandlerStart
    <2>2. CASE h'[c].pc = "done" /\ locks' = locks
      <3>1. \A d \in Calls : /\ Holding(d)' <=> Holding(d)
                             /\ Holding(d) => h'[d].key = h[d].key
        BY <1>1, <2>1, <2>2, NotSteps DEF Holding
      <3> QED
        BY <2>2, <3>1 DEF IndInv, LockDiscipline
    <2>3. CASE /\ h'[c].pc \in Steps
               /\ h'[c].key \in Keys \ locks
               /\ locks' = locks \cup {h'[c].key}
      <3>1. \A d \in Calls : /\ Holding(d)' <=> Holding(d) \/ d = c
                             /\ Holding(d) => h'[d].key = h[d].key
        BY <1>1, <2>1, <2>3 DEF Holding
      <3>2. \A d \in Calls : Holding(d) => h[d].key \in locks
        BY DEF IndInv, LockDiscipline
      <3> QED
        BY <2>1, <2>3, <3>1, <3>2 DEF IndInv, LockDiscipline
    <2> QED
      BY <2>2, <2>3 DEF HandlerStart
  <1> QED
    BY <1>1, <1>3, <1>4 DEF IndInv

\* The path CreateVolume computes is clean, or refused.
LEMMA VolumePathType ==
  ASSUME TypeOK, NEW n \in Names
  PROVE  volumePath(n) \in Paths \cup {None}
  <1>1. claim[n].mfspath \in RawPaths \cup {None}
    BY DEF TypeOK, Claims
  <1>2. DefaultPath[sanitizeVolumeID[n]] \in RawPaths
    BY PathAssumption
  <1> QED
    BY <1>1, <1>2, PathAssumption DEF volumePath, claimPath, normalizeMFSPath

\* CreateVolume starts as a handler does.
LEMMA CreateVolumeStart ==
  ASSUME IndInv, NEW c \in Calls, NEW n \in Names, CreateVolume(c, n)
  PROVE  HandlerStart(c)
  <1> DEFINE key == VolumeKey(sanitizeVolumeID[n])
             r == Request("CreateVolume", n, key)
  <1>1. key \in Keys /\ n \in Objects
    BY PathAssumption DEF Keys, Objects
  <1>2. /\ r \in Handlers /\ r.op = "CreateVolume" /\ r.obj = n
        /\ r.key = key
    BY <1>1, RequestFields DEF Ops
  <1>3. h \in [Calls -> Handlers] /\ h[c].pc = "idle"
    BY HandlerFacts DEF CreateVolume, MayCall
  <1> HIDE DEF key, r
  <1>4. CASE \E code \in {"InvalidArgument", "Aborted"} : Refuse(c, r, code)
    BY <1>2, <1>3, <1>4, RefuseStart DEF Codes, Ops
  <1>5. CASE /\ claim[n].cid # None
             /\ TryAcquire(key)
             /\ Goto(c, "cv_StatCID", [r EXCEPT !.cid = claim[n].cid])
    <2> DEFINE q == [r EXCEPT !.cid = claim[n].cid]
    <2>1. claim[n].cid \in CIDs
      BY <1>5 DEF IndInv, TypeOK, Claims
    <2>2. /\ q \in Handlers /\ q.op = "CreateVolume" /\ q.obj = n
          /\ q.key = key /\ q.cid \in CIDs
      BY <1>2, <2>1 DEF Handlers
    <2> HIDE DEF q
    <2> QED
      BY <1>1, <1>3, <1>5, <2>2, AcquireStart
         DEF q, Steps, CreateVolumeSteps, RestoreSteps, DeleteVolumeSteps,
             CreateSnapshotSteps, DeleteSnapshotSteps
  <1>6. ASSUME NEW d \in CIDs \cup {None}, volumePath(n) # None,
               TryAcquire(key),
               Goto(c, "cv_MkdirMFS",
                    [r EXCEPT !.path = volumePath(n), !.cid = d])
        PROVE  HandlerStart(c)
    <2> DEFINE q == [r EXCEPT !.path = volumePath(n), !.cid = d]
    <2>1. volumePath(n) \in Paths
      BY <1>6, VolumePathType DEF IndInv
    <2>2. /\ q \in Handlers /\ q.op = "CreateVolume" /\ q.obj = n
          /\ q.key = key /\ q.path \in Paths
      BY <1>2, <2>1 DEF Handlers
    <2> HIDE DEF q
    <2> QED
      BY <1>1, <1>3, <1>6, <2>2, AcquireStart
         DEF q, Steps, CreateVolumeSteps, RestoreSteps, DeleteVolumeSteps,
             CreateSnapshotSteps, DeleteSnapshotSteps
  <1>7. ASSUME ~InvalidSource(claim[n]),
               claim[n].source \in Snaps => phase[claim[n].source] = "bound"
        PROVE  (IF claim[n].source = None THEN None ELSE vsc[claim[n].source])
                 \in CIDs \cup {None}
    BY <1>7 DEF IndInv, TypeOK, Claims, InvalidSource, ObjectsOK
  <1> QED
    BY <1>4, <1>5, <1>6, <1>7 DEF CreateVolume, key, r

\* DeleteVolume starts as a handler does.
LEMMA DeleteVolumeStart ==
  ASSUME IndInv, NEW c \in Calls, NEW n \in Names, DeleteVolume(c, n)
  PROVE  HandlerStart(c)
  <1> DEFINE key == VolumeKey(pv[n].handle)
             r == Request("DeleteVolume", n, key)
  <1>1. key \in Keys /\ n \in Objects
    BY DEF DeleteVolume, IndInv, ObjectsOK, VolumeAttributes, Keys, Objects
  <1>2. /\ r \in Handlers /\ r.op = "DeleteVolume" /\ r.obj = n
        /\ r.key = key
    BY <1>1, RequestFields DEF Ops
  <1>3. h \in [Calls -> Handlers] /\ h[c].pc = "idle"
    BY HandlerFacts DEF DeleteVolume, MayCall
  <1> HIDE DEF key, r
  <1>4. CASE Refuse(c, r, "Aborted")
    BY <1>2, <1>3, <1>4, RefuseStart DEF Codes, Ops
  <1>5. CASE TryAcquire(key) /\ Goto(c, "dv_GetVolumeAttributes", r)
    BY <1>1, <1>2, <1>3, <1>5, AcquireStart
       DEF Steps, CreateVolumeSteps, RestoreSteps, DeleteVolumeSteps,
           CreateSnapshotSteps, DeleteSnapshotSteps
  <1> QED
    BY <1>4, <1>5 DEF DeleteVolume, key, r

\* CreateSnapshot starts as a handler does.
LEMMA CreateSnapshotStart ==
  ASSUME IndInv, NEW c \in Calls, NEW s \in Snaps, CreateSnapshot(c, s)
  PROVE  HandlerStart(c)
  <1> DEFINE key == SnapshotKey(s)
             r == Request("CreateSnapshot", s, key)
  <1>1. key \in Keys /\ s \in Objects
    BY DEF Keys, Objects
  <1>2. /\ r \in Handlers /\ r.op = "CreateSnapshot" /\ r.obj = s
        /\ r.key = key
    BY <1>1, RequestFields DEF Ops
  <1>3. h \in [Calls -> Handlers] /\ h[c].pc = "idle"
    BY HandlerFacts DEF CreateSnapshot, MayCall
  <1> HIDE DEF key, r
  <1>4. CASE Refuse(c, r, "Aborted")
    BY <1>2, <1>3, <1>4, RefuseStart DEF Codes, Ops
  <1>5. CASE TryAcquire(key) /\ Goto(c, "cs_GetVolumeAttributes", r)
    BY <1>1, <1>2, <1>3, <1>5, AcquireStart
       DEF Steps, CreateVolumeSteps, RestoreSteps, DeleteVolumeSteps,
           CreateSnapshotSteps, DeleteSnapshotSteps
  <1> QED
    BY <1>4, <1>5 DEF CreateSnapshot, key, r

\* DeleteSnapshot starts as a handler does.
LEMMA DeleteSnapshotStart ==
  ASSUME IndInv, NEW c \in Calls, NEW s \in Snaps, DeleteSnapshot(c, s)
  PROVE  HandlerStart(c)
  <1> DEFINE key == DeleteSnapshotKey(vsc[s])
             q == Request("DeleteSnapshot", s, key)
             r == [q EXCEPT !.cid = vsc[s]]
  <1>1. vsc[s] \in CIDs
    BY DEF DeleteSnapshot, IndInv, ObjectsOK
  <1>2. key \in Keys /\ s \in Objects
    BY <1>1 DEF Keys, Objects
  <1>3. /\ q \in Handlers /\ q.op = "DeleteSnapshot" /\ q.obj = s
        /\ q.key = key
    BY <1>2, RequestFields DEF Ops
  <1> HIDE DEF key, q
  <1>4. /\ r \in Handlers /\ r.op = "DeleteSnapshot" /\ r.obj = s
        /\ r.key = key /\ r.cid \in CIDs
    BY <1>1, <1>3 DEF Handlers
  <1>5. h \in [Calls -> Handlers] /\ h[c].pc = "idle"
    BY HandlerFacts DEF DeleteSnapshot, MayCall
  <1> HIDE DEF r
  <1>6. CASE Refuse(c, r, "Aborted")
    BY <1>4, <1>5, <1>6, RefuseStart DEF Codes, Ops
  <1>7. CASE TryAcquire(key) /\ Goto(c, "ds_ListVolumes", r)
    BY <1>2, <1>4, <1>5, <1>7, AcquireStart
       DEF Steps, CreateVolumeSteps, RestoreSteps, DeleteVolumeSteps,
           CreateSnapshotSteps, DeleteSnapshotSteps
  <1> QED
    BY <1>6, <1>7 DEF DeleteSnapshot, key, q, r

-----------------------------------------------------------------------------
(***************************************************************************)
(* The environment's steps.                                                *)
(***************************************************************************)

\* A goroutine that does not exist satisfies what is asked of handlers.
LEMMA IdleOK == HandlerOK(Idle)
  <1>1. Idle \in Handlers
    BY DEF Idle, Handlers
  <1>2. Idle.pc = "idle" /\ Idle.op = None
    BY DEF Idle
  <1> QED
    BY <1>1, <1>2, NotSteps, ControllerAssumption
       DEF HandlerOK, Steps, CreateVolumeSteps, Ops

\* CreateVolume's response is a well-typed volume context.
LEMMA VolumeContextType ==
  ASSUME TypeOK, NEW n \in Names
  PROVE  VolumeContext(n) \in VolumeAttributes
  <1>1. claim[n] \in Claims
    BY DEF TypeOK
  <1>2. /\ sanitizeVolumeID[n] \in VolumeIDs
        /\ volumePath(n) \in RawPaths \cup {None}
    BY VolumePathType, PathAssumption
  <1> QED
    BY <1>1, <1>2 DEF VolumeContext, VolumeAttributes, Claims

\* A saved or deleted PV, and its watch event, are well typed.
LEMMA WritePVType ==
  ASSUME StoresTypeOK, NEW n \in Names, NEW x \in VolumeAttributes \cup {None},
         WritePV(n, x)
  PROVE  StoresTypeOK'
  <1> DEFINE e == [name |-> n, obj |-> x]
  <1>1. e \in PVEvents
    BY DEF PVEvents
  <1>2. pvEvents' = Append(pvEvents, e) /\ pv' = [pv EXCEPT ![n] = x]
    BY DEF WritePV
  <1> HIDE DEF e
  <1>3. pvEvents' \in Seq(PVEvents)
    BY <1>1, <1>2 DEF StoresTypeOK
  <1>4. pv' \in PVs
    BY <1>2 DEF StoresTypeOK, PVs
  <1> QED
    BY <1>3, <1>4 DEF WritePV, StoresTypeOK

\* A saved or deleted VolumeSnapshotContent, and its watch event, are well typed.
LEMMA WriteVSCType ==
  ASSUME StoresTypeOK, NEW n \in Snaps, NEW x \in CIDs \cup {None},
         WriteVSC(n, x)
  PROVE  StoresTypeOK'
  <1> DEFINE e == [name |-> n, obj |-> x]
  <1>1. e \in VSCEvents
    BY DEF VSCEvents
  <1>2. vscEvents' = Append(vscEvents, e) /\ vsc' = [vsc EXCEPT ![n] = x]
    BY DEF WriteVSC
  <1> HIDE DEF e
  <1>3. vscEvents' \in Seq(VSCEvents)
    BY <1>1, <1>2 DEF StoresTypeOK
  <1>4. vsc' \in VSCs
    BY <1>2 DEF StoresTypeOK, VSCs
  <1> QED
    BY <1>3, <1>4 DEF WriteVSC, StoresTypeOK

\* Recording a successful call keeps the API objects and caches well typed.
LEMMA RecordedType ==
  ASSUME IndInv, NEW c \in Calls, h[c].pc = "done", h[c].code = "OK",
         Recorded(c, h[c].obj), UNCHANGED claim
  PROVE  /\ StoresTypeOK' /\ ObjectsOK'
         /\ phase' \in [Objects -> Phases] /\ held' \subseteq Objects
  <1>1. /\ StoresTypeOK /\ ObjectsOK /\ TypeOK
        /\ phase \in [Objects -> Phases] /\ held \subseteq Objects
        /\ HandlerOK(h[c])
    BY DEF IndInv, TypeOK
  <1>2. CASE h[c].op = "CreateVolume"
    <2>1. h[c].obj \in Names /\ h[c].obj \in Objects
      BY <1>1, <1>2 DEF HandlerOK, Objects
    <2>2. VolumeContext(h[c].obj) \in VolumeAttributes
      BY <1>1, <2>1, VolumeContextType
    <2>3. StoresTypeOK'
      BY <1>1, <1>2, <2>1, <2>2, WritePVType DEF Recorded
    <2>4. ObjectsOK'
      BY <1>1, <1>2, <2>1, <2>2, ObjectAssumption
         DEF Recorded, WritePV, ObjectsOK, StoresTypeOK, PVs, Objects
    <2> QED
      BY <1>1, <1>2, <2>1, <2>3, <2>4 DEF Recorded, Created, Phases
  <1>3. CASE h[c].op = "CreateSnapshot"
    <2>1. h[c].obj \in Snaps /\ h[c].obj \in Objects /\ h[c].cid \in CIDs
      BY <1>1, <1>3 DEF HandlerOK, Objects
    <2>2. StoresTypeOK'
      BY <1>1, <1>3, <2>1, WriteVSCType DEF Recorded
    <2>3. ObjectsOK'
      BY <1>1, <1>3, <2>1, ObjectAssumption
         DEF Recorded, WriteVSC, ObjectsOK, StoresTypeOK, VSCs, Objects
    <2> QED
      BY <1>1, <1>3, <2>1, <2>2, <2>3 DEF Recorded, Created, Phases
  <1>4. CASE h[c].op = "DeleteVolume"
    <2>1. h[c].obj \in Names /\ h[c].obj \in Objects
      BY <1>1, <1>4 DEF HandlerOK, Objects
    <2>2. StoresTypeOK'
      BY <1>1, <1>4, <2>1, WritePVType DEF Recorded
    <2>3. ObjectsOK'
      BY <1>1, <1>4, <2>1, ObjectAssumption
         DEF Recorded, WritePV, ObjectsOK, StoresTypeOK, PVs, Objects
    <2> QED
      BY <1>1, <1>4, <2>1, <2>2, <2>3 DEF Recorded, Phases
  <1>5. CASE h[c].op = "DeleteSnapshot"
    <2>1. h[c].obj \in Snaps /\ h[c].obj \in Objects
      BY <1>1, <1>5 DEF HandlerOK, Objects
    <2>2. StoresTypeOK'
      BY <1>1, <1>5, <2>1, WriteVSCType DEF Recorded
    <2>3. ObjectsOK'
      BY <1>1, <1>5, <2>1, ObjectAssumption
         DEF Recorded, WriteVSC, ObjectsOK, StoresTypeOK, VSCs, Objects
    <2> QED
      BY <1>1, <1>5, <2>1, <2>2, <2>3 DEF Recorded, Phases
  <1> QED
    BY <1>2, <1>3, <1>4, <1>5 DEF Recorded

\* The sidecar's end of a call keeps the inductive invariant.
LEMMA ReplyKeepsIndInv ==
  ASSUME IndInv, NEW c \in Calls, Reply(c)
  PROVE  IndInv'
  <1>1. /\ h \in [Calls -> Handlers] /\ h' = [h EXCEPT ![c] = Idle]
        /\ h[c].pc = "done" /\ locks' = locks /\ UNCHANGED claim
    BY HandlerFacts DEF Reply
  <1>2. /\ h' \in [Calls -> Handlers]
        /\ \A d \in Calls : HandlerOK(h'[d])
    BY <1>1, IdleOK DEF IndInv, HandlerOK
  <1>3. /\ StoresTypeOK' /\ ObjectsOK'
        /\ phase' \in [Objects -> Phases] /\ held' \subseteq Objects
    <2>1. CASE h[c].code = "OK" /\ h[c].gone = "no"
      BY <1>1, <2>1, RecordedType DEF Reply
    <2>2. CASE ~(h[c].code = "OK" /\ h[c].gone = "no")
      BY <2>2 DEF Reply, IndInv, TypeOK, StoresTypeOK, ObjectsOK, storeVars
    <2> QED
      BY <2>1, <2>2
  <1>4. TypeOK'
    BY <1>2, <1>3 DEF Reply, IndInv, TypeOK, ipfsVars, IpfsTypeOK
  <1>5. LockDiscipline'
    <2>1. \A d \in Calls : /\ Holding(d)' <=> Holding(d)
                           /\ Holding(d) => h'[d].key = h[d].key
      <3>1. Idle.pc = "idle"
        BY DEF Idle
      <3> QED
        BY <1>1, <3>1, NotSteps DEF Holding
    <2> QED
      BY <1>1, <2>1 DEF IndInv, LockDiscipline
  <1> QED
    BY <1>2, <1>3, <1>4, <1>5 DEF IndInv

\* A caller that gives up keeps the inductive invariant.
LEMMA AbandonKeepsIndInv ==
  ASSUME IndInv, NEW c \in Calls, Abandon(c)
  PROVE  IndInv'
  <1> DEFINE x == [h[c] EXCEPT !.gone = "now"]
  <1>1. /\ h \in [Calls -> Handlers] /\ h[c] \in Handlers
        /\ HandlerOK(h[c])
    BY HandlerFacts
  <1>2. /\ x \in Handlers
        /\ x.pc = h[c].pc /\ x.op = h[c].op /\ x.obj = h[c].obj
        /\ x.key = h[c].key /\ x.cid = h[c].cid /\ x.path = h[c].path
        /\ x.code = h[c].code
    BY <1>1 DEF Handlers
  <1>3. h' = [h EXCEPT ![c] = x] /\ locks' = locks
    BY DEF Abandon
  <1> HIDE DEF x
  <1>4. HandlerOK(x)
    BY <1>1, <1>2 DEF HandlerOK
  <1>5. /\ h' \in [Calls -> Handlers]
        /\ \A d \in Calls : /\ HandlerOK(h'[d])
                             /\ h'[d].pc = h[d].pc /\ h'[d].key = h[d].key
    BY <1>1, <1>2, <1>3, <1>4 DEF IndInv
  <1>6. TypeOK' /\ ObjectsOK'
    BY <1>5, ControllerAssumption
       DEF Abandon, IndInv, TypeOK, ObjectsOK, ipfsVars, IpfsTypeOK, envVars,
           storeVars, StoresTypeOK
  <1>7. LockDiscipline'
    BY <1>3, <1>5 DEF IndInv, LockDiscipline, Holding
  <1> QED
    BY <1>5, <1>6, <1>7 DEF IndInv

\* A new driver process starts with no handler and no lock.
LEMMA CrashKeepsIndInv ==
  ASSUME IndInv, Crash
  PROVE  IndInv'
  <1>1. Idle \in Handlers /\ Idle.pc = "idle"
    BY IdleOK DEF HandlerOK, Idle
  <1>2. /\ h' \in [Calls -> Handlers]
        /\ \A d \in Calls : h'[d] = Idle /\ HandlerOK(h'[d])
    BY <1>1, IdleOK DEF Crash
  <1>3. locks' = {}
    BY DEF Crash, NewVolumeLocks
  <1>4. StoresTypeOK' /\ ObjectsOK'
    BY DEF Crash, StartInformers, IndInv, TypeOK, StoresTypeOK, ObjectsOK
  <1>5. TypeOK'
    BY <1>2, <1>3, <1>4, ControllerAssumption
       DEF Crash, IndInv, TypeOK, ipfsVars, IpfsTypeOK
  <1>6. LockDiscipline'
    BY <1>1, <1>2, <1>3, NotSteps DEF LockDiscipline, Holding
  <1> QED
    BY <1>2, <1>4, <1>5, <1>6 DEF IndInv

\* Neither users, nodes nor informers disturb handlers or locks.
LEMMA OthersKeepIndInv ==
  ASSUME IndInv,
         \/ \E o \in Objects : ReleaseObject(o)
         \/ \E n \in Names : NodeImport(n)
         \/ InformerStep
         \/ UNCHANGED vars
  PROVE  IndInv'
  <1>1. h' = h /\ locks' = locks
    BY DEF ReleaseObject, NodeImport, InformerStep, vars
  <1>2. TypeOK' /\ ObjectsOK'
    <2>1. ASSUME NEW o \in Objects, ReleaseObject(o)
          PROVE  TypeOK' /\ ObjectsOK'
      BY <2>1 DEF ReleaseObject, IndInv, TypeOK, ObjectsOK, ipfsVars,
                  IpfsTypeOK, storeVars, StoresTypeOK, Phases, Objects
    <2>2. ASSUME NEW n \in Names, NodeImport(n)
          PROVE  TypeOK' /\ ObjectsOK'
      <3>1. IpfsTypeOK'
        <4> DEFINE p == pv[n].mfspath
        <4>1. PICK d \in CIDs : mfs' = Imported(p, d)
          BY <2>2 DEF NodeImport
        <4>2. mfs \in [Paths -> CIDs \cup {None}] /\ pinned' \subseteq CIDs
          BY <2>2 DEF NodeImport, IndInv, TypeOK, IpfsTypeOK
        <4> HIDE DEF p
        <4> QED
          BY <4>1, <4>2, CIDsAreDirs DEF IpfsTypeOK, Imported, Made, EmptyDir
      <3>2. writes' \in 0..MaxWrites
        BY <2>2, ControllerAssumption DEF NodeImport, IndInv, TypeOK
      <3> QED
        BY <2>2, <3>1, <3>2
           DEF NodeImport, IndInv, TypeOK, ObjectsOK, storeVars, StoresTypeOK
    <2>3. CASE InformerStep
      <3>1. StoresTypeOK'
        <4>1. CASE ApplyPVEvent
          <5>1. /\ Head(pvEvents) \in PVEvents
                /\ Tail(pvEvents) \in Seq(PVEvents)
            BY <4>1 DEF ApplyPVEvent, IndInv, TypeOK, StoresTypeOK
          <5> QED
            BY <4>1, <5>1 DEF ApplyPVEvent, IndInv, TypeOK, StoresTypeOK, PVs,
                              PVEvents
        <4>2. CASE ApplyVSCEvent
          <5>1. /\ Head(vscEvents) \in VSCEvents
                /\ Tail(vscEvents) \in Seq(VSCEvents)
            BY <4>2 DEF ApplyVSCEvent, IndInv, TypeOK, StoresTypeOK
          <5> QED
            BY <4>2, <5>1 DEF ApplyVSCEvent, IndInv, TypeOK, StoresTypeOK,
                              VSCs, VSCEvents
        <4> QED
          BY <2>3, <4>1, <4>2 DEF InformerStep
      <3>2. pv' = pv /\ vsc' = vsc
        BY <2>3 DEF InformerStep, ApplyPVEvent, ApplyVSCEvent
      <3> QED
        BY <2>3, <3>1, <3>2
           DEF InformerStep, IndInv, TypeOK, ObjectsOK, ipfsVars, IpfsTypeOK
    <2>4. CASE UNCHANGED vars
      BY <2>4 DEF vars, IndInv, TypeOK, ObjectsOK, ipfsVars, IpfsTypeOK,
                  storeVars, StoresTypeOK
    <2> QED
      BY <2>1, <2>2, <2>3, <2>4
  <1>3. LockDiscipline'
    BY <1>1 DEF IndInv, LockDiscipline, Holding
  <1> QED
    BY <1>1, <1>2, <1>3 DEF IndInv

-----------------------------------------------------------------------------
(***************************************************************************)
(* The inductive invariant holds at the start, which is all it needs to    *)
(* know of: the driver has done nothing yet, though there may be snapshots *)
(* it did not take ...                                                     *)
(***************************************************************************)
Fresh ==
  /\ locks = NewVolumeLocks /\ IpfsInit /\ StoresTypeOK
  /\ pv = [n \in Names |-> None] /\ pvCache = pv /\ pvEvents = <<>>
  /\ h = [c \in Calls |-> Idle] /\ claim \in ClaimSet
  /\ phase \in [Objects -> {"wanted", "bound"}]
  /\ \A n \in Names : phase[n] = "wanted"
  /\ \A s \in Snaps : phase[s] = "bound" => vsc[s] \in CIDs
  /\ held = {} /\ faults = 0 /\ writes = 0

LEMMA InitFresh == Init => Fresh
  BY ObjectAssumption
     DEF Init, Fresh, StoresInit, StoresTypeOK, PVs, VSCs, Objects

LEMMA FreshIndInv == Fresh => IndInv
  <1> SUFFICES ASSUME Fresh PROVE IndInv
    OBVIOUS
  <1>1. /\ h \in [Calls -> Handlers]
        /\ \A c \in Calls : HandlerOK(h[c]) /\ h[c].pc = "idle"
    BY IdleOK DEF Fresh, HandlerOK, Idle
  <1>2. IpfsTypeOK
    BY DEF Fresh, IpfsInit, IpfsTypeOK
  <1>3. TypeOK /\ ObjectsOK
    BY <1>1, <1>2, ControllerAssumption
       DEF Fresh, TypeOK, ObjectsOK, NewVolumeLocks, Phases, Objects
  <1>4. LockDiscipline
    BY <1>1, NotSteps DEF Fresh, LockDiscipline, Holding, NewVolumeLocks
  <1> QED
    BY <1>1, <1>3, <1>4 DEF IndInv

LEMMA InitIndInv == Init => IndInv
  BY InitFresh, FreshIndInv

\* ... and every step keeps it.
LEMMA NextIndInv == IndInv /\ [Next]_vars => IndInv'
  <1> SUFFICES ASSUME IndInv, [Next]_vars PROVE IndInv'
    OBVIOUS
  <1>1. ASSUME NEW n \in Names, CallVolume(n)
        PROVE  IndInv'
    BY <1>1, CreateVolumeStart, DeleteVolumeStart, StartKeepsIndInv
       DEF CallVolume, CreateVolume, DeleteVolume
  <1>2. ASSUME NEW s \in Snaps, CallSnapshot(s)
        PROVE  IndInv'
    BY <1>2, CreateSnapshotStart, DeleteSnapshotStart, StartKeepsIndInv
       DEF CallSnapshot, CreateSnapshot, DeleteSnapshot
  <1>3. ASSUME NEW c \in Calls, HandlerStep(c)
        PROVE  IndInv'
    BY <1>3, CreateVolumeStepMove, DeleteVolumeStepMove,
       CreateSnapshotStepMove, DeleteSnapshotStepMove, MoveKeepsIndInv
       DEF HandlerStep
  <1>4. ASSUME NEW c \in Calls, Reply(c) \/ Abandon(c)
        PROVE  IndInv'
    BY <1>4, ReplyKeepsIndInv, AbandonKeepsIndInv
  <1>5. CASE Crash
    BY <1>5, CrashKeepsIndInv
  <1>6. CASE \/ \E n \in Names : NodeImport(n)
             \/ \E o \in Objects : ReleaseObject(o)
             \/ InformerStep
             \/ UNCHANGED vars
    BY <1>6, OthersKeepIndInv
  <1> QED
    BY <1>1, <1>2, <1>3, <1>4, <1>5, <1>6 DEF Next

(***************************************************************************)
(* The controller never leaves its types: every handler finds the fields   *)
(* it uses set, every API object and cache entry is a volume context or a  *)
(* CID, faults and writes stay within their budgets.                       *)
(***************************************************************************)
THEOREM TypeCorrect == Spec => []TypeOK
  <1>1. IndInv => TypeOK
    BY DEF IndInv
  <1> QED
    BY <1>1, InitIndInv, NextIndInv, PTL DEF Spec

(***************************************************************************)
(* VolumeLocks does its job for any number of goroutines: the set holds    *)
(* exactly the keys of the handlers between TryAcquire and Release, and    *)
(* never two handlers with one key (lock/volumelocks.go:19-52 and the      *)
(* deferred Release in each handler of controller.go).                     *)
(***************************************************************************)
THEOREM LocksExclusive == Spec => []LockDiscipline
  <1>1. IndInv => LockDiscipline
    BY DEF IndInv
  <1> QED
    BY <1>1, InitIndInv, NextIndInv, PTL DEF Spec

-----------------------------------------------------------------------------
(***************************************************************************)
(* The handlers and VolumeLocks implement a mutex per key (KeyMutex).  The *)
(* refinement mapping reads the owners of the keys off the handlers; by    *)
(* IndInv the lock set agrees with it, so that a key TryAcquire finds free *)
(* has no owner.                                                           *)
(***************************************************************************)

\* The pair of one handler.
LEMMA OwnsPair ==
  ASSUME NEW k, NEW c
  PROVE  <<k, c>> \in Owns <=> c \in Calls /\ Holding(c) /\ h[c].key = k
BY DEF Owns

\* The mapping only reads where the handlers are and their keys.
LEMMA OwnsUnchanged ==
  ASSUME \A c \in Calls : h'[c].pc = h[c].pc /\ h'[c].key = h[c].key
  PROVE  Owns' = Owns
BY DEF Owns, Holding

\* A handler that starts is refused, or acquires a key nobody owns.
LEMMA StartAcquires ==
  ASSUME IndInv, NEW c \in Calls, HandlerStart(c)
  PROVE  Mutex!Next \/ Owns' = Owns
<1>1. /\ h \in [Calls -> Handlers] /\ ~Holding(c)
      /\ \A d \in Calls : d # c => h'[d] = h[d]
  BY NotSteps DEF IndInv, TypeOK, HandlerStart, Holding
<1>2. CASE h'[c].pc = "done"
  <2>1. \A d \in Calls : Holding(d)' <=> Holding(d)
    BY <1>1, <1>2, NotSteps DEF Holding
  <2>2. \A d \in Calls : Holding(d) => h'[d] = h[d]
    BY <1>1
  <2> QED  BY <2>1, <2>2 DEF Owns
<1>3. CASE h'[c].pc \in Steps /\ h'[c].key \in Keys \ locks
  <2> DEFINE k == h'[c].key
  <2>1. \A d \in Calls : <<k, d>> \notin Owns
    BY <1>3, OwnsPair DEF IndInv, LockDiscipline
  <2>2. \A j \in Keys : <<j, c>> \notin Owns
    BY <1>1, OwnsPair
  <2>3. /\ Holding(c)'
        /\ \A d \in Calls : d # c => (Holding(d)' <=> Holding(d)) /\ h'[d].key = h[d].key
    BY <1>1, <1>3 DEF Holding
  <2>4. Owns' = Owns \cup {<<k, c>>}
    BY <1>1, <2>3 DEF Owns
  <2> QED  BY <1>3, <2>1, <2>2, <2>4 DEF Mutex!Next, Mutex!Acquire
<1> QED  BY <1>2, <1>3 DEF HandlerStart

\* A handler that moves keeps its key, or gives it back at its end.
LEMMA MoveKeepsOrReleases ==
  ASSUME IndInv, NEW c \in Calls, Holding(c), HandlerMove(c)
  PROVE  Mutex!Next \/ Owns' = Owns
<1>1. /\ h \in [Calls -> Handlers] /\ h'[c].key = h[c].key
      /\ \A d \in Calls : d # c => h'[d] = h[d]
  BY DEF IndInv, TypeOK, HandlerMove
<1>2. CASE h'[c].pc \in Steps
  <2>1. \A d \in Calls : (Holding(d)' <=> Holding(d)) /\ h'[d].key = h[d].key
    BY <1>1, <1>2 DEF Holding
  <2> QED  BY <2>1 DEF Owns
<1>3. CASE h'[c].pc = "done"
  <2>1. ~Holding(c)'
    BY <1>3, NotSteps DEF Holding
  <2>2. \A d \in Calls : d # c => (Holding(d)' <=> Holding(d)) /\ h'[d].key = h[d].key
    BY <1>1 DEF Holding
  <2>3. Owns' = Owns \ {<<h[c].key, c>>}
    BY <1>1, <2>1, <2>2 DEF Owns
  <2>4. h[c].key \in Keys
    <3>1. h[c].key \in locks
      BY DEF IndInv, LockDiscipline
    <3> QED  BY <3>1 DEF IndInv, TypeOK
  <2> QED  BY <2>3, <2>4 DEF Mutex!Next, Mutex!GiveBack
<1> QED  BY <1>2, <1>3 DEF HandlerMove

\* A delivered answer and an impatient caller leave the keys alone.
LEMMA ReplyOrAbandonStutters ==
  ASSUME IndInv, NEW c \in Calls, Reply(c) \/ Abandon(c)
  PROVE  Owns' = Owns
<1>1. h \in [Calls -> Handlers]
  BY DEF IndInv, TypeOK
<1>2. CASE Reply(c)
  <2>1. h' = [h EXCEPT ![c] = Idle] /\ h[c].pc = "done" /\ Idle.pc = "idle"
    BY <1>2 DEF Reply, Idle
  <2>2. ~Holding(c) /\ ~Holding(c)'
    BY <1>1, <2>1, NotSteps DEF Holding
  <2>3. \A d \in Calls : d # c => h'[d] = h[d]
    BY <1>1, <2>1
  <2>4. \A d \in Calls : Holding(d)' <=> Holding(d)
    BY <2>2, <2>3 DEF Holding
  <2> QED  BY <2>2, <2>3, <2>4 DEF Owns
<1>3. CASE Abandon(c)
  <2>1. h' = [h EXCEPT ![c] = [h[c] EXCEPT !.gone = "now"]] /\ h[c] \in Handlers
    BY <1>1, <1>3 DEF Abandon
  <2>2. \A d \in Calls : h'[d].pc = h[d].pc /\ h'[d].key = h[d].key
    BY <1>1, <2>1 DEF Handlers
  <2> QED  BY <2>2, OwnsUnchanged
<1> QED  BY <1>2, <1>3

\* A new process owns nothing.
LEMMA CrashFrees == Crash => Mutex!Next
<1> SUFFICES ASSUME Crash PROVE Mutex!Next
  OBVIOUS
<1>1. \A c \in Calls : ~Holding(c)'
  BY NotSteps DEF Crash, Idle, Holding
<1>2. Owns' = {}
  BY <1>1 DEF Owns
<1> QED  BY <1>2 DEF Mutex!Next, Mutex!NewProcess

\* Every step is a step of the mutex or changes nothing of it.
LEMMA NextImplementsMutex == IndInv /\ [Next]_vars => [Mutex!Next]_Owns
<1> SUFFICES ASSUME IndInv, [Next]_vars PROVE Mutex!Next \/ Owns' = Owns
  OBVIOUS
<1>1. ASSUME NEW n \in Names, CallVolume(n) PROVE Mutex!Next \/ Owns' = Owns
  BY <1>1, CreateVolumeStart, DeleteVolumeStart, StartAcquires DEF CallVolume
<1>2. ASSUME NEW s \in Snaps, CallSnapshot(s) PROVE Mutex!Next \/ Owns' = Owns
  BY <1>2, CreateSnapshotStart, DeleteSnapshotStart, StartAcquires DEF CallSnapshot
<1>3. ASSUME NEW c \in Calls, HandlerStep(c) PROVE Mutex!Next \/ Owns' = Owns
  BY <1>3, CreateVolumeStepMove, DeleteVolumeStepMove, CreateSnapshotStepMove,
     DeleteSnapshotStepMove, MoveKeepsOrReleases DEF HandlerStep
<1>4. ASSUME NEW c \in Calls, Reply(c) \/ Abandon(c) PROVE Owns' = Owns
  BY <1>4, ReplyOrAbandonStutters
<1>5. CASE Crash
  BY <1>5, CrashFrees
<1>6. CASE \/ \E n \in Names : NodeImport(n)
           \/ \E o \in Objects : ReleaseObject(o)
           \/ InformerStep
           \/ UNCHANGED vars
  <2>1. h' = h
    BY <1>6 DEF NodeImport, ReleaseObject, InformerStep, vars
  <2> QED  BY <2>1, OwnsUnchanged
<1> QED  BY <1>1, <1>2, <1>3, <1>4, <1>5, <1>6 DEF Next

(***************************************************************************)
(* VolumeLocks with the handlers that use it (lock/volumelocks.go:19-52,   *)
(* the TryAcquire and deferred Release of each RPC) implements a mutex per *)
(* key: given to one operation at a time, kept from step to step, given    *)
(* back at its end whichever way it ends.                                  *)
(***************************************************************************)
THEOREM LocksImplementMutex == Spec => ImplementsMutex
<1>1. Init => Mutex!Init
  <2> SUFFICES ASSUME Init PROVE Mutex!Init
    OBVIOUS
  <2>1. \A c \in Calls : ~Holding(c)
    BY NotSteps DEF Init, Idle, Holding
  <2> QED  BY <2>1 DEF Mutex!Init, Owns
<1> QED
  BY <1>1, InitIndInv, NextIndInv, NextImplementsMutex, PTL
     DEF Spec, ImplementsMutex, Mutex!Spec

=============================================================================
