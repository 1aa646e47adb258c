----------------------------- MODULE PinProofs ------------------------------
(***************************************************************************)
(* Who keeps a CID pinned, for any number of volumes and snapshots that    *)
(* share it: with calls one after the other and the snapshot store at      *)
(* hand, no deletion takes the pin another owner relies on, and pins and   *)
(* trees are lost or left behind by failures only, one by each.            *)
(***************************************************************************)
EXTENDS VolumeProofs, FiniteSetTheorems, SequenceTheorems

-----------------------------------------------------------------------------
(***************************************************************************)
(* The inductive invariant.                                                *)
(***************************************************************************)

\* One handler at a time, and it finds the caches current.
Serial ==
  \A c \in Calls :
    h[c].pc # "idle" =>
      CachesCurrent /\ \A d \in Calls : h[d].pc # "idle" => d = c

\* A cache is what the API has, but for one event under way.
CachesOK ==
  /\ \/ pvEvents = <<>> /\ pvCache = pv
     \/ /\ Len(pvEvents) = 1
        /\ [pvCache EXCEPT ![pvEvents[1].name] = pvEvents[1].obj] = pv
  /\ \/ vscEvents = <<>> /\ vscCache = vsc
     \/ /\ Len(vscEvents) = 1
        /\ [vscCache EXCEPT ![vscEvents[1].name] = vscEvents[1].obj] = vsc

\* Of the volumes, only those by CID with pinning on have pinned anything.
HeldOK ==
  /\ \A o \in held : phase[o] # "wanted"
  /\ \A o \in held \cap Names : claim[o].cid # None /\ claim[o].pinning

\* A pin that succeeded is there when its handler returns.
PinnedOK(c) ==
  /\ h[c].pc \in {"cv_StatCID", "cv_PinCID"} => h[c].cid = claim[h[c].obj].cid
  /\ h[c].pc = "cv_PinCID" => claim[h[c].obj].pinning
  /\ h[c].pinok
       => /\ h[c].pc = "done" /\ h[c].cid \in pinned
          /\ h[c].op = "CreateVolume"
               => /\ h[c].cid = claim[h[c].obj].cid /\ h[c].cid # None
                  /\ claim[h[c].obj].pinning

\* The bound objects that count on a pin of d.
Dependents(d) == {o \in held : phase[o] = "bound" /\ OwnCID(o) = d}

\* What a deletion has found out by the time it asks, or unpins.
CountedOK(c) ==
  /\ h[c].pc \in DeleteSnapshotSteps => h[c].cid = vsc[h[c].obj]
  /\ h[c].pc \in {"dv_ListSnapshots", "ds_ListSnapshots"} /\ ~h[c].refs
       => Dependents(h[c].cid) \cap Names = {}
  /\ h[c].pc \in {"dv_UnpinCID", "ds_UnpinCID"} => Dependents(h[c].cid) = {}

PinInv ==
  /\ Serial
  /\ CachesOK
  /\ HeldOK
  /\ PinSafety
  /\ \A c \in Calls : PinnedOK(c) /\ CountedOK(c)

-----------------------------------------------------------------------------
(***************************************************************************)
(* What the counts of cidReferenceUsage say.                               *)
(***************************************************************************)

\* volumeRefs of 0: no other cached volume pins the CID.
LEMMA NoVolumeRefs ==
  ASSUME NEW d, NEW x, ~(volumeRefs(d, x) > 0), NEW n \in Names,
         pvCache[n] # None, pvCache[n].handle # x
  PROVE  ~(pvCache[n].cid = d /\ pvCache[n].pinning)
  <1> DEFINE S == {m \in Names : /\ pvCache[m] # None
                                 /\ pvCache[m].handle # x
                                 /\ pvCache[m].cid = d
                                 /\ pvCache[m].pinning}
  <1>1. IsFiniteSet(S)
    BY ObjectAssumption, FS_Subset
  <1>2. Cardinality(S) \in Nat /\ (Cardinality(S) = 0 <=> S = {})
    BY <1>1, FS_CardinalityType, FS_EmptySet
  <1>3. ~(Cardinality(S) > 0)
    BY DEF volumeRefs
  <1>4. S = {}
    BY <1>2, <1>3
  <1> QED
    BY <1>4

\* snapshotRefs of 0, none excluded: no cached snapshot has the CID ...
LEMMA NoSnapshotRefs ==
  ASSUME NEW d, ~(snapshotRefs(d, FALSE) > 0), NEW s \in Snaps
  PROVE  vscCache[s] # d
  <1> DEFINE S == {t \in Snaps : vscCache[t] = d}
  <1>1. IsFiniteSet(S)
    BY ObjectAssumption, FS_Subset
  <1>2. Cardinality(S) \in Nat /\ (Cardinality(S) = 0 <=> S = {})
    BY <1>1, FS_CardinalityType, FS_EmptySet
  <1>3. ~(Cardinality(S) > 0)
    BY DEF snapshotRefs
  <1>4. S = {}
    BY <1>2, <1>3
  <1> QED
    BY <1>4

\* ... and with one excluded: at most that one has.
LEMMA OnlyOwnSnapshot ==
  ASSUME NEW d, ~(snapshotRefs(d, TRUE) > 0),
         NEW s \in Snaps, NEW t \in Snaps, vscCache[s] = d, vscCache[t] = d
  PROVE  s = t
  <1> SUFFICES ASSUME s # t PROVE FALSE
    OBVIOUS
  <1> DEFINE S == {u \in Snaps : vscCache[u] = d}
  <1>1. IsFiniteSet(S)
    BY ObjectAssumption, FS_Subset
  <1>2. IsFiniteSet({s}) /\ Cardinality({s}) = 1
    BY FS_Singleton
  <1>3. Cardinality({s} \cup {t}) = 2
    BY <1>2, FS_AddElement
  <1>4. {s} \cup {t} \subseteq S
    OBVIOUS
  <1>5. Cardinality({s} \cup {t}) <= Cardinality(S) /\ Cardinality(S) \in Nat
    BY <1>1, <1>4, FS_Subset, FS_CardinalityType
  <1>6. ~((IF TRUE /\ Cardinality(S) > 0 THEN Cardinality(S) - 1 ELSE Cardinality(S)) > 0)
    BY DEF snapshotRefs
  <1> HIDE DEF S
  <1> QED
    BY <1>3, <1>5, <1>6

-----------------------------------------------------------------------------
(***************************************************************************)
(* A handler's step, as far as pins go.                                    *)
(***************************************************************************)
Watched == {"cv_StatCID", "cv_PinCID", "dv_ListSnapshots", "dv_UnpinCID"}
           \cup DeleteSnapshotSteps

PinMoves(c) ==
  LET d == h[c].cid
      moves(from, to) ==
        /\ h[c].pc = from /\ h'[c].pc = to /\ h'[c].cid = d
        /\ pinned' = pinned /\ ~h'[c].pinok
  IN  \/ h'[c].pc \notin Watched /\ pinned' = pinned /\ ~h'[c].pinok
      \/ moves("cv_StatCID", "cv_PinCID") /\ claim[h[c].obj].pinning
      \/ /\ h[c].pc \in {"cv_PinCID", "cs_PinCID"} /\ h'[c].pc = "done"
         /\ h'[c].cid = d /\ pinned \subseteq pinned'
         /\ h'[c].pinok => d \in pinned'
      \/ /\ moves("dv_ListVolumes", "dv_ListSnapshots")
         /\ volumeRefs(d, h[c].key[2]) > 0 => h'[c].refs
      \/ /\ moves("ds_ListVolumes", "ds_ListSnapshots")
         /\ volumeRefs(d, None) > 0 => h'[c].refs
      \/ /\ moves("dv_ListSnapshots", "dv_UnpinCID")
         /\ ~h[c].refs /\ ~(snapshotRefs(d, FALSE) > 0)
      \/ /\ moves("ds_ListSnapshots", "ds_UnpinCID")
         /\ ~h[c].refs /\ ~(snapshotRefs(d, TRUE) > 0)
      \/ /\ h[c].pc \in {"dv_UnpinCID", "ds_UnpinCID"}
         /\ h'[c].pc \in {"dv_RmMFS", "done"} /\ ~h'[c].pinok
         /\ pinned' \in {pinned, pinned \ {d}}

\* A handler that goes on, or returns, with the CID and pin it has.
LEMMA PinFields ==
  ASSUME IndInv, NEW c \in Calls, NEW r \in Handlers
  PROVE  /\ \A pc \in Steps :
              Goto(c, pc, r) => /\ h'[c].pc = pc /\ h'[c].cid = r.cid
                                /\ h'[c].pinok = r.pinok
         /\ \A code \in Codes :
              Finish(c, code, r) => /\ h'[c].pc = "done" /\ h'[c].cid = r.cid
                                    /\ h'[c].pinok = r.pinok
  BY HandlerFacts, GotoFields, FinishFields

\* Where a handler that goes on is not watched.
LEMMA Unwatched ==
  /\ "done" \notin Watched
  /\ \A pc \in {"rs_StatCID", "rs_GetCIDContent", "rs_RmMFS", "rs_MkdirMFS",
                "rs_cpMFS", "dv_ListVolumes", "dv_RmMFS", "cs_ResolveMFSCID",
                "cs_PinCID"} : pc \notin Watched /\ pc \in Steps
  /\ \A pc \in {"cv_PinCID", "dv_ListSnapshots", "dv_UnpinCID",
                "ds_ListSnapshots", "ds_UnpinCID"} : pc \in Steps
  BY DEF Watched, Steps, CreateVolumeSteps, RestoreSteps, DeleteVolumeSteps,
         CreateSnapshotSteps, DeleteSnapshotSteps

\* A step that neither pins, unpins nor counts.
LEMMA PlainMove ==
  ASSUME IndInv, NEW c \in Calls, ~h[c].pinok, pinned' = pinned,
         \/ \E code \in Codes : Finish(c, code, h[c])
         \/ \E pc \in Steps \ Watched : \E r \in Handlers :
              r.pinok = h[c].pinok /\ Goto(c, pc, r)
  PROVE  PinMoves(c)
  <1>1. h[c] \in Handlers
    BY HandlerFacts
  <1>2. h'[c].pc \notin Watched /\ h'[c].pinok = h[c].pinok
    BY <1>1, PinFields, Unwatched
  <1> QED
    BY <1>2 DEF PinMoves

LEMMA CreateVolumePins ==
  ASSUME IndInv, NEW c \in Calls, ~h[c].pinok, CreateVolumeStep(c)
  PROVE  PinMoves(c)
  <1>0. h[c] \in Handlers
    BY HandlerFacts
  <1>1. CASE cv_StatCID(c)
    <2>1. pinned' = pinned
      BY <1>1 DEF cv_StatCID, ipfsVars
    <2>2. CASE \E code \in Codes : Finish(c, code, h[c])
      BY <2>1, <2>2, PlainMove
    <2>3. CASE Goto(c, "cv_PinCID", h[c]) /\ claim[h[c].obj].pinning
      <3>1. h'[c].pc = "cv_PinCID" /\ h'[c].cid = h[c].cid /\ h'[c].pinok = h[c].pinok
        BY <1>0, <2>3, PinFields, Unwatched
      <3> QED
        BY <1>1, <2>1, <2>3, <3>1 DEF PinMoves, cv_StatCID
    <2> QED
      BY <1>1, <2>2, <2>3 DEF cv_StatCID, Codes
  <1>2. CASE cv_PinCID(c)
    <2>1. PICK o \in Outcomes :
            /\ PinCID(h[c].cid, o)
            /\ IF o = "ok" THEN Finish(c, "OK", [h[c] EXCEPT !.pinok = TRUE])
               ELSE \E code \in Codes : Finish(c, code, h[c])
      BY <1>2 DEF cv_PinCID, Codes
    <2>2. pinned \subseteq pinned' /\ (o = "ok" => h[c].cid \in pinned')
      BY <2>1 DEF PinCID
    <2>3. CASE o = "ok"
      <3> DEFINE r == [h[c] EXCEPT !.pinok = TRUE]
      <3>1. r \in Handlers /\ r.cid = h[c].cid
        BY <1>0 DEF Handlers
      <3>2. Finish(c, "OK", r)
        BY <2>1, <2>3
      <3> HIDE DEF r
      <3>3. h'[c].pc = "done" /\ h'[c].cid = h[c].cid
        BY <3>1, <3>2, PinFields DEF Codes
      <3> QED
        BY <1>2, <2>2, <2>3, <3>3 DEF PinMoves, cv_PinCID
    <2>4. CASE o # "ok"
      <3>1. h'[c].pc = "done" /\ h'[c].cid = h[c].cid /\ h'[c].pinok = h[c].pinok
        BY <1>0, <2>1, <2>4, PinFields
      <3> QED
        BY <1>2, <2>2, <3>1 DEF PinMoves, cv_PinCID
    <2> QED
      BY <2>3, <2>4
  <1>3. CASE rs_GetCIDContent(c)
    <2>1. pinned' = pinned
      BY <1>3 DEF rs_GetCIDContent, ipfsVars
    <2>2. CASE Finish(c, "Internal", h[c])
      BY <2>1, <2>2, PlainMove DEF Codes
    <2>3. CASE Goto(c, "rs_RmMFS", [h[c] EXCEPT !.todo = h[c].cid])
      <3> DEFINE r == [h[c] EXCEPT !.todo = h[c].cid]
      <3>1. h[c].cid \in CIDs
        BY <1>3, HandlerFacts DEF rs_GetCIDContent, HandlerOK, RestoreSteps
      <3>2. r \in Handlers /\ r.pinok = h[c].pinok
        BY <1>0, <3>1, CIDsAreDirs DEF Handlers
      <3>3. Goto(c, "rs_RmMFS", r)
        BY <2>3
      <3> HIDE DEF r
      <3> QED
        BY <2>1, <3>2, <3>3, PlainMove, Unwatched
    <2> QED
      BY <1>3, <2>2, <2>3 DEF rs_GetCIDContent
  <1>4. CASE rs_cpMFS(c)
    <2>1. pinned' = pinned
      BY <1>4 DEF rs_cpMFS
    <2>2. CASE \E code \in Codes : Finish(c, code, h[c])
      BY <2>1, <2>2, PlainMove
    <2>3. ASSUME NEW f, Goto(c, "rs_cpMFS", [h[c] EXCEPT !.todo = @ \ {f}])
          PROVE  PinMoves(c)
      <3> DEFINE r == [h[c] EXCEPT !.todo = @ \ {f}]
      <3>1. r \in Handlers /\ r.pinok = h[c].pinok
        BY <1>0 DEF Handlers
      <3>2. Goto(c, "rs_cpMFS", r)
        BY <2>3
      <3> HIDE DEF r
      <3> QED
        BY <2>1, <3>1, <3>2, PlainMove, Unwatched
    <2> QED
      BY <1>4, <2>2, <2>3 DEF rs_cpMFS, Codes
  <1>5. CASE cv_MkdirMFS(c) \/ rs_StatCID(c) \/ rs_RmMFS(c) \/ rs_MkdirMFS(c)
    <2>1. pinned' = pinned
      BY <1>5 DEF cv_MkdirMFS, rs_StatCID, rs_RmMFS, rs_MkdirMFS, ipfsVars
    <2>2. \/ \E code \in Codes : Finish(c, code, h[c])
          \/ \E pc \in {"rs_StatCID", "rs_GetCIDContent", "rs_MkdirMFS", "rs_cpMFS"} :
               Goto(c, pc, h[c])
      BY <1>5 DEF cv_MkdirMFS, rs_StatCID, rs_RmMFS, rs_MkdirMFS, Codes
    <2> QED
      BY <1>0, <2>1, <2>2, PlainMove, Unwatched
  <1> QED
    BY <1>1, <1>2, <1>3, <1>4, <1>5 DEF CreateVolumeStep

\* The lists of volumes: the count is remembered.
LEMMA CountFields ==
  ASSUME IndInv, NEW c \in Calls, NEW pc \in Steps, NEW b \in BOOLEAN,
         Goto(c, pc, [h[c] EXCEPT !.refs = b])
  PROVE  /\ h'[c].pc = pc /\ h'[c].cid = h[c].cid
         /\ h'[c].pinok = h[c].pinok /\ h'[c].refs = b
  <1> DEFINE r == [h[c] EXCEPT !.refs = b]
             x == [r EXCEPT !.pc = pc, !.gone = nextCall(@)]
  <1>1. h[c] \in Handlers /\ h \in [Calls -> Handlers]
    BY HandlerFacts
  <1>2. r \in Handlers /\ r.cid = h[c].cid /\ r.pinok = h[c].pinok /\ r.refs = b
    BY <1>1 DEF Handlers
  <1>3. h' = [h EXCEPT ![c] = x]
    BY DEF Goto
  <1> HIDE DEF r
  <1>4. x.pc = pc /\ x.cid = r.cid /\ x.pinok = r.pinok /\ x.refs = r.refs
    BY <1>2 DEF Handlers
  <1> HIDE DEF x
  <1> QED
    BY <1>1, <1>2, <1>3, <1>4

LEMMA DeleteVolumePins ==
  ASSUME IndInv, SnapshotStore, NEW c \in Calls, ~h[c].pinok, DeleteVolumeStep(c)
  PROVE  PinMoves(c)
  <1>0. h[c] \in Handlers
    BY HandlerFacts
  <1>1. CASE dv_GetVolumeAttributes(c)
    <2>1. pinned' = pinned
      BY <1>1 DEF dv_GetVolumeAttributes, ipfsVars
    <2>2. CASE Finish(c, "OK", h[c])
      BY <2>1, <2>2, PlainMove DEF Codes
    <2>3. ASSUME NEW a \in GetVolumeAttributes(h[c].key[2]),
                 NEW pc \in {"dv_ListVolumes", "dv_RmMFS"},
                 Goto(c, pc, [h[c] EXCEPT !.cid = IF a.pinning THEN a.cid ELSE None,
                                !.path = IF a.mfspath # None /\ ~a.readonly
                                         THEN Clean[a.mfspath] ELSE None])
          PROVE  PinMoves(c)
      <3> DEFINE d == IF a.pinning THEN a.cid ELSE None
                 p == IF a.mfspath # None /\ ~a.readonly THEN Clean[a.mfspath] ELSE None
                 r == [h[c] EXCEPT !.cid = d, !.path = p]
      <3>1. a \in VolumeAttributes
        BY AttributesType, HandlerFacts
      <3>2. d \in CIDs \cup {None}
        BY <3>1 DEF VolumeAttributes
      <3>3. p \in Paths \cup {None}
        BY <3>1, PathAssumption DEF VolumeAttributes
      <3>4. Goto(c, pc, r)
        BY <2>3
      <3> HIDE DEF d, p
      <3>5. r \in Handlers /\ r.pinok = h[c].pinok
        BY <1>0, <3>2, <3>3 DEF Handlers
      <3> HIDE DEF r
      <3> QED
        BY <2>1, <3>4, <3>5, PlainMove, Unwatched
    <2> QED
      BY <1>1, <2>2, <2>3 DEF dv_GetVolumeAttributes
  <1>2. CASE dv_ListVolumes(c)
    <2> DEFINE b == volumeRefs(h[c].cid, h[c].key[2]) > 0
    <2>1. /\ Goto(c, "dv_ListSnapshots", [h[c] EXCEPT !.refs = b])
          /\ pinned' = pinned /\ h[c].pc = "dv_ListVolumes"
      BY <1>2 DEF dv_ListVolumes, ipfsVars
    <2>2. b \in BOOLEAN
      OBVIOUS
    <2> HIDE DEF b
    <2>3. /\ h'[c].pc = "dv_ListSnapshots" /\ h'[c].cid = h[c].cid
          /\ h'[c].pinok = h[c].pinok /\ h'[c].refs = b
      BY <2>1, <2>2, CountFields, Unwatched
    <2> QED
      BY <2>1, <2>3 DEF PinMoves, b
  <1>3. CASE dv_ListSnapshots(c)
    <2>1. pinned' = pinned /\ h[c].pc = "dv_ListSnapshots"
      BY <1>3 DEF dv_ListSnapshots, ipfsVars
    <2>2. CASE Goto(c, "dv_RmMFS", h[c])
      BY <1>0, <2>1, <2>2, PlainMove, Unwatched
    <2>3. CASE /\ Goto(c, "dv_UnpinCID", h[c])
               /\ ~h[c].refs /\ ~(snapshotRefs(h[c].cid, FALSE) > 0)
      <3>1. h'[c].pc = "dv_UnpinCID" /\ h'[c].cid = h[c].cid /\ h'[c].pinok = h[c].pinok
        BY <1>0, <2>3, PinFields, Unwatched
      <3> QED
        BY <2>1, <2>3, <3>1 DEF PinMoves
    <2> QED
      BY <1>3, <2>2, <2>3 DEF dv_ListSnapshots
  <1>4. CASE dv_UnpinCID(c)
    <2>1. pinned' \in {pinned, pinned \ {h[c].cid}} /\ h[c].pc = "dv_UnpinCID"
      BY <1>4 DEF dv_UnpinCID, UnpinCID
    <2>2. h'[c].pc = "dv_RmMFS" /\ h'[c].pinok = h[c].pinok
      BY <1>0, <1>4, PinFields, Unwatched DEF dv_UnpinCID
    <2> QED
      BY <2>1, <2>2 DEF PinMoves
  <1>5. CASE dv_RmMFS(c)
    <2>1. pinned' = pinned /\ Finish(c, "OK", h[c])
      BY <1>5 DEF dv_RmMFS
    <2> QED
      BY <2>1, PlainMove DEF Codes
  <1> QED
    BY <1>1, <1>2, <1>3, <1>4, <1>5 DEF DeleteVolumeStep

LEMMA CreateSnapshotPins ==
  ASSUME IndInv, NEW c \in Calls, ~h[c].pinok, CreateSnapshotStep(c)
  PROVE  PinMoves(c)
  <1>0. h[c] \in Handlers
    BY HandlerFacts
  <1>1. CASE cs_GetVolumeAttributes(c)
    <2>1. pinned' = pinned
      BY <1>1 DEF cs_GetVolumeAttributes, ipfsVars
    <2>2. CASE \E code \in Codes : Finish(c, code, h[c])
      BY <2>1, <2>2, PlainMove
    <2>3. ASSUME NEW p \in Paths,
                 Goto(c, "cs_ResolveMFSCID", [h[c] EXCEPT !.path = p])
          PROVE  PinMoves(c)
      <3> DEFINE r == [h[c] EXCEPT !.path = p]
      <3>1. r \in Handlers /\ r.pinok = h[c].pinok
        BY <1>0 DEF Handlers
      <3>2. Goto(c, "cs_ResolveMFSCID", r)
        BY <2>3
      <3> HIDE DEF r
      <3> QED
        BY <2>1, <3>1, <3>2, PlainMove, Unwatched
    <2>4. \A a \in GetVolumeAttributes(sanitizeVolumeID[SourceOf[h[c].obj]]) :
            a.mfspath # None => Clean[a.mfspath] \in Paths
      BY AttributesType, HandlerFacts, PathAssumption DEF VolumeAttributes
    <2> QED
      BY <1>1, <2>2, <2>3, <2>4 DEF cs_GetVolumeAttributes, Codes
  <1>2. CASE cs_ResolveMFSCID(c)
    <2>1. pinned' = pinned
      BY <1>2 DEF cs_ResolveMFSCID, ipfsVars
    <2>2. CASE Finish(c, "Internal", h[c])
      BY <2>1, <2>2, PlainMove DEF Codes
    <2>3. ASSUME NEW d \in CIDs, Goto(c, "cs_PinCID", [h[c] EXCEPT !.cid = d])
          PROVE  PinMoves(c)
      <3> DEFINE r == [h[c] EXCEPT !.cid = d]
      <3>1. r \in Handlers /\ r.pinok = h[c].pinok
        BY <1>0 DEF Handlers
      <3>2. Goto(c, "cs_PinCID", r)
        BY <2>3
      <3> HIDE DEF r
      <3> QED
        BY <2>1, <3>1, <3>2, PlainMove, Unwatched
    <2>4. ResolveMFSCID(h[c].path) # None => ResolveMFSCID(h[c].path) \in CIDs
      BY <1>2, HandlerFacts
         DEF ResolveMFSCID, IpfsTypeOK, cs_ResolveMFSCID, HandlerOK
    <2> QED
      BY <1>2, <2>2, <2>3, <2>4 DEF cs_ResolveMFSCID
  <1>3. CASE cs_PinCID(c)
    <2>1. PICK o \in Outcomes :
            /\ PinCID(h[c].cid, o)
            /\ Finish(c, "OK", [h[c] EXCEPT !.pinok = (o = "ok")])
      BY <1>3 DEF cs_PinCID
    <2> DEFINE b == (o = "ok")
               r == [h[c] EXCEPT !.pinok = b]
    <2>2. Finish(c, "OK", r) /\ b \in BOOLEAN
      BY <2>1
    <2>3. pinned \subseteq pinned' /\ (b => h[c].cid \in pinned')
      BY <2>1 DEF PinCID
    <2> HIDE DEF b
    <2>4. r \in Handlers /\ r.cid = h[c].cid /\ r.pinok = b
      BY <1>0, <2>2 DEF Handlers
    <2> HIDE DEF r
    <2>5. h'[c].pc = "done" /\ h'[c].cid = h[c].cid /\ h'[c].pinok = b
      BY <2>2, <2>4, PinFields DEF Codes
    <2> QED
      BY <1>3, <2>3, <2>5 DEF PinMoves, cs_PinCID
  <1> QED
    BY <1>1, <1>2, <1>3 DEF CreateSnapshotStep

LEMMA DeleteSnapshotPins ==
  ASSUME IndInv, SnapshotStore, NEW c \in Calls, ~h[c].pinok, DeleteSnapshotStep(c)
  PROVE  PinMoves(c)
  <1>0. h[c] \in Handlers
    BY HandlerFacts
  <1>1. CASE ds_ListVolumes(c)
    <2> DEFINE b == volumeRefs(h[c].cid, None) > 0
    <2>1. /\ Goto(c, "ds_ListSnapshots", [h[c] EXCEPT !.refs = b])
          /\ pinned' = pinned /\ h[c].pc = "ds_ListVolumes"
      BY <1>1 DEF ds_ListVolumes, ipfsVars
    <2>2. b \in BOOLEAN
      OBVIOUS
    <2> HIDE DEF b
    <2>3. /\ h'[c].pc = "ds_ListSnapshots" /\ h'[c].cid = h[c].cid
          /\ h'[c].pinok = h[c].pinok /\ h'[c].refs = b
      BY <2>1, <2>2, CountFields, Unwatched
    <2> QED
      BY <2>1, <2>3 DEF PinMoves, b
  <1>2. CASE ds_ListSnapshots(c)
    <2>1. pinned' = pinned /\ h[c].pc = "ds_ListSnapshots"
      BY <1>2 DEF ds_ListSnapshots, ipfsVars
    <2>2. CASE Finish(c, "OK", h[c])
      BY <2>1, <2>2, PlainMove DEF Codes
    <2>3. CASE /\ Goto(c, "ds_UnpinCID", h[c])
               /\ ~h[c].refs /\ ~(snapshotRefs(h[c].cid, TRUE) > 0)
      <3>1. h'[c].pc = "ds_UnpinCID" /\ h'[c].cid = h[c].cid /\ h'[c].pinok = h[c].pinok
        BY <1>0, <2>3, PinFields, Unwatched
      <3> QED
        BY <2>1, <2>3, <3>1 DEF PinMoves
    <2> QED
      BY <1>2, <2>2, <2>3 DEF ds_ListSnapshots
  <1>3. CASE ds_UnpinCID(c)
    <2>1. pinned' \in {pinned, pinned \ {h[c].cid}} /\ h[c].pc = "ds_UnpinCID"
      BY <1>3 DEF ds_UnpinCID, UnpinCID
    <2>2. h'[c].pc = "done" /\ h'[c].pinok = h[c].pinok
      BY <1>0, <1>3, PinFields DEF ds_UnpinCID, Codes
    <2> QED
      BY <2>1, <2>2 DEF PinMoves
  <1> QED
    BY <1>1, <1>2, <1>3 DEF DeleteSnapshotStep

-----------------------------------------------------------------------------
(***************************************************************************)
(* What a deletion finds in current caches.                                *)
(***************************************************************************)

\* Current caches are the API's content.
LEMMA CurrentCaches ==
  ASSUME CachesOK, CachesCurrent
  PROVE  pvCache = pv /\ vscCache = vsc
  <1>1. Len(pvEvents) = 0 /\ Len(vscEvents) = 0
    BY DEF CachesCurrent
  <1> QED
    BY <1>1 DEF CachesOK

\* The volumes that depend on a pin are cached, pin the CID and have IDs.
LEMMA DependentVolume ==
  ASSUME VolumeInv, HeldOK, NEW n \in Names, n \in held, phase[n] = "bound"
  PROVE  /\ pv[n] # None /\ pv[n].handle = sanitizeVolumeID[n]
         /\ pv[n].handle # None /\ pv[n].pinning
  <1>1. pv[n] = VolumeContext(n) /\ pv[n] \in VolumeAttributes
    BY DEF VolumeInv, IndInv, ObjectsOK, OwnersInv, ContextsOK
  <1>2. pv[n] # None
    BY <1>1, AttributesAssumption
  <1>3. VolumeContext(n).handle = sanitizeVolumeID[n]
    BY ContextFields
  <1>4. sanitizeVolumeID[n] # None
    BY PathAssumption, NoneAssumption
  <1>5. VolumeContext(n).pinning
    BY DEF VolumeContext, HeldOK
  <1> QED
    BY <1>1, <1>2, <1>3, <1>4, <1>5

\* No volume counted: none depends on the pin.
LEMMA VolumesCounted ==
  ASSUME VolumeInv, PinInv, DistinctIDs, NEW c \in Calls,
         \/ /\ h[c].pc = "dv_ListVolumes"
            /\ ~(volumeRefs(h[c].cid, h[c].key[2]) > 0)
         \/ /\ h[c].pc = "ds_ListVolumes"
            /\ ~(volumeRefs(h[c].cid, None) > 0)
  PROVE  Dependents(h[c].cid) \cap Names = {}
  <1> SUFFICES ASSUME NEW n \in Names, n \in held, phase[n] = "bound",
                      pv[n].cid = h[c].cid
               PROVE  FALSE
    BY DEF Dependents, OwnCID
  <1>1. pvCache = pv
    BY CurrentCaches DEF PinInv, Serial
  <1>2. /\ pvCache[n] # None /\ pvCache[n].handle = sanitizeVolumeID[n]
        /\ pvCache[n].handle # None /\ pvCache[n].pinning
    BY <1>1, DependentVolume DEF PinInv
  <1>3. CASE h[c].pc = "dv_ListVolumes" /\ ~(volumeRefs(h[c].cid, h[c].key[2]) > 0)
    <2>1. h[c].op = "DeleteVolume" /\ h[c].obj \in Names /\ Holding(c)
      BY <1>3, HandlerFacts
         DEF VolumeInv, HandlerOK, DeleteVolumeSteps, Holding, Steps
    <2>2. h[c].key = VolumeKey(sanitizeVolumeID[h[c].obj])
      BY <2>1 DEF VolumeInv, OwnersInv, KeysOK
    <2>3. h[c].key[2] = sanitizeVolumeID[h[c].obj]
      BY <2>2 DEF VolumeKey
    <2>4. h[c].obj # n
      BY <2>1 DEF VolumeInv, OwnersInv, PhasesOK
    <2>5. pvCache[n].handle # h[c].key[2]
      BY <1>2, <2>1, <2>3, <2>4 DEF DistinctIDs
    <2> QED
      BY <1>1, <1>2, <1>3, <2>5, NoVolumeRefs
  <1>4. CASE h[c].pc = "ds_ListVolumes" /\ ~(volumeRefs(h[c].cid, None) > 0)
    BY <1>1, <1>2, <1>4, NoVolumeRefs
  <1> QED
    BY <1>3, <1>4

\* No snapshot counted either, but perhaps the one deleted.
LEMMA SnapshotsCounted ==
  ASSUME VolumeInv, PinInv, NEW c \in Calls,
         \/ /\ h[c].pc = "dv_ListSnapshots"
            /\ ~(snapshotRefs(h[c].cid, FALSE) > 0)
         \/ /\ h[c].pc = "ds_ListSnapshots"
            /\ ~(snapshotRefs(h[c].cid, TRUE) > 0)
  PROVE  Dependents(h[c].cid) \cap Snaps = {}
  <1> SUFFICES ASSUME NEW s \in Snaps, phase[s] = "bound", vsc[s] = h[c].cid
               PROVE  FALSE
    BY ObjectAssumption DEF Dependents, OwnCID
  <1>1. vscCache = vsc
    BY CurrentCaches DEF PinInv, Serial
  <1>2. CASE h[c].pc = "dv_ListSnapshots" /\ ~(snapshotRefs(h[c].cid, FALSE) > 0)
    BY <1>1, <1>2, NoSnapshotRefs
  <1>3. CASE h[c].pc = "ds_ListSnapshots" /\ ~(snapshotRefs(h[c].cid, TRUE) > 0)
    <2>1. h[c].op = "DeleteSnapshot" /\ h[c].obj \in Snaps
      BY <1>3, HandlerFacts DEF VolumeInv, HandlerOK, DeleteSnapshotSteps
    <2>2. vsc[h[c].obj] = h[c].cid
      BY <1>3 DEF PinInv, CountedOK, DeleteSnapshotSteps
    <2>3. h[c].obj # s
      BY <2>1 DEF VolumeInv, OwnersInv, PhasesOK
    <2> QED
      BY <1>1, <1>3, <2>1, <2>2, <2>3, OnlyOwnSnapshot
  <1> QED
    BY <1>2, <1>3

-----------------------------------------------------------------------------
(***************************************************************************)
(* The steps.                                                              *)
(***************************************************************************)

\* Objects, caches and claims as they were.
LEMMA SameObjects ==
  ASSUME UNCHANGED <<pv, vsc, phase, held>>
  PROVE  \A d : Dependents(d)' = Dependents(d)
  BY DEF Dependents, OwnCID

\* A step of the one handler there is.
LEMMA PinStep ==
  ASSUME VolumeInv, PinInv, SnapshotStore, DistinctIDs, NEW c \in Calls,
         HandlerStep(c)
  PROVE  PinInv'
  <1>1. /\ Holding(c) /\ HandlerMove(c)
        /\ \A d \in Calls \ {c} : h'[d] = h[d]
        /\ UNCHANGED <<storeVars, claim, phase, held>>
    BY StepIsMove DEF VolumeInv, envVars
  <1>2. /\ UNCHANGED <<pv, vsc, phase, held, pvEvents, vscEvents, pvCache, vscCache>>
        /\ \A d : Dependents(d)' = Dependents(d)
    BY <1>1, SameObjects DEF storeVars
  <1>3. h[c].pc # "idle" /\ h[c].pc # "done"
    BY <1>1, NotSteps DEF Holding
  <1>4. /\ CachesCurrent
        /\ \A d \in Calls \ {c} : h[d].pc = "idle"
        /\ ~h[c].pinok
    BY <1>3 DEF PinInv, Serial, PinnedOK
  <1>5. Serial'
    BY <1>1, <1>2, <1>4 DEF Serial, CachesCurrent
  <1>6. CachesOK' /\ HeldOK'
    BY <1>1, <1>2 DEF PinInv, CachesOK, HeldOK
  <1>7. ASSUME NEW d \in Calls \ {c}
        PROVE  PinnedOK(d)' /\ CountedOK(d)'
    <2>1. h'[d] = h[d] /\ h[d].pc = "idle" /\ ~h[d].pinok
      BY <1>1, <1>4 DEF PinInv, PinnedOK
    <2> QED
      BY <2>1 DEF PinnedOK, CountedOK, DeleteSnapshotSteps
  <1>8. PinMoves(c)
    BY <1>4, CreateVolumePins, DeleteVolumePins, CreateSnapshotPins,
       DeleteSnapshotPins DEF HandlerStep, VolumeInv
  <1>9. h'[c].obj = h[c].obj /\ h'[c].op = h[c].op /\ claim' = claim
    BY <1>1 DEF HandlerMove
  <1>10. PinSafety'
    <2>1. CASE pinned \subseteq pinned'
      BY <1>2, <2>1 DEF PinInv, PinSafety, OwnCID
    <2>2. CASE /\ h[c].pc \in {"dv_UnpinCID", "ds_UnpinCID"}
               /\ pinned' = pinned \ {h[c].cid}
      BY <1>2, <2>2 DEF PinInv, PinSafety, CountedOK, Dependents, OwnCID
    <2> QED
      BY <1>8, <2>1, <2>2 DEF PinMoves
  <1>11. PinnedOK(c)'
    <2>1. CASE h[c].pc = "cv_StatCID" /\ h'[c].pc = "cv_PinCID"
      <3>1. h'[c].cid = h[c].cid /\ claim[h[c].obj].pinning /\ ~h'[c].pinok
        BY <1>8, <2>1, Unwatched DEF PinMoves, Watched
      <3>2. h[c].cid = claim[h[c].obj].cid
        BY <2>1 DEF PinInv, PinnedOK
      <3> QED
        BY <1>9, <2>1, <3>1, <3>2 DEF PinnedOK
    <2>2. CASE /\ h[c].pc \in {"cv_PinCID", "cs_PinCID"} /\ h'[c].pc = "done"
               /\ h'[c].cid = h[c].cid
               /\ h'[c].pinok => h[c].cid \in pinned'
      <3>1. h[c].op = "CreateVolume" => h[c].pc = "cv_PinCID"
        BY <2>2, HandlerFacts DEF VolumeInv, HandlerOK, CreateSnapshotSteps
      <3>2. h[c].cid # None
        BY <2>2, HandlerFacts, NoneAssumption DEF VolumeInv, HandlerOK
      <3>3. h[c].pc = "cv_PinCID"
              => h[c].cid = claim[h[c].obj].cid /\ claim[h[c].obj].pinning
        BY DEF PinInv, PinnedOK
      <3> QED
        BY <1>9, <2>2, <3>1, <3>2, <3>3 DEF PinnedOK
    <2>3. CASE h'[c].pc \notin {"cv_StatCID", "cv_PinCID"} /\ ~h'[c].pinok
      BY <2>3 DEF PinnedOK
    <2> QED
      BY <1>8, <2>1, <2>2, <2>3 DEF PinMoves, Watched
  <1>12. CountedOK(c)'
    <2> DEFINE d == h[c].cid
    <2>1. CASE h'[c].pc \notin {"dv_ListSnapshots", "dv_UnpinCID"} \cup DeleteSnapshotSteps
      BY <2>1 DEF CountedOK, DeleteSnapshotSteps
    <2>2. ASSUME h'[c].pc \in DeleteSnapshotSteps, h'[c].cid = d
          PROVE  h'[c].cid = vsc'[h'[c].obj]
      <3>1. h'[c].op = "DeleteSnapshot"
        BY <1>1, <2>2 DEF HandlerMove, HandlerOK
      <3>2. h[c].pc \in DeleteSnapshotSteps
        BY <1>1, <1>9, <3>1, HandlerFacts DEF Holding, Steps, HandlerOK, VolumeInv
      <3> QED
        BY <1>2, <1>9, <2>2, <3>2 DEF PinInv, CountedOK
    <2>3. CASE /\ h'[c].cid = d
               /\ \/ /\ h[c].pc = "dv_ListVolumes" /\ h'[c].pc = "dv_ListSnapshots"
                     /\ volumeRefs(d, h[c].key[2]) > 0 => h'[c].refs
                  \/ /\ h[c].pc = "ds_ListVolumes" /\ h'[c].pc = "ds_ListSnapshots"
                     /\ volumeRefs(d, None) > 0 => h'[c].refs
      <3>1. ~h'[c].refs => Dependents(d) \cap Names = {}
        BY <2>3, VolumesCounted
      <3> QED
        BY <1>2, <2>2, <2>3, <3>1 DEF CountedOK
    <2>4. CASE /\ h'[c].cid = d /\ ~h[c].refs
               /\ \/ /\ h[c].pc = "dv_ListSnapshots" /\ h'[c].pc = "dv_UnpinCID"
                     /\ ~(snapshotRefs(d, FALSE) > 0)
                  \/ /\ h[c].pc = "ds_ListSnapshots" /\ h'[c].pc = "ds_UnpinCID"
                     /\ ~(snapshotRefs(d, TRUE) > 0)
      <3>1. Dependents(d) \cap Snaps = {}
        BY <2>4, SnapshotsCounted
      <3>2. Dependents(d) \cap Names = {}
        BY <2>4 DEF PinInv, CountedOK
      <3>3. Dependents(d) \subseteq Names \cup Snaps
        BY DEF Dependents, VolumeInv, IndInv, TypeOK, Objects
      <3>4. Dependents(d) = {}
        BY <3>1, <3>2, <3>3
      <3> QED
        BY <1>2, <2>2, <2>4, <3>4 DEF CountedOK
    <2>5. CASE h'[c].pc \in {"cv_PinCID", "dv_RmMFS", "done"}
      BY <2>1, <2>5 DEF DeleteSnapshotSteps
    <2>6. CASE h'[c].pc \notin Watched
      BY <2>1, <2>6 DEF Watched
    <2> QED
      BY <1>8, <2>3, <2>4, <2>5, <2>6 DEF PinMoves
  <1> QED
    BY <1>5, <1>6, <1>7, <1>10, <1>11, <1>12 DEF PinInv

\* A call as it arrives has pinned and counted nothing yet.
PinStarted(c) ==
  /\ h' = [h EXCEPT ![c] = h'[c]]
  /\ ~h'[c].pinok
  /\ h'[c].pc \in {"done", "cv_StatCID", "cv_MkdirMFS", "dv_GetVolumeAttributes",
                   "cs_GetVolumeAttributes", "ds_ListVolumes"}
  /\ h'[c].pc = "cv_StatCID" => h'[c].cid = claim[h'[c].obj].cid
  /\ h'[c].pc = "ds_ListVolumes" => h'[c].cid = vsc[h'[c].obj]

\* Refused, or on its way with what the request says.
LEMMA RequestPins ==
  ASSUME IndInv, NEW c \in Calls, NEW r \in Handlers, ~r.pinok,
         NEW pc \in {"cv_StatCID", "cv_MkdirMFS", "dv_GetVolumeAttributes",
                     "cs_GetVolumeAttributes", "ds_ListVolumes"},
         pc = "cv_StatCID" => r.cid = claim[r.obj].cid,
         pc = "ds_ListVolumes" => r.cid = vsc[r.obj],
         Goto(c, pc, r) \/ \E code \in Codes : Refuse(c, r, code)
  PROVE  PinStarted(c)
  <1>1. h \in [Calls -> Handlers]
    BY HandlerFacts
  <1>2. pc \in Steps
    BY DEF Steps, CreateVolumeSteps, DeleteVolumeSteps, CreateSnapshotSteps,
           DeleteSnapshotSteps
  <1>3. CASE Goto(c, pc, r)
    BY <1>1, <1>2, <1>3, GotoFields DEF PinStarted
  <1>4. ASSUME NEW code \in Codes, Refuse(c, r, code)
        PROVE  PinStarted(c)
    <2> DEFINE x == [r EXCEPT !.pc = "done", !.code = code]
    <2>1. x.pc = "done" /\ x.pinok = r.pinok
      BY DEF Handlers
    <2>2. h' = [h EXCEPT ![c] = x]
      BY <1>4 DEF Refuse
    <2> HIDE DEF x
    <2> QED
      BY <1>1, <2>1, <2>2 DEF PinStarted
  <1> QED
    BY <1>3, <1>4

\* A request has pinned nothing.
LEMMA RequestUnpinned ==
  ASSUME NEW op \in Ops, NEW o \in Objects, NEW key \in Keys
  PROVE  ~Request(op, o, key).pinok
  <1>1. Request(op, o, key).pinok = FALSE
    BY DEF Request, Idle
  <1> QED
    BY <1>1

LEMMA CreateVolumeCalled ==
  ASSUME IndInv, NEW c \in Calls, NEW n \in Names, CreateVolume(c, n)
  PROVE  PinStarted(c)
  <1> DEFINE key == VolumeKey(sanitizeVolumeID[n])
             r == Request("CreateVolume", n, key)
  <1>1. key \in Keys /\ n \in Objects /\ "CreateVolume" \in Ops
    BY PathAssumption DEF Keys, Objects, Ops
  <1>2. r \in Handlers /\ r.obj = n /\ ~r.pinok
    BY <1>1, RequestFields, RequestUnpinned
  <1> HIDE DEF key, r
  <1>3. CASE \E code \in {"InvalidArgument", "Aborted"} : Refuse(c, r, code)
    BY <1>2, <1>3, RequestPins DEF Codes
  <1>4. CASE /\ claim[n].cid # None
             /\ Goto(c, "cv_StatCID", [r EXCEPT !.cid = claim[n].cid])
    <2> DEFINE q == [r EXCEPT !.cid = claim[n].cid]
    <2>1. claim[n].cid \in CIDs
      BY <1>4 DEF IndInv, TypeOK, Claims
    <2>2. /\ q \in Handlers /\ q.obj = n /\ q.pinok = r.pinok
          /\ q.cid = claim[n].cid
      BY <1>2, <2>1 DEF Handlers
    <2>3. Goto(c, "cv_StatCID", q)
      BY <1>4
    <2> HIDE DEF q
    <2> QED
      BY <1>2, <2>2, <2>3, RequestPins
  <1>5. ASSUME NEW d \in CIDs \cup {None}, volumePath(n) # None,
               Goto(c, "cv_MkdirMFS", [r EXCEPT !.path = volumePath(n), !.cid = d])
        PROVE  PinStarted(c)
    <2> DEFINE q == [r EXCEPT !.path = volumePath(n), !.cid = d]
    <2>1. volumePath(n) \in Paths
      BY <1>5, VolumePathType DEF IndInv
    <2>2. q \in Handlers /\ q.pinok = r.pinok
      BY <1>2, <2>1 DEF Handlers
    <2>3. Goto(c, "cv_MkdirMFS", q)
      BY <1>5
    <2> HIDE DEF q
    <2> QED
      BY <1>2, <2>2, <2>3, RequestPins
  <1>6. ASSUME ~InvalidSource(claim[n])
        PROVE  (IF claim[n].source = None THEN None ELSE vsc[claim[n].source])
                 \in CIDs \cup {None}
    BY <1>6 DEF CreateVolume, IndInv, TypeOK, Claims, InvalidSource, ObjectsOK
  <1> QED
    BY <1>3, <1>4, <1>5, <1>6 DEF CreateVolume, key, r

LEMMA OthersCalled ==
  ASSUME IndInv, NEW c \in Calls,
         \/ \E n \in Names : DeleteVolume(c, n)
         \/ \E s \in Snaps : CreateSnapshot(c, s) \/ DeleteSnapshot(c, s)
  PROVE  PinStarted(c)
  <1>1. ASSUME NEW n \in Names, DeleteVolume(c, n)
        PROVE  PinStarted(c)
    <2> DEFINE key == VolumeKey(pv[n].handle)
               r == Request("DeleteVolume", n, key)
    <2>1. key \in Keys /\ n \in Objects /\ "DeleteVolume" \in Ops
      BY <1>1 DEF DeleteVolume, IndInv, ObjectsOK, VolumeAttributes, Keys, Objects, Ops
    <2>2. r \in Handlers /\ ~r.pinok
      BY <2>1, RequestFields, RequestUnpinned
    <2> HIDE DEF key, r
    <2>3. Refuse(c, r, "Aborted") \/ Goto(c, "dv_GetVolumeAttributes", r)
      BY <1>1 DEF DeleteVolume, key, r
    <2> QED
      BY <2>2, <2>3, RequestPins DEF Codes
  <1>2. ASSUME NEW s \in Snaps, CreateSnapshot(c, s)
        PROVE  PinStarted(c)
    <2> DEFINE r == Request("CreateSnapshot", s, SnapshotKey(s))
    <2>1. SnapshotKey(s) \in Keys /\ s \in Objects /\ "CreateSnapshot" \in Ops
      BY DEF Keys, Objects, Ops
    <2>2. r \in Handlers /\ ~r.pinok
      BY <2>1, RequestFields, RequestUnpinned
    <2> HIDE DEF r
    <2>3. Refuse(c, r, "Aborted") \/ Goto(c, "cs_GetVolumeAttributes", r)
      BY <1>2 DEF CreateSnapshot, r
    <2> QED
      BY <2>2, <2>3, RequestPins DEF Codes
  <1>3. ASSUME NEW s \in Snaps, DeleteSnapshot(c, s)
        PROVE  PinStarted(c)
    <2> DEFINE key == DeleteSnapshotKey(vsc[s])
               q == Request("DeleteSnapshot", s, key)
               r == [q EXCEPT !.cid = vsc[s]]
    <2>1. vsc[s] \in CIDs
      BY <1>3 DEF DeleteSnapshot, IndInv, ObjectsOK
    <2>2. key \in Keys /\ s \in Objects /\ "DeleteSnapshot" \in Ops
      BY <2>1 DEF Keys, Objects, Ops
    <2>3. q \in Handlers /\ q.obj = s /\ ~q.pinok
      BY <2>2, RequestFields, RequestUnpinned
    <2> HIDE DEF q, key
    <2>4. r \in Handlers /\ r.obj = s /\ r.cid = vsc[s] /\ r.pinok = q.pinok
      BY <2>1, <2>3 DEF Handlers
    <2> HIDE DEF r
    <2>5. Refuse(c, r, "Aborted") \/ Goto(c, "ds_ListVolumes", r)
      BY <1>3 DEF DeleteSnapshot, key, q, r
    <2> QED
      BY <2>3, <2>4, <2>5, RequestPins DEF Codes
  <1> QED
    BY <1>1, <1>2, <1>3

\* A call starts when nothing else goes on.
LEMMA PinStart ==
  ASSUME VolumeInv, PinInv, ~Overlap,
         \/ \E n \in Names : CallVolume(n)
         \/ \E s \in Snaps : CallSnapshot(s)
  PROVE  PinInv'
  <1>1. PICK c \in Calls :
          /\ PinStarted(c) /\ Quiet
          /\ UNCHANGED <<ipfsVars, envVars>>
    BY CreateVolumeCalled, OthersCalled
       DEF CallVolume, CallSnapshot, CreateVolume, DeleteVolume, CreateSnapshot,
           DeleteSnapshot, MayCall, VolumeInv
  <1>2. /\ UNCHANGED <<pv, vsc, phase, held, pvEvents, vscEvents, pvCache,
                       vscCache, claim, pinned>>
        /\ \A d : Dependents(d)' = Dependents(d)
    BY <1>1, SameObjects DEF storeVars, envVars, ipfsVars
  <1>3. h \in [Calls -> Handlers]
    BY HandlerFacts DEF VolumeInv
  <1>4. \A d \in Calls \ {c} : h'[d] = h[d] /\ h[d].pc = "idle" /\ ~h[d].pinok
    BY <1>1, <1>3 DEF PinStarted, Quiet, PinInv, PinnedOK
  <1>5. Serial'
    BY <1>1, <1>2, <1>4 DEF Serial, Quiet, CachesCurrent
  <1>6. CachesOK' /\ HeldOK' /\ PinSafety'
    BY <1>2 DEF PinInv, CachesOK, HeldOK, PinSafety, OwnCID
  <1>7. ASSUME NEW d \in Calls \ {c}
        PROVE  PinnedOK(d)' /\ CountedOK(d)'
    BY <1>4 DEF PinnedOK, CountedOK, DeleteSnapshotSteps
  <1>8. PinnedOK(c)' /\ CountedOK(c)'
    BY <1>1, <1>2 DEF PinStarted, PinnedOK, CountedOK, DeleteSnapshotSteps
  <1> QED
    BY <1>5, <1>6, <1>7, <1>8 DEF PinInv

\* When no handler is there, nothing is asked of handlers.
LEMMA NoHandlers ==
  ASSUME \A d \in Calls : h'[d].pc = "idle" /\ ~h'[d].pinok
  PROVE  Serial' /\ \A d \in Calls : PinnedOK(d)' /\ CountedOK(d)'
  BY DEF Serial, PinnedOK, CountedOK, DeleteSnapshotSteps

\* One write to the API puts its cache one event behind.
LEMMA PVWritten ==
  ASSUME VolumeInv, CachesOK, CachesCurrent, NEW n \in Names,
         NEW x \in VolumeAttributes \cup {None}, WritePV(n, x)
  PROVE  /\ CachesOK' /\ vsc' = vsc
         /\ pv' = [pv EXCEPT ![n] = x]
  <1> DEFINE e == [name |-> n, obj |-> x]
  <1>1. pvCache = pv /\ vscCache = vsc /\ pvEvents = <<>> /\ vscEvents = <<>>
    BY CurrentCaches DEF CachesCurrent
  <1>2. e.name = n /\ e.obj = x /\ e \in PVEvents
    BY DEF PVEvents
  <1>3. /\ pv' = [pv EXCEPT ![n] = x] /\ pvEvents' = Append(<<>>, e)
        /\ UNCHANGED <<pvCache, vsc, vscEvents, vscCache>>
    BY <1>1 DEF WritePV
  <1> HIDE DEF e
  <1>4. Len(pvEvents') = 1 /\ pvEvents'[1] = e
    BY <1>2, <1>3
  <1> QED
    BY <1>1, <1>2, <1>3, <1>4 DEF CachesOK

LEMMA VSCWritten ==
  ASSUME VolumeInv, CachesOK, CachesCurrent, NEW s \in Snaps,
         NEW x \in CIDs \cup {None}, WriteVSC(s, x)
  PROVE  /\ CachesOK' /\ pv' = pv
         /\ vsc' = [vsc EXCEPT ![s] = x]
  <1> DEFINE e == [name |-> s, obj |-> x]
  <1>1. pvCache = pv /\ vscCache = vsc /\ pvEvents = <<>> /\ vscEvents = <<>>
    BY CurrentCaches DEF CachesCurrent
  <1>2. e.name = s /\ e.obj = x /\ e \in VSCEvents
    BY DEF VSCEvents
  <1>3. /\ vsc' = [vsc EXCEPT ![s] = x] /\ vscEvents' = Append(<<>>, e)
        /\ UNCHANGED <<pvCache, pv, pvEvents, vscCache>>
    BY <1>1 DEF WriteVSC
  <1> HIDE DEF e
  <1>4. Len(vscEvents') = 1 /\ vscEvents'[1] = e
    BY <1>2, <1>3
  <1> QED
    BY <1>1, <1>2, <1>3, <1>4 DEF CachesOK

\* A call recorded: what it created it has pinned, or has not and says so.
LEMMA PinRecorded ==
  ASSUME VolumeInv, PinInv, NEW c \in Calls, h[c].pc = "done", h[c].code = "OK",
         h[c].gone = "no", Recorded(c, h[c].obj), UNCHANGED <<pinned, claim>>
  PROVE  CachesOK' /\ HeldOK' /\ PinSafety'
  <1> DEFINE o == h[c].obj
  <1>1. /\ CachesOK /\ CachesCurrent /\ HeldOK /\ PinSafety /\ PinnedOK(c)
    BY DEF PinInv, Serial
  <1>2. /\ pv \in PVs /\ vsc \in VSCs /\ phase \in [Objects -> Phases]
        /\ held \subseteq Objects /\ HandlerOK(h[c]) /\ TypeOK
    BY HandlerFacts DEF VolumeInv, IndInv, TypeOK, StoresTypeOK
  <1>3. Names \subseteq Objects /\ Snaps \subseteq Objects /\ Names \cap Snaps = {}
    BY ObjectAssumption DEF Objects
  <1>4. CASE h[c].op = "CreateVolume"
    <2>1. o \in Names /\ phase[o] = "wanted"
      BY <1>2, <1>4 DEF HandlerOK, VolumeInv, OwnersInv, PhasesOK
    <2>2. /\ WritePV(o, VolumeContext(o))
          /\ phase' = [phase EXCEPT ![o] = "bound"] /\ held' = Created(c)
      BY <1>4 DEF Recorded
    <2>3. /\ CachesOK' /\ vsc' = vsc
          /\ pv' = [pv EXCEPT ![o] = VolumeContext(o)]
      BY <1>1, <1>2, <2>1, <2>2, PVWritten, VolumeContextType
    <2>4. o \notin held /\ VolumeContext(o).cid = claim[o].cid
      BY <1>1, <2>1 DEF HeldOK, VolumeContext
    <2>5. o \in held'
            => /\ claim[o].cid # None /\ claim[o].pinning
               /\ claim[o].cid \in pinned
      BY <1>1, <1>4, <2>2, <2>4 DEF Created, PinnedOK
    <2>6. held' \subseteq held \cup {o}
      BY <2>2 DEF Created
    <2> HIDE DEF o
    <2>7. HeldOK'
      BY <1>1, <1>2, <1>3, <2>1, <2>2, <2>5, <2>6 DEF HeldOK
    <2>8. PinSafety'
      BY <1>1, <1>2, <1>3, <2>1, <2>2, <2>3, <2>4, <2>5, <2>6
         DEF PinSafety, OwnCID, PVs
    <2> QED
      BY <2>3, <2>7, <2>8
  <1>5. CASE h[c].op = "CreateSnapshot"
    <2>1. o \in Snaps /\ h[c].cid \in CIDs /\ phase[o] = "wanted"
      BY <1>2, <1>5 DEF HandlerOK, VolumeInv, OwnersInv, PhasesOK
    <2>2. /\ WriteVSC(o, h[c].cid)
          /\ phase' = [phase EXCEPT ![o] = "bound"] /\ held' = Created(c)
      BY <1>5 DEF Recorded
    <2>3. CachesOK' /\ pv' = pv /\ vsc' = [vsc EXCEPT ![o] = h[c].cid]
      BY <1>1, <2>1, <2>2, VSCWritten
    <2>4. o \notin held
      BY <1>1, <2>1 DEF HeldOK
    <2>5. o \in held' => h[c].cid \in pinned
      BY <1>1, <2>2, <2>4 DEF Created, PinnedOK
    <2>6. held' \subseteq held \cup {o}
      BY <2>2 DEF Created
    <2> HIDE DEF o
    <2>7. HeldOK'
      BY <1>1, <1>2, <1>3, <2>1, <2>2, <2>6 DEF HeldOK
    <2>8. PinSafety'
      BY <1>1, <1>2, <1>3, <2>1, <2>2, <2>3, <2>5, <2>6
         DEF PinSafety, OwnCID, VSCs
    <2> QED
      BY <2>3, <2>7, <2>8
  <1>6. CASE h[c].op = "DeleteVolume"
    <2>1. o \in Names
      BY <1>2, <1>6 DEF HandlerOK
    <2>2. /\ WritePV(o, None) /\ phase' = [phase EXCEPT ![o] = "gone"]
          /\ held' = held \ {o}
      BY <1>6 DEF Recorded
    <2>3. CachesOK' /\ vsc' = vsc /\ pv' = [pv EXCEPT ![o] = None]
      BY <1>1, <2>1, <2>2, PVWritten
    <2> HIDE DEF o
    <2>4. HeldOK'
      BY <1>1, <1>2, <1>3, <2>1, <2>2 DEF HeldOK
    <2>5. PinSafety'
      BY <1>1, <1>2, <1>3, <2>1, <2>2, <2>3 DEF PinSafety, OwnCID, PVs
    <2> QED
      BY <2>3, <2>4, <2>5
  <1>7. CASE h[c].op = "DeleteSnapshot"
    <2>1. o \in Snaps
      BY <1>2, <1>7 DEF HandlerOK
    <2>2. /\ WriteVSC(o, None) /\ phase' = [phase EXCEPT ![o] = "gone"]
          /\ held' = held \ {o}
      BY <1>7 DEF Recorded
    <2>3. CachesOK' /\ pv' = pv /\ vsc' = [vsc EXCEPT ![o] = None]
      BY <1>1, <2>1, <2>2, VSCWritten
    <2> HIDE DEF o
    <2>4. HeldOK'
      BY <1>1, <1>2, <1>3, <2>1, <2>2 DEF HeldOK
    <2>5. PinSafety'
      BY <1>1, <1>2, <1>3, <2>1, <2>2, <2>3 DEF PinSafety, OwnCID, VSCs
    <2> QED
      BY <2>3, <2>4, <2>5
  <1> QED
    BY <1>4, <1>5, <1>6, <1>7 DEF Recorded

LEMMA PinReply ==
  ASSUME VolumeInv, PinInv, NEW c \in Calls, Reply(c)
  PROVE  PinInv'
  <1>1. /\ h[c].pc = "done" /\ h' = [h EXCEPT ![c] = Idle]
        /\ UNCHANGED <<pinned, claim>> /\ h \in [Calls -> Handlers]
    BY HandlerFacts DEF Reply, ipfsVars, VolumeInv
  <1>2. Idle.pc = "idle" /\ Idle.pinok = FALSE
    BY DEF Idle
  <1>3. \A d \in Calls : h'[d].pc = "idle" /\ ~h'[d].pinok
    BY <1>1, <1>2 DEF PinInv, Serial, PinnedOK
  <1>4. CASE h[c].code = "OK" /\ h[c].gone = "no"
    <2>1. CachesOK' /\ HeldOK' /\ PinSafety'
      BY <1>1, <1>4, PinRecorded DEF Reply
    <2> QED
      BY <1>3, <2>1, NoHandlers DEF PinInv
  <1>5. CASE ~(h[c].code = "OK" /\ h[c].gone = "no")
    <2>1. CachesOK' /\ HeldOK' /\ PinSafety'
      BY <1>1, <1>5
         DEF Reply, storeVars, PinInv, CachesOK, HeldOK, PinSafety, OwnCID
    <2> QED
      BY <1>3, <2>1, NoHandlers DEF PinInv
  <1> QED
    BY <1>4, <1>5

\* Handlers, claims and API objects as they were, pins too.
LEMMA PinUnmoved ==
  ASSUME PinInv,
         \A d \in Calls :
           /\ h'[d].pc = h[d].pc /\ h'[d].op = h[d].op /\ h'[d].obj = h[d].obj
           /\ h'[d].cid = h[d].cid /\ h'[d].refs = h[d].refs
           /\ h'[d].pinok = h[d].pinok,
         UNCHANGED <<pinned, claim, pv, vsc, held>>,
         \A o \in held : /\ phase'[o] = "bound" => phase[o] = "bound"
                         /\ phase[o] # "wanted" => phase'[o] # "wanted"
  PROVE  /\ HeldOK' /\ PinSafety'
         /\ \A d \in Calls : PinnedOK(d)' /\ CountedOK(d)'
  <1>1. \A x : /\ Dependents(x) = {} => Dependents(x)' = {}
               /\ Dependents(x) \cap Names = {} => Dependents(x)' \cap Names = {}
    BY DEF Dependents, OwnCID
  <1>2. HeldOK' /\ PinSafety'
    BY DEF PinInv, HeldOK, PinSafety, OwnCID
  <1>3. ASSUME NEW d \in Calls
        PROVE  PinnedOK(d)' /\ CountedOK(d)'
    <2>1. PinnedOK(d) /\ CountedOK(d)
      BY DEF PinInv
    <2>2. PinnedOK(d)'
      BY <2>1 DEF PinnedOK
    <2> QED
      BY <1>1, <2>1, <2>2 DEF CountedOK
  <1> QED
    BY <1>2, <1>3

\* After the only event of a watch there is none.
LEMMA LastEvent ==
  ASSUME NEW S, NEW q \in Seq(S), Len(q) = 1
  PROVE  Head(q) = q[1] /\ Tail(q) = <<>>
  <1>1. q # <<>>
    OBVIOUS
  <1>2. Tail(q) \in Seq(S) /\ Len(Tail(q)) = Len(q) - 1 /\ Head(q) = q[1]
    BY <1>1, HeadTailProperties
  <1>3. Len(Tail(q)) = 0
    BY <1>2
  <1>4. Tail(q) # <<>> => Len(Tail(q)) \in Nat \ {0}
    BY <1>2, EmptySeq
  <1> QED
    BY <1>2, <1>3, <1>4

\* An event applied brings a cache up to date.
LEMMA CachesInformed ==
  ASSUME VolumeInv, CachesOK, InformerStep
  PROVE  CachesOK'
  <1>1. pvEvents \in Seq(PVEvents) /\ vscEvents \in Seq(VSCEvents)
    BY DEF VolumeInv, IndInv, TypeOK, StoresTypeOK
  <1>2. CASE ApplyPVEvent
    <2>1. /\ Len(pvEvents) = 1
          /\ [pvCache EXCEPT ![pvEvents[1].name] = pvEvents[1].obj] = pv
      BY <1>1, <1>2 DEF ApplyPVEvent, CachesOK
    <2>2. Head(pvEvents) = pvEvents[1] /\ Tail(pvEvents) = <<>>
      BY <1>1, <2>1, LastEvent
    <2>3. pvCache' = pv' /\ pvEvents' = <<>> /\ UNCHANGED <<vsc, vscEvents, vscCache>>
      BY <1>2, <2>1, <2>2 DEF ApplyPVEvent
    <2> QED
      BY <2>3 DEF CachesOK
  <1>3. CASE ApplyVSCEvent
    <2>1. /\ Len(vscEvents) = 1
          /\ [vscCache EXCEPT ![vscEvents[1].name] = vscEvents[1].obj] = vsc
      BY <1>1, <1>3 DEF ApplyVSCEvent, CachesOK
    <2>2. Head(vscEvents) = vscEvents[1] /\ Tail(vscEvents) = <<>>
      BY <1>1, <2>1, LastEvent
    <2>3. vscCache' = vsc' /\ vscEvents' = <<>> /\ UNCHANGED <<pv, pvEvents, pvCache>>
      BY <1>3, <2>1, <2>2 DEF ApplyVSCEvent
    <2> QED
      BY <2>3 DEF CachesOK
  <1> QED
    BY <1>2, <1>3 DEF InformerStep

\* No handler is there to see a cache that lags.
LEMMA PinInformer ==
  ASSUME VolumeInv, PinInv, InformerStep
  PROVE  PinInv'
  <1>1. UNCHANGED <<pinned, claim, pv, vsc, held, h, phase>>
    BY DEF InformerStep, ApplyPVEvent, ApplyVSCEvent, ipfsVars
  <1>2. /\ HeldOK' /\ PinSafety'
        /\ \A d \in Calls : PinnedOK(d)' /\ CountedOK(d)'
    BY <1>1, PinUnmoved
  <1>3. \A d \in Calls : h[d].pc = "idle"
    BY DEF PinInv, Serial, CachesCurrent, InformerStep, ApplyPVEvent, ApplyVSCEvent
  <1>4. Serial'
    BY <1>1, <1>3 DEF Serial
  <1> QED
    BY <1>2, <1>4, CachesInformed DEF PinInv

LEMMA PinOthers ==
  ASSUME VolumeInv, PinInv,
         \/ \E c \in Calls : Abandon(c)
         \/ Crash
         \/ \E o \in Objects : ReleaseObject(o)
         \/ \E n \in Names : NodeImport(n)
         \/ InformerStep
         \/ UNCHANGED vars
  PROVE  PinInv'
  <1>1. ASSUME NEW c \in Calls, Abandon(c)
        PROVE  PinInv'
    <2> DEFINE x == [h[c] EXCEPT !.gone = "now"]
    <2>1. h[c] \in Handlers /\ h \in [Calls -> Handlers]
      BY HandlerFacts DEF VolumeInv
    <2>2. /\ x.pc = h[c].pc /\ x.op = h[c].op /\ x.obj = h[c].obj
          /\ x.cid = h[c].cid /\ x.refs = h[c].refs /\ x.pinok = h[c].pinok
      BY <2>1 DEF Handlers
    <2>3. /\ h' = [h EXCEPT ![c] = x]
          /\ UNCHANGED <<pinned, claim, storeVars, held, phase>>
      BY <1>1 DEF Abandon, ipfsVars, envVars
    <2> HIDE DEF x
    <2>4. \A d \in Calls :
            /\ h'[d].pc = h[d].pc /\ h'[d].op = h[d].op /\ h'[d].obj = h[d].obj
            /\ h'[d].cid = h[d].cid /\ h'[d].refs = h[d].refs
            /\ h'[d].pinok = h[d].pinok
      BY <2>1, <2>2, <2>3
    <2>5. /\ HeldOK' /\ PinSafety'
          /\ \A d \in Calls : PinnedOK(d)' /\ CountedOK(d)'
      BY <2>3, <2>4, PinUnmoved DEF storeVars
    <2>6. Serial' /\ CachesOK'
      BY <2>3, <2>4 DEF PinInv, Serial, CachesOK, CachesCurrent, storeVars
    <2> QED
      BY <2>5, <2>6 DEF PinInv
  <1>2. CASE Crash
    <2>1. Idle.pc = "idle" /\ Idle.pinok = FALSE
      BY DEF Idle
    <2>2. \A d \in Calls : h'[d].pc = "idle" /\ ~h'[d].pinok
      BY <1>2, <2>1 DEF Crash
    <2>3. CachesOK' /\ HeldOK' /\ PinSafety'
      BY <1>2 DEF Crash, StartInformers, ipfsVars, PinInv, CachesOK, HeldOK,
                  PinSafety, OwnCID
    <2> QED
      BY <2>2, <2>3, NoHandlers DEF PinInv
  <1>3. ASSUME NEW o \in Objects, ReleaseObject(o)
        PROVE  PinInv'
    <2>1. /\ UNCHANGED <<pinned, claim, storeVars, held, h>>
          /\ phase' = [phase EXCEPT ![o] = "released"]
      BY <1>3 DEF ReleaseObject, ipfsVars
    <2>2. phase \in [Objects -> Phases] /\ held \subseteq Objects
      BY DEF VolumeInv, IndInv, TypeOK
    <2>3. /\ HeldOK' /\ PinSafety'
          /\ \A d \in Calls : PinnedOK(d)' /\ CountedOK(d)'
      BY <2>1, <2>2, PinUnmoved DEF storeVars
    <2>4. Serial' /\ CachesOK'
      BY <2>1 DEF PinInv, Serial, CachesOK, CachesCurrent, storeVars
    <2> QED
      BY <2>3, <2>4 DEF PinInv
  <1>4. CASE (\E n \in Names : NodeImport(n)) \/ UNCHANGED vars
    <2>1. UNCHANGED <<pinned, claim, storeVars, held, h, phase>>
      BY <1>4 DEF NodeImport, vars, ipfsVars
    <2>2. /\ HeldOK' /\ PinSafety'
          /\ \A d \in Calls : PinnedOK(d)' /\ CountedOK(d)'
      BY <2>1, PinUnmoved DEF storeVars
    <2>3. Serial' /\ CachesOK'
      BY <2>1 DEF PinInv, Serial, CachesOK, CachesCurrent, storeVars
    <2> QED
      BY <2>2, <2>3 DEF PinInv
  <1> QED
    BY <1>1, <1>2, <1>3, <1>4, PinInformer

-----------------------------------------------------------------------------
LEMMA InitPinInv == Init => PinInv
  <1> SUFFICES ASSUME Init PROVE PinInv
    OBVIOUS
  <1>1. Idle.pc = "idle" /\ Idle.pinok = FALSE
    BY DEF Idle
  <1>2. \A c \in Calls : h[c].pc = "idle" /\ ~h[c].pinok
    BY <1>1 DEF Init
  <1>3. Serial /\ \A c \in Calls : PinnedOK(c) /\ CountedOK(c)
    BY <1>2 DEF Serial, PinnedOK, CountedOK, DeleteSnapshotSteps
  <1>4. CachesOK /\ HeldOK /\ PinSafety
    BY DEF Init, StoresInit, CachesOK, HeldOK, PinSafety
  <1> QED
    BY <1>3, <1>4 DEF PinInv

LEMMA NextPinInv ==
  ASSUME VolumeInv, PinInv, ~Overlap, SnapshotStore, DistinctIDs, [Next]_vars
  PROVE  PinInv'
  BY PinStart, PinStep, PinReply, PinOthers DEF Next

(***************************************************************************)
(* A CID that a bound volume or snapshot had pinned for it stays pinned,   *)
(* for any number of owners, whatever fails, is abandoned or restarts, as  *)
(* long as calls come one after the other, the snapshot CRD was there when *)
(* the process started and names have IDs of their own: the references     *)
(* cidReferenceUsage counts are then all there are (utils.go:109-178,      *)
(* controller.go:551-564).                                                 *)
(***************************************************************************)
THEOREM PinsAreKept ==
  ASSUME ~Overlap, SnapshotStore, DistinctIDs
  PROVE  Spec => []PinSafety
  <1>1. PinInv => PinSafety
    BY DEF PinInv
  <1>2. VolumeInv /\ PinInv /\ [Next]_vars => (VolumeInv /\ PinInv)'
    BY NextPinInv, NextVolumeInv
  <1> QED
    BY <1>1, <1>2, InitVolumeInv, InitPinInv, PTL DEF Spec
-----------------------------------------------------------------------------
(***************************************************************************)
(* The controller beside someone else, its calls one after the other: the  *)
(* caches a handler reads are current, and DeleteVolume finds and removes  *)
(* the tree of its volume unless a call fails.                             *)
(***************************************************************************)
LEMMA CachesRecorded ==
  ASSUME VolumeInv, CachesOK, CachesCurrent, NEW c \in Calls, h[c].pc = "done",
         h[c].code = "OK", h[c].gone = "no", Recorded(c, h[c].obj)
  PROVE  CachesOK'
  <1>1. HandlerOK(h[c]) /\ TypeOK
    BY HandlerFacts DEF VolumeInv
  <1>2. CASE h[c].op = "CreateVolume"
    <2>1. h[c].obj \in Names /\ WritePV(h[c].obj, VolumeContext(h[c].obj))
      BY <1>1, <1>2 DEF HandlerOK, Recorded
    <2> QED
      BY <1>1, <2>1, PVWritten, VolumeContextType
  <1>3. CASE h[c].op = "CreateSnapshot"
    <2>1. h[c].obj \in Snaps /\ h[c].cid \in CIDs /\ WriteVSC(h[c].obj, h[c].cid)
      BY <1>1, <1>3 DEF HandlerOK, Recorded
    <2> QED
      BY <2>1, VSCWritten
  <1>4. CASE h[c].op = "DeleteVolume"
    <2>1. h[c].obj \in Names /\ WritePV(h[c].obj, None)
      BY <1>1, <1>4 DEF HandlerOK, Recorded
    <2> QED
      BY <2>1, PVWritten
  <1>5. CASE h[c].op = "DeleteSnapshot"
    <2>1. h[c].obj \in Snaps /\ WriteVSC(h[c].obj, None)
      BY <1>1, <1>5 DEF HandlerOK, Recorded
    <2> QED
      BY <2>1, VSCWritten
  <1> QED
    BY <1>2, <1>3, <1>4, <1>5 DEF Recorded

\* Calls that start only when nothing goes on stay one at a time.
LEMMA SerialKept ==
  ASSUME VolumeInv, Serial, CachesOK, ControllerNext,
         (\E c \in Calls : Called(c)) => Quiet
  PROVE  Serial' /\ CachesOK'
  <1>1. h \in [Calls -> Handlers] /\ IndInv
    BY DEF VolumeInv, IndInv, TypeOK
  <1>2. ASSUME NEW c \in Calls, HandlerStep(c) PROVE Serial' /\ CachesOK'
    <2>1. /\ Holding(c) /\ UNCHANGED storeVars /\ \A d \in Calls \ {c} : h'[d] = h[d]
      BY <1>1, <1>2, StepIsMove DEF envVars
    <2>2. h[c].pc # "idle"
      BY <2>1, NotSteps DEF Holding
    <2> QED
      BY <2>1, <2>2 DEF Serial, CachesOK, CachesCurrent, storeVars
  <1>3. ASSUME NEW c \in Calls, Called(c) PROVE Serial' /\ CachesOK'
    <2>1. UNCHANGED storeVars
      BY <1>3 DEF Called, CreateVolume, DeleteVolume, CreateSnapshot, DeleteSnapshot,
                  envVars
    <2>2. \E op, o : Started(c, op, o)
      BY <1>1, <1>3, CreateVolumeStarted, DeleteVolumeStarted, CreateSnapshotStarted,
         DeleteSnapshotStarted DEF Called
    <2>3. \A d \in Calls \ {c} : h'[d] = h[d]
      BY <1>1, <2>2 DEF Started
    <2>4. Quiet
      BY <1>3
    <2> QED
      BY <2>1, <2>3, <2>4 DEF Serial, CachesOK, CachesCurrent, storeVars, Quiet
  <1>4. ASSUME NEW c \in Calls, Reply(c) PROVE Serial' /\ CachesOK'
    <2>1. /\ h[c].pc = "done" /\ h' = [h EXCEPT ![c] = Idle] /\ Idle.pc = "idle"
          /\ CachesCurrent
      BY <1>4 DEF Reply, Idle, Serial
    <2>2. \A d \in Calls : h'[d].pc = "idle"
      BY <1>1, <2>1 DEF Serial
    <2>3. CachesOK'
      BY <1>4, <2>1, CachesRecorded DEF Reply, CachesOK, storeVars
    <2> QED
      BY <2>2, <2>3 DEF Serial
  <1>5. ASSUME NEW c \in Calls, Abandon(c) PROVE Serial' /\ CachesOK'
    <2> DEFINE x == [h[c] EXCEPT !.gone = "now"]
    <2>1. x.pc = h[c].pc /\ h' = [h EXCEPT ![c] = x] /\ UNCHANGED storeVars
      BY <1>1, <1>5 DEF Abandon, Handlers, envVars
    <2> HIDE DEF x
    <2>2. \A d \in Calls : h'[d].pc = h[d].pc
      BY <1>1, <2>1
    <2> QED
      BY <2>1, <2>2 DEF Serial, CachesOK, CachesCurrent, storeVars
  <1>6. CASE \E o \in Objects : ReleaseObject(o)
    BY <1>6 DEF ReleaseObject, Serial, CachesOK, CachesCurrent, storeVars
  <1>7. CASE InformerStep
    <2>1. h' = h /\ \A d \in Calls : h[d].pc = "idle"
      BY <1>7 DEF InformerStep, ApplyPVEvent, ApplyVSCEvent, Serial, CachesCurrent
    <2> QED
      BY <1>7, <2>1, CachesInformed DEF Serial
  <1>8. CASE Crash
    BY <1>8 DEF Crash, StartInformers, Idle, Serial, CachesOK
  <1> QED
    BY <1>2, <1>3, <1>4, <1>5, <1>6, <1>7, <1>8
       DEF ControllerNext, CallVolume, CallSnapshot, Called
-----------------------------------------------------------------------------
\* Failed and abandoned calls and crashes are counted, and never forgotten.
LEMMA FaultsGrow ==
  ASSUME VolumeInv, ControllerNext
  PROVE  faults' = faults \/ faults' = faults + 1
  <1>1. ASSUME NEW c \in Calls, NEW o, Outcome(c, o)
        PROVE  faults' = faults \/ faults' = faults + 1
    BY <1>1 DEF Outcome
  <1>2. ASSUME NEW c \in Calls, HandlerStep(c)
        PROVE  faults' = faults \/ \E o : Outcome(c, o)
    <2>1. CASE CreateVolumeStep(c)
      BY <2>1, Zenon
         DEF CreateVolumeStep, cv_StatCID, cv_PinCID, cv_MkdirMFS, rs_StatCID,
             rs_GetCIDContent, rs_RmMFS, rs_MkdirMFS, rs_cpMFS
    <2>2. CASE DeleteVolumeStep(c)
      BY <2>2, Zenon
         DEF DeleteVolumeStep, dv_GetVolumeAttributes, dv_ListVolumes,
             dv_ListSnapshots, dv_UnpinCID, dv_RmMFS
    <2>3. CASE CreateSnapshotStep(c) \/ DeleteSnapshotStep(c)
      BY <2>3, Zenon
         DEF CreateSnapshotStep, cs_GetVolumeAttributes, cs_ResolveMFSCID, cs_PinCID,
             DeleteSnapshotStep, ds_ListVolumes, ds_ListSnapshots, ds_UnpinCID
    <2> QED
      BY <1>2, <2>1, <2>2, <2>3 DEF HandlerStep
  <1> QED
    BY <1>1, <1>2
       DEF ControllerNext, CallVolume, CallSnapshot, CreateVolume, DeleteVolume,
           CreateSnapshot, DeleteSnapshot, Reply, Abandon, Crash, ReleaseObject,
           InformerStep

(***************************************************************************)
(* As long as nothing failed: no caller has given up, a deletion of n that *)
(* has read the PV is to remove n's tree, and one that says it is done has.*)
(***************************************************************************)
Removal(n) ==
  faults = 0 =>
    /\ \A c \in Calls : h[c].gone = "no"
    /\ \A c \in Calls :
         h[c].op = "DeleteVolume" /\ h[c].obj = n =>
           /\ h[c].pc \in {"dv_GetVolumeAttributes", "dv_RmMFS", "done"}
           /\ h[c].pc = "dv_RmMFS" => h[c].path = volumePath(n)
           /\ h[c].pc = "done" /\ h[c].code = "OK" => mfs[volumePath(n)] = None
    /\ phase[n] = "gone" => mfs[volumePath(n)] = None

\* Current caches have the PV of a volume that is being deleted.
LEMMA FoundToDelete ==
  ASSUME VolumeInv, DistinctIDs, CachesOK, CachesCurrent,
         NEW c \in Calls, h[c].gone = "no", h[c].pc = "dv_GetVolumeAttributes",
         NEW n \in Names, h[c].obj = n
  PROVE  GetVolumeAttributes(h[c].key[2]) = {VolumeContext(n)}
  <1>1. h[c].op = "DeleteVolume" /\ Holding(c)
    BY HandlerFacts DEF VolumeInv, HandlerOK, DeleteVolumeSteps, Holding, Steps
  <1>2. h[c].key[2] = sanitizeVolumeID[n]
    BY <1>1 DEF VolumeInv, OwnersInv, KeysOK, VolumeKey
  <1>3. pvCache = pv /\ pv[n] = VolumeContext(n) /\ pv[n] \in VolumeAttributes
    BY <1>1, CurrentCaches
       DEF VolumeInv, OwnersInv, PhasesOK, ContextsOK, IndInv, ObjectsOK
  <1>4. pvCache[n] # None /\ pvCache[n].handle = h[c].key[2]
    BY <1>2, <1>3, AttributesAssumption, ContextFields
  <1>5. ASSUME NEW m \in Names, pvCache[m] # None, pvCache[m].handle = h[c].key[2]
        PROVE  m = n
    <2>1. pvCache[m].handle = sanitizeVolumeID[m]
      BY <1>5, ContextFields DEF VolumeInv, OwnersInv, ContextsOK
    <2> QED
      BY <1>2, <1>5, <2>1 DEF DistinctIDs
  <1> QED
    BY <1>3, <1>4, <1>5 DEF GetVolumeAttributes

\* The PV of a read-write volume sends DeleteVolume to its tree at once.
LEMMA FoundReadWrite ==
  ASSUME IndInv, NEW c \in Calls, NEW x \in VolumeAttributes,
         GetVolumeAttributes(h[c].key[2]) = {x}, x.cid = None, x.readonly = FALSE,
         x.mfspath \in Paths, dv_GetVolumeAttributes(c)
  PROVE  h'[c].pc = "dv_RmMFS" /\ h'[c].path = x.mfspath
  <1> DEFINE cid == IF x.pinning THEN x.cid ELSE None
             path == IF x.mfspath # None /\ ~x.readonly THEN Clean[x.mfspath]
                     ELSE None
             r == [h[c] EXCEPT !.cid = cid, !.path = path]
  <1>1. h \in [Calls -> Handlers] /\ h[c] \in Handlers /\ "dv_RmMFS" \in Steps
    BY HandlerFacts DEF Steps, DeleteVolumeSteps
  <1>2. cid = None /\ path = x.mfspath
    BY NoneAssumption, PathAssumption
  <1>3. Goto(c, IF cid # None THEN "dv_ListVolumes" ELSE "dv_RmMFS", r)
    BY DEF dv_GetVolumeAttributes
  <1>4. cid \in CIDs \cup {None} /\ path \in Paths \cup {None}
    BY <1>2
  <1> HIDE DEF cid, path
  <1>5. r \in Handlers /\ r.path = path
    BY <1>1, <1>4 DEF Handlers
  <1> HIDE DEF r
  <1>6. Goto(c, "dv_RmMFS", r)
    BY <1>2, <1>3
  <1> QED
    BY <1>1, <1>2, <1>5, <1>6, GotoFields

LEMMA RemovalStep ==
  ASSUME VolumeInv, DistinctIDs, CachesOK, CachesCurrent,
         NEW c \in Calls, DeleteVolumeStep(c), h[c].gone = "no", faults = 0,
         faults' = 0, NEW n \in Names, h[c].obj = n, claim[n].cid = None,
         volumePath(n) # None,
         h[c].pc \in {"dv_GetVolumeAttributes", "dv_RmMFS", "done"},
         h[c].pc = "dv_RmMFS" => h[c].path = volumePath(n)
  PROVE  \/ h'[c].pc = "dv_RmMFS" /\ h'[c].path = volumePath(n)
         \/ h'[c].pc = "done" /\ mfs'[volumePath(n)] = None
  <1>1. /\ h \in [Calls -> Handlers] /\ h[c] \in Handlers /\ IndInv
        /\ mfs \in [Paths -> CIDs \cup {None}]
        /\ volumePath(n) \in Paths /\ Clean[volumePath(n)] = volumePath(n)
    BY HandlerFacts, VolumePathUnderRoot, PathAssumption DEF VolumeInv, IpfsTypeOK
  <1>2. CASE dv_GetVolumeAttributes(c)
    <2>1. GetVolumeAttributes(h[c].key[2]) = {VolumeContext(n)}
      BY <1>2, FoundToDelete DEF dv_GetVolumeAttributes
    <2>2. /\ VolumeContext(n).cid = None /\ VolumeContext(n).readonly = FALSE
          /\ VolumeContext(n).mfspath = volumePath(n)
      BY DEF VolumeContext
    <2>3. VolumeContext(n) \in VolumeAttributes
      BY <1>1, VolumeContextType DEF IndInv
    <2> QED
      BY <1>1, <1>2, <2>1, <2>2, <2>3, FoundReadWrite
  <1>3. CASE dv_RmMFS(c)
    <2>1. h[c].path = volumePath(n) /\ Finish(c, "OK", h[c])
      BY <1>3 DEF dv_RmMFS
    <2>2. PICK o \in Outcomes : Outcome(c, o) /\ RmMFS(h[c].path, o)
      BY <1>3, <2>1 DEF dv_RmMFS
    <2>3. o = "ok"
      BY <2>2 DEF Outcome
    <2>4. mfs'[volumePath(n)] = None
      BY <1>1, <2>1, <2>2, <2>3 DEF RmMFS, Removed
    <2>5. h'[c].pc = "done"
      BY <1>1, <2>1, SameFields DEF Codes
    <2> QED
      BY <1>1, <2>4, <2>5
  <1> QED
    BY <1>2, <1>3
       DEF DeleteVolumeStep, dv_ListVolumes, dv_ListSnapshots, dv_UnpinCID
\* The tree of a volume that is no longer wanted is only ever removed.
LEMMA TreesOnlyGo ==
  ASSUME VolumeInv, RestoreInv, DistinctVolumes, ControllerNext,
         NEW n \in Names, claim[n].cid = None, volumePath(n) # None,
         phase[n] # "wanted", mfs[volumePath(n)] = None
  PROVE  mfs'[volumePath(n)] = None
  BY TreeWriters, OthersDoNotWrite DEF RestoreInv

LEMMA NoneGivesUp ==
  ASSUME VolumeInv, ControllerNext, faults = 0, faults' = 0,
         \A c \in Calls : h[c].gone = "no"
  PROVE  \A c \in Calls : h'[c].gone = "no"
  <1>1. h \in [Calls -> Handlers] /\ IndInv /\ Idle.gone = "no"
    BY DEF VolumeInv, IndInv, TypeOK, Idle
  <1>2. ASSUME NEW d \in Calls, h' = [h EXCEPT ![d] = h'[d]], h'[d].gone = "no"
        PROVE  \A c \in Calls : h'[c].gone = "no"
    BY <1>1, <1>2
  <1>3. ASSUME NEW d \in Calls, HandlerStep(d)
        PROVE  h' = [h EXCEPT ![d] = h'[d]] /\ h'[d].gone = "no"
    BY <1>1, <1>3, StepIsMove DEF HandlerMove, nextCall
  <1>4. ASSUME NEW d \in Calls, Called(d)
        PROVE  h' = [h EXCEPT ![d] = h'[d]] /\ h'[d].gone = "no"
    <2>1. \E op, o : Started(d, op, o)
      BY <1>1, <1>4, CreateVolumeStarted, DeleteVolumeStarted, CreateSnapshotStarted,
         DeleteSnapshotStarted DEF Called
    <2> QED
      BY <2>1 DEF Started
  <1>5. ASSUME NEW d \in Calls, Reply(d) PROVE \A c \in Calls : h'[c].gone = "no"
    BY <1>1, <1>5 DEF Reply
  <1>6. ~Crash /\ \A d \in Calls : ~Abandon(d)
    BY DEF Crash, Abandon
  <1>7. CASE InformerStep \/ \E o \in Objects : ReleaseObject(o)
    BY <1>7 DEF InformerStep, ReleaseObject
  <1> QED
    BY <1>2, <1>3, <1>4, <1>5, <1>6, <1>7
       DEF ControllerNext, CallVolume, CallSnapshot, Called

LEMMA RemovalKept ==
  ASSUME VolumeInv, RestoreInv, DistinctVolumes, Serial, CachesOK, ControllerNext,
         NEW n \in Names, claim[n].cid = None, volumePath(n) # None, Removal(n)
  PROVE  Removal(n)'
  <1>1. IndInv /\ claim' = claim /\ DistinctIDs /\ n \in Objects
    BY ControllerSteps, SnapshotsKept DEF VolumeInv, DistinctVolumes, Objects
  <1>2. volumePath(n)' = volumePath(n)
    BY <1>1, SameClaim
  <1> SUFFICES ASSUME faults' = 0
               PROVE  /\ \A c \in Calls : h'[c].gone = "no"
                      /\ \A c \in Calls :
                           h'[c].op = "DeleteVolume" /\ h'[c].obj = n =>
                             /\ h'[c].pc \in {"dv_GetVolumeAttributes", "dv_RmMFS", "done"}
                             /\ h'[c].pc = "dv_RmMFS" => h'[c].path = volumePath(n)
                             /\ h'[c].pc = "done" /\ h'[c].code = "OK"
                                  => mfs'[volumePath(n)] = None
                      /\ phase'[n] = "gone" => mfs'[volumePath(n)] = None
    BY <1>2 DEF Removal
  <1>3. faults = 0
    <2>1. faults \in Nat
      BY DEF VolumeInv, IndInv, TypeOK
    <2> QED
      BY <2>1, FaultsGrow
  <1>4. \A c \in Calls : h'[c].gone = "no"
    BY <1>3, NoneGivesUp DEF Removal
  <1>5. ASSUME NEW c \in Calls, h'[c].op = "DeleteVolume", h'[c].obj = n
        PROVE  /\ h'[c].pc \in {"dv_GetVolumeAttributes", "dv_RmMFS", "done"}
               /\ h'[c].pc = "dv_RmMFS" => h'[c].path = volumePath(n)
               /\ h'[c].pc = "done" /\ h'[c].code = "OK" => mfs'[volumePath(n)] = None
    <2>1. CASE Stands(c)
      <3>1. /\ h[c].op = "DeleteVolume" /\ h[c].obj = n
            /\ h'[c].pc = h[c].pc /\ h'[c].path = h[c].path /\ h'[c].code = h[c].code
        BY <1>5, <2>1 DEF Stands
      <3>2. phase[n] # "wanted"
        BY <3>1 DEF VolumeInv, OwnersInv, PhasesOK
      <3> QED
        BY <1>3, <3>1, <3>2, TreesOnlyGo DEF Removal
    <2>2. CASE HandlerStep(c)
      <3>1. h[c].op = "DeleteVolume" /\ h[c].obj = n /\ Holding(c)
        BY <1>1, <1>5, <2>2, StepIsMove DEF HandlerMove
      <3>2. DeleteVolumeStep(c)
        BY <1>1, <2>2, <3>1, StepOps DEF HandlerStep
      <3>3. CachesCurrent
        BY <3>1, NotSteps DEF Holding, Serial
      <3>4. /\ h[c].gone = "no"
            /\ h[c].pc \in {"dv_GetVolumeAttributes", "dv_RmMFS", "done"}
            /\ h[c].pc = "dv_RmMFS" => h[c].path = volumePath(n)
        BY <1>3, <3>1 DEF Removal
      <3> QED
        BY <1>1, <1>3, <3>1, <3>2, <3>3, <3>4, RemovalStep
    <2>3. CASE h'[c] = Idle
      BY <1>5, <2>3, ControllerAssumption DEF Idle, Ops
    <2>4. CASE Called(c)
      <3>1. DeleteVolume(c, n)
        BY <1>1, <1>5, <2>4, CreateVolumeStarted, DeleteVolumeStarted,
           CreateSnapshotStarted, DeleteSnapshotStarted DEF Called, Started
      <3> QED
        BY <1>1, <3>1, DeleteVolumeStarted, NotSteps DEF Started
    <2> QED
      BY <1>1, <2>1, <2>2, <2>3, <2>4, HandlerChanges
  <1>6. ASSUME phase'[n] = "gone" PROVE mfs'[volumePath(n)] = None
    <2>1. CASE phase[n] = "gone"
      BY <1>3, <2>1, TreesOnlyGo DEF Removal
    <2>2. CASE phase[n] # "gone"
      <3>1. PICK c \in Calls : Answered(c, "DeleteVolume", n)
        BY <1>1, <1>6, <2>2, ObjectAssumption, PhaseSteps
      <3>2. mfs' = mfs
        BY <3>1 DEF Answered, Reply, ipfsVars
      <3> QED
        BY <1>3, <3>1, <3>2 DEF Answered, Removal
    <2> QED
      BY <2>1, <2>2
  <1> QED
    BY <1>4, <1>5, <1>6
-----------------------------------------------------------------------------
(***************************************************************************)
(* DriftBounded.  The things that can be out of step are pins and trees; a *)
(* call works on one of them.  Whatever else is out of step was paid for   *)
(* by earlier failures.  The call's own thing is paid for too once the     *)
(* call has met a failure or was given up on; until then it is in step, at *)
(* first with the API as it is and at the end as the reply will leave it.  *)
(***************************************************************************)

\* What a content p of the PVs and v of the snapshots wants to be there.
WantsPin(p, v, d) ==
  \/ \E n \in Names : p[n] # None /\ p[n].pinning /\ p[n].cid = d
  \/ \E s \in Snaps : v[s] = d

WantsTree(p, q) ==
  \E n \in Names : p[n] # None /\ ~p[n].readonly /\ p[n].mfspath = q

\* How pins P and trees m differ from that.
DriftOf(P, m, p, v) ==
  {<<"pin", d>> : d \in {x \in CIDs : ~(x \in P <=> WantsPin(p, v, x))}}
  \cup {<<"tree", q>> : q \in {x \in Paths : ~(m[x] # None <=> WantsTree(p, x))}}

\* The trees, without the directories that only lead to them.
Trees == [p \in Paths |-> IF Leads(p) THEN None ELSE mfs[p]]

Drift == DriftOf(pinned, Trees, pv, vsc)

\* The API once the call is recorded.
PVAfter(c) ==
  IF h[c].op = "CreateVolume" THEN [pv EXCEPT ![h[c].obj] = VolumeContext(h[c].obj)]
  ELSE IF h[c].op = "DeleteVolume" THEN [pv EXCEPT ![h[c].obj] = None]
  ELSE pv

VSCAfter(c) ==
  IF h[c].op = "CreateSnapshot" THEN [vsc EXCEPT ![h[c].obj] = h[c].cid]
  ELSE IF h[c].op = "DeleteSnapshot" THEN [vsc EXCEPT ![h[c].obj] = None]
  ELSE vsc

After(c) == DriftOf(pinned, Trees, PVAfter(c), VSCAfter(c))

\* The one pin or tree that a call works on.
Thing(c) ==
  IF h[c].op = "CreateSnapshot" THEN <<"pin", h[c].cid>>
  ELSE IF h[c].op = "DeleteSnapshot" THEN <<"pin", vsc[h[c].obj]>>
  ELSE IF claim[h[c].obj].cid # None THEN <<"pin", claim[h[c].obj].cid>>
  ELSE <<"tree", volumePath(h[c].obj)>>

Bounded(S, k) == IsFiniteSet(S) /\ Cardinality(S) <= k

\* The call has done what it is for.
Settled(c) ==
  \/ h[c].pc = "done" /\ h[c].code = "OK"
  \/ h[c].pc = "dv_RmMFS" /\ claim[h[c].obj].cid # None

Accounted(c) ==
  \/ Bounded(Drift \cup {Thing(c)}, faults)
  \/ /\ h[c].gone = "no"
     /\ Bounded(IF Settled(c) THEN After(c) ELSE Drift, faults)

\* Other owners of the CID a deletion is about.
OtherVolume(c) ==
  \E n \in Names \ {h[c].obj} :
    pv[n] # None /\ pv[n].pinning /\ pv[n].cid = h[c].cid

OtherSnapshot(c) == \E s \in Snaps \ {h[c].obj} : vsc[s] = h[c].cid

\* What the steps of a call know of its thing and of its owners.
KnownOK(c) ==
  /\ h[c].pc \notin RestoreSteps
  /\ h[c].pc \in {"cv_MkdirMFS", "cs_GetVolumeAttributes", "cs_ResolveMFSCID"}
       => h[c].cid = None
  /\ h[c].pc \in {"dv_ListVolumes", "dv_ListSnapshots", "dv_UnpinCID"}
       => h[c].cid = claim[h[c].obj].cid /\ claim[h[c].obj].pinning
  /\ h[c].pc \in {"dv_ListVolumes", "dv_ListSnapshots", "dv_UnpinCID", "dv_RmMFS"}
       => h[c].path = IF claim[h[c].obj].cid = None THEN volumePath(h[c].obj)
                      ELSE None
  /\ h[c].pc \in {"dv_ListSnapshots", "ds_ListSnapshots"}
       => (h[c].refs <=> OtherVolume(c))
  /\ h[c].pc \in {"dv_UnpinCID", "ds_UnpinCID"}
       => ~OtherVolume(c) /\ ~OtherSnapshot(c)

DriftInv ==
  /\ \A n \in Names : pv[n] # None => Exists(n)
  /\ \A s \in Snaps : vsc[s] # None => Exists(s)
  /\ \A c \in Calls : h[c].pc # "idle" => Accounted(c) /\ KnownOK(c)
  /\ (\A c \in Calls : h[c].pc = "idle") => Bounded(Drift, faults)

\* A restore whose snapshot is gone from IPFS leaves a tree and no failure.
NothingRestored == \A k \in ClaimSet : \A n \in Names : k[n].source \notin Snaps

-----------------------------------------------------------------------------
\* Counting what is out of step.
LEMMA BoundedSubset ==
  ASSUME NEW S, NEW T, NEW k \in Nat, NEW j \in Nat, Bounded(S, k), T \subseteq S,
         k <= j
  PROVE  Bounded(T, j)
  <1>1. IsFiniteSet(T) /\ Cardinality(T) <= Cardinality(S)
    BY FS_Subset DEF Bounded
  <1>2. Cardinality(T) \in Nat /\ Cardinality(S) \in Nat
    BY <1>1, FS_CardinalityType DEF Bounded
  <1> QED
    BY <1>1, <1>2 DEF Bounded

LEMMA BoundedAdd ==
  ASSUME NEW S, NEW e, NEW k \in Nat, Bounded(S \ {e}, k)
  PROVE  Bounded(S \cup {e}, k + 1)
  <1>1. IsFiniteSet(S \ {e})
    BY DEF Bounded
  <1>2. /\ IsFiniteSet((S \ {e}) \cup {e})
        /\ Cardinality((S \ {e}) \cup {e}) = Cardinality(S \ {e}) + 1
    BY <1>1, FS_AddElement
  <1>3. (S \ {e}) \cup {e} = S \cup {e}
    OBVIOUS
  <1>4. Cardinality(S \ {e}) \in Nat
    BY <1>1, FS_CardinalityType
  <1> QED
    BY <1>2, <1>3, <1>4 DEF Bounded

\* One that is not there counts as much as any other.
LEMMA BoundedSwap ==
  ASSUME NEW S, NEW d, NEW e, NEW k \in Nat, d \notin S, Bounded(S \cup {d}, k)
  PROVE  Bounded(S \cup {e}, k)
  <1>1. IsFiniteSet(S)
    BY FS_Subset DEF Bounded
  <1>2. Cardinality(S \cup {d}) = Cardinality(S) + 1
    BY <1>1, FS_AddElement
  <1>3. IsFiniteSet(S \ {e}) /\ Cardinality(S \ {e}) <= Cardinality(S)
    BY <1>1, FS_Subset
  <1>4. Cardinality(S) \in Nat /\ Cardinality(S \ {e}) \in Nat
    BY <1>1, <1>3, FS_CardinalityType
  <1>5. Bounded(S \ {e}, Cardinality(S)) /\ Cardinality(S) + 1 <= k
    BY <1>2, <1>3 DEF Bounded
  <1>6. Bounded(S \cup {e}, Cardinality(S) + 1)
    BY <1>4, <1>5, BoundedAdd
  <1> QED
    BY <1>4, <1>5, <1>6, BoundedSubset

\* One thing, looked at alone.
LEMMA DriftMember ==
  ASSUME NEW P, NEW m, NEW p, NEW v
  PROVE  /\ \A d : <<"pin", d>> \in DriftOf(P, m, p, v)
                     <=> d \in CIDs /\ ~(d \in P <=> WantsPin(p, v, d))
         /\ \A q : <<"tree", q>> \in DriftOf(P, m, p, v)
                     <=> q \in Paths /\ ~(m[q] # None <=> WantsTree(p, q))
         /\ \A x \in DriftOf(P, m, p, v) :
              \/ \E d \in CIDs : x = <<"pin", d>>
              \/ \E q \in Paths : x = <<"tree", q>>
  <1>1. \A d, q : <<"pin", d>> # <<"tree", q>>
    OBVIOUS
  <1>2. /\ \A d, x : <<"pin", d>> = <<"pin", x>> => d = x
        /\ \A d, x : <<"tree", d>> = <<"tree", x>> => d = x
    OBVIOUS
  <1>3. ASSUME NEW d
        PROVE  <<"pin", d>> \in DriftOf(P, m, p, v)
                 <=> d \in CIDs /\ ~(d \in P <=> WantsPin(p, v, d))
    BY <1>1, <1>2 DEF DriftOf
  <1>4. ASSUME NEW q
        PROVE  <<"tree", q>> \in DriftOf(P, m, p, v)
                 <=> q \in Paths /\ ~(m[q] # None <=> WantsTree(p, q))
    BY <1>1, <1>2 DEF DriftOf
  <1>5. ASSUME NEW x \in DriftOf(P, m, p, v)
        PROVE  \/ \E d \in CIDs : x = <<"pin", d>>
               \/ \E q \in Paths : x = <<"tree", q>>
    BY DEF DriftOf
  <1> QED
    BY <1>3, <1>4, <1>5

\* Where pins, trees and owners differ at one thing only, so does the drift.
LEMMA DriftApart ==
  ASSUME NEW e, NEW P, NEW Q, NEW m, NEW n, NEW p, NEW q, NEW v, NEW w,
         \A d \in CIDs : <<"pin", d>> # e =>
           (d \in P <=> d \in Q) /\ (WantsPin(p, v, d) <=> WantsPin(q, w, d)),
         \A x \in Paths : <<"tree", x>> # e =>
           (m[x] # None <=> n[x] # None) /\ (WantsTree(p, x) <=> WantsTree(q, x))
  PROVE  DriftOf(P, m, p, v) \ {e} = DriftOf(Q, n, q, w) \ {e}
  <1>1. ASSUME NEW x, x # e
        PROVE  x \in DriftOf(P, m, p, v) <=> x \in DriftOf(Q, n, q, w)
    <2>1. CASE \E d \in CIDs : x = <<"pin", d>>
      BY <1>1, <2>1, DriftMember
    <2>2. CASE \E y \in Paths : x = <<"tree", y>>
      BY <1>1, <2>2, DriftMember
    <2> QED
      BY <2>1, <2>2, DriftMember
  <1> QED
    BY <1>1

-----------------------------------------------------------------------------
\* A volume call changes what is wanted for its volume only.
LEMMA VolumeWants ==
  ASSUME VolumeInv, NEW n \in Names, NEW x \in {VolumeContext(n), None}
  PROVE  LET p == [pv EXCEPT ![n] = x]
         IN  /\ \A d \in CIDs : d # claim[n].cid \/ ~claim[n].pinning
                  => (WantsPin(p, vsc, d) <=> WantsPin(pv, vsc, d))
             /\ \A q \in Paths : claim[n].cid # None \/ q # volumePath(n)
                  => (WantsTree(p, q) <=> WantsTree(pv, q))
  <1> DEFINE p == [pv EXCEPT ![n] = x]
  <1>1. pv \in PVs /\ pv[n] \in {VolumeContext(n), None}
    BY DEF VolumeInv, IndInv, TypeOK, StoresTypeOK, OwnersInv, ContextsOK
  <1>2. p[n] = x /\ \A m \in Names \ {n} : p[m] = pv[m]
    BY <1>1 DEF PVs
  <1>3. /\ VolumeContext(n).cid = claim[n].cid
        /\ VolumeContext(n).pinning = claim[n].pinning
        /\ VolumeContext(n).readonly = (claim[n].cid # None)
        /\ claim[n].cid = None => VolumeContext(n).mfspath = volumePath(n)
    BY DEF VolumeContext
  <1> HIDE DEF p
  <1>4. ASSUME NEW d \in CIDs, d # claim[n].cid \/ ~claim[n].pinning
        PROVE  WantsPin(p, vsc, d) <=> WantsPin(pv, vsc, d)
    BY <1>1, <1>2, <1>3, <1>4 DEF WantsPin
  <1>5. ASSUME NEW q \in Paths, claim[n].cid # None \/ q # volumePath(n)
        PROVE  WantsTree(p, q) <=> WantsTree(pv, q)
    BY <1>1, <1>2, <1>3, <1>5 DEF WantsTree
  <1> QED
    BY <1>4, <1>5 DEF p

\* A snapshot call: for the CID the snapshot had or gets only.
LEMMA SnapshotWants ==
  ASSUME VolumeInv, NEW s \in Snaps, NEW x
  PROVE  \A d \in CIDs : d # vsc[s] /\ d # x
           => (WantsPin(pv, [vsc EXCEPT ![s] = x], d) <=> WantsPin(pv, vsc, d))
  <1> DEFINE v == [vsc EXCEPT ![s] = x]
  <1>1. vsc \in VSCs
    BY DEF VolumeInv, IndInv, TypeOK, StoresTypeOK
  <1>2. v[s] = x /\ \A t \in Snaps \ {s} : v[t] = vsc[t]
    BY <1>1 DEF VSCs
  <1> HIDE DEF v
  <1>3. ASSUME NEW d \in CIDs, d # vsc[s], d # x
        PROVE  WantsPin(pv, v, d) <=> WantsPin(pv, vsc, d)
    BY <1>2, <1>3 DEF WantsPin
  <1> QED
    BY <1>3 DEF v

\* Recording a call puts its own thing in step, or out of it, and no other.
LEMMA AfterApart ==
  ASSUME VolumeInv, DriftInv, NEW c \in Calls, h[c].pc \in Steps \cup {"done"},
         h[c].gone = "no", NEW P, NEW m
  PROVE  DriftOf(P, m, PVAfter(c), VSCAfter(c)) \ {Thing(c)}
           = DriftOf(P, m, pv, vsc) \ {Thing(c)}
  <1> DEFINE o == h[c].obj
  <1>1. HandlerOK(h[c]) /\ h[c].op \in Ops
    BY HandlerFacts DEF VolumeInv, HandlerOK, Steps, Ops
  <1>2. /\ \A a, b : <<"pin", a>> = <<"pin", b>> => a = b
        /\ \A a, b : <<"tree", a>> = <<"tree", b>> => a = b
    OBVIOUS
  <1>3. CASE h[c].op \in {"CreateVolume", "DeleteVolume"}
    <2>1. o \in Names /\ VSCAfter(c) = vsc
      BY <1>1, <1>3 DEF HandlerOK, VSCAfter
    <2>2. PICK x \in {VolumeContext(o), None} : PVAfter(c) = [pv EXCEPT ![o] = x]
      BY <1>3 DEF PVAfter
    <2>3. Thing(c) = IF claim[o].cid # None THEN <<"pin", claim[o].cid>>
                     ELSE <<"tree", volumePath(o)>>
      BY <1>3 DEF Thing
    <2>4. \A d \in CIDs : <<"pin", d>> # Thing(c) => d # claim[o].cid
      BY <2>3, NoneAssumption
    <2>5. \A q \in Paths : <<"tree", q>> # Thing(c)
                             => claim[o].cid # None \/ q # volumePath(o)
      BY <2>3
    <2> HIDE DEF o
    <2>6. /\ \A d \in CIDs : <<"pin", d>> # Thing(c)
               => (WantsPin(PVAfter(c), vsc, d) <=> WantsPin(pv, vsc, d))
          /\ \A q \in Paths : <<"tree", q>> # Thing(c)
               => (WantsTree(PVAfter(c), q) <=> WantsTree(pv, q))
      BY <2>1, <2>2, <2>4, <2>5, VolumeWants
    <2> QED
      BY <2>1, <2>6, DriftApart
  <1>4. CASE h[c].op \in {"CreateSnapshot", "DeleteSnapshot"}
    <2>1. o \in Snaps /\ PVAfter(c) = pv
      BY <1>1, <1>4 DEF HandlerOK, PVAfter
    <2>2. PICK x : /\ VSCAfter(c) = [vsc EXCEPT ![o] = x]
                   /\ h[c].op = "CreateSnapshot" => x = h[c].cid
                   /\ h[c].op = "DeleteSnapshot" => x = None
      BY <1>4 DEF VSCAfter
    <2>3. h[c].op = "CreateSnapshot" => vsc[o] = None
      BY <2>1 DEF DriftInv, Exists, VolumeInv, OwnersInv, PhasesOK
    <2>4. \A d \in CIDs : <<"pin", d>> # Thing(c) => d # vsc[o] /\ d # x
      BY <1>4, <2>2, <2>3, NoneAssumption DEF Thing
    <2> HIDE DEF o
    <2>5. \A d \in CIDs : <<"pin", d>> # Thing(c)
               => (WantsPin(pv, VSCAfter(c), d) <=> WantsPin(pv, vsc, d))
      <3>1. \A d \in CIDs : d # vsc[o] /\ d # x
               => (WantsPin(pv, [vsc EXCEPT ![o] = x], d) <=> WantsPin(pv, vsc, d))
        BY <2>1, SnapshotWants, Zenon
      <3> QED
        BY <2>2, <2>4, <3>1
    <2> QED
      BY <2>1, <2>5, DriftApart
  <1> QED
    BY <1>1, <1>3, <1>4 DEF Ops

\* What a create call made is wanted once it is recorded.
LEMMA CreatedInStep ==
  ASSUME VolumeInv, NEW c \in Calls, h[c].pc \in Steps \cup {"done"}, NEW P, NEW m,
         \/ /\ h[c].op = "CreateVolume"
            /\ IF claim[h[c].obj].cid # None
               THEN claim[h[c].obj].pinning /\ claim[h[c].obj].cid \in P
               ELSE m[volumePath(h[c].obj)] # None
         \/ h[c].op = "CreateSnapshot" /\ h[c].cid \in P
  PROVE  Thing(c) \notin DriftOf(P, m, PVAfter(c), VSCAfter(c))
  <1> DEFINE o == h[c].obj
  <1>1. HandlerOK(h[c]) /\ pv \in PVs /\ vsc \in VSCs
    BY HandlerFacts DEF VolumeInv, IndInv, TypeOK, StoresTypeOK
  <1>2. CASE h[c].op = "CreateVolume"
    <2>1. o \in Names /\ PVAfter(c) = [pv EXCEPT ![o] = VolumeContext(o)]
      BY <1>1, <1>2 DEF HandlerOK, PVAfter
    <2>2. PVAfter(c)[o] = VolumeContext(o)
      BY <1>1, <2>1 DEF PVs
    <2>3. VolumeContext(o) # None
      BY <2>1, VolumeContextType, AttributesAssumption DEF VolumeInv, IndInv
    <2>4. /\ VolumeContext(o).cid = claim[o].cid
          /\ VolumeContext(o).pinning = claim[o].pinning
          /\ VolumeContext(o).readonly = (claim[o].cid # None)
          /\ claim[o].cid = None => VolumeContext(o).mfspath = volumePath(o)
      BY DEF VolumeContext
    <2>5. CASE claim[o].cid # None
      <3>1. WantsPin(PVAfter(c), VSCAfter(c), claim[o].cid) /\ claim[o].cid \in P
        BY <1>2, <2>1, <2>2, <2>3, <2>4, <2>5 DEF WantsPin
      <3> QED
        BY <1>2, <2>5, <3>1, DriftMember DEF Thing
    <2>6. CASE claim[o].cid = None
      <3>1. WantsTree(PVAfter(c), volumePath(o)) /\ m[volumePath(o)] # None
        BY <1>2, <2>1, <2>2, <2>3, <2>4, <2>6 DEF WantsTree
      <3> QED
        BY <1>2, <2>6, <3>1, DriftMember DEF Thing
    <2> QED
      BY <2>5, <2>6
  <1>3. CASE h[c].op = "CreateSnapshot"
    <2>1. o \in Snaps /\ VSCAfter(c) = [vsc EXCEPT ![o] = h[c].cid]
      BY <1>1, <1>3 DEF HandlerOK, VSCAfter
    <2>2. VSCAfter(c)[o] = h[c].cid
      BY <1>1, <2>1 DEF VSCs
    <2>3. WantsPin(PVAfter(c), VSCAfter(c), h[c].cid) /\ h[c].cid \in P
      BY <1>3, <2>1, <2>2 DEF WantsPin
    <2> QED
      BY <1>3, <2>3, DriftMember DEF Thing
  <1> QED
    BY <1>2, <1>3
\* What a deletion removed, and nobody else owns, is not wanted any more.
LEMMA DeletedInStep ==
  ASSUME VolumeInv, DistinctVolumes, NEW c \in Calls,
         h[c].pc \in Steps \cup {"done"}, NEW P, NEW m,
         \/ /\ h[c].op = "DeleteVolume" /\ claim[h[c].obj].cid = None
            /\ m[volumePath(h[c].obj)] = None
         \/ /\ \/ /\ h[c].op = "DeleteVolume" /\ claim[h[c].obj].cid # None
                  /\ h[c].cid = claim[h[c].obj].cid
               \/ h[c].op = "DeleteSnapshot" /\ h[c].cid = vsc[h[c].obj]
            /\ h[c].cid \notin P /\ ~OtherVolume(c) /\ ~OtherSnapshot(c)
  PROVE  Thing(c) \notin DriftOf(P, m, PVAfter(c), VSCAfter(c))
  <1> DEFINE o == h[c].obj
  <1>1. HandlerOK(h[c]) /\ pv \in PVs /\ vsc \in VSCs
    BY HandlerFacts DEF VolumeInv, IndInv, TypeOK, StoresTypeOK
  <1>2. CASE /\ h[c].op = "DeleteVolume" /\ claim[o].cid = None
             /\ m[volumePath(o)] = None
    <2>1. o \in Names /\ PVAfter(c) = [pv EXCEPT ![o] = None]
      BY <1>1, <1>2 DEF HandlerOK, PVAfter
    <2>2. PVAfter(c)[o] = None /\ \A n \in Names \ {o} : PVAfter(c)[n] = pv[n]
      BY <1>1, <2>1 DEF PVs
    <2>3. ASSUME NEW n \in Names, n # o, pv[n] # None, ~pv[n].readonly,
                 pv[n].mfspath = volumePath(o), volumePath(o) \in Paths
          PROVE  FALSE
      <3>1. pv[n] = VolumeContext(n)
        BY <2>3 DEF VolumeInv, OwnersInv, ContextsOK
      <3>2. /\ VolumeContext(n).readonly = (claim[n].cid # None)
            /\ claim[n].cid = None => VolumeContext(n).mfspath = volumePath(n)
        BY DEF VolumeContext
      <3>3. claim[n].cid = None /\ volumePath(n) = volumePath(o)
        BY <2>3, <3>1, <3>2
      <3>4. volumePath(n) # None
        BY <2>3, <3>3, PathAssumption, NoneAssumption
      <3> QED
        BY <1>2, <2>1, <2>3, <3>3, <3>4, OwnTree DEF Apart
    <2>4. volumePath(o) \in Paths => ~WantsTree(PVAfter(c), volumePath(o))
      BY <2>2, <2>3 DEF WantsTree
    <2> QED
      BY <1>2, <2>4, DriftMember DEF Thing
  <1>3. CASE /\ \/ /\ h[c].op = "DeleteVolume" /\ claim[o].cid # None
                   /\ h[c].cid = claim[o].cid
                \/ h[c].op = "DeleteSnapshot" /\ h[c].cid = vsc[o]
             /\ h[c].cid \notin P /\ ~OtherVolume(c) /\ ~OtherSnapshot(c)
    <2>1. Thing(c) = <<"pin", h[c].cid>>
      BY <1>3 DEF Thing
    <2>2. \A n \in Names : \/ PVAfter(c)[n] = None
                           \/ PVAfter(c)[n] = pv[n] /\ n # o
      BY <1>1, <1>3, ObjectAssumption DEF HandlerOK, PVAfter, PVs
    <2>3. \A s \in Snaps : \/ VSCAfter(c)[s] = None
                           \/ VSCAfter(c)[s] = vsc[s] /\ s # o
      BY <1>1, <1>3, ObjectAssumption DEF HandlerOK, VSCAfter, VSCs
    <2>4. h[c].cid # None => ~WantsPin(PVAfter(c), VSCAfter(c), h[c].cid)
      BY <1>3, <2>2, <2>3 DEF WantsPin, OtherVolume, OtherSnapshot
    <2> QED
      BY <1>3, <2>1, <2>4, DriftMember, NoneAssumption
  <1> QED
    BY <1>2, <1>3

\* Without pinning, or with other owners, recording changes nothing.
LEMMA KeptInStep ==
  ASSUME VolumeInv, NEW c \in Calls, h[c].pc \in Steps \cup {"done"}, NEW P, NEW m,
         \/ /\ h[c].op \in {"CreateVolume", "DeleteVolume"}
            /\ claim[h[c].obj].cid # None /\ ~claim[h[c].obj].pinning
         \/ /\ \/ /\ h[c].op = "DeleteVolume" /\ claim[h[c].obj].cid # None
                  /\ h[c].cid = claim[h[c].obj].cid
               \/ h[c].op = "DeleteSnapshot" /\ h[c].cid = vsc[h[c].obj]
            /\ OtherVolume(c) \/ OtherSnapshot(c)
  PROVE  DriftOf(P, m, PVAfter(c), VSCAfter(c)) = DriftOf(P, m, pv, vsc)
  <1> DEFINE o == h[c].obj
  <1>1. HandlerOK(h[c]) /\ pv \in PVs /\ vsc \in VSCs
    BY HandlerFacts DEF VolumeInv, IndInv, TypeOK, StoresTypeOK
  <1>2. SUFFICES /\ \A d \in CIDs :
                      WantsPin(PVAfter(c), VSCAfter(c), d) <=> WantsPin(pv, vsc, d)
                 /\ \A q \in Paths : WantsTree(PVAfter(c), q) <=> WantsTree(pv, q)
    BY DEF DriftOf
  <1>3. ASSUME OtherVolume(c) \/ OtherSnapshot(c)
        PROVE  /\ WantsPin(pv, vsc, h[c].cid)
               /\ h[c].op \in {"DeleteVolume", "DeleteSnapshot"}
                    => WantsPin(PVAfter(c), VSCAfter(c), h[c].cid)
    <2>1. WantsPin(pv, vsc, h[c].cid)
      BY <1>3 DEF WantsPin, OtherVolume, OtherSnapshot
    <2>2. ASSUME h[c].op \in {"DeleteVolume", "DeleteSnapshot"}
          PROVE  /\ \A n \in Names \ {o} : PVAfter(c)[n] = pv[n]
                 /\ \A s \in Snaps \ {o} : VSCAfter(c)[s] = vsc[s]
      BY <1>1, <2>2 DEF HandlerOK, PVAfter, PVs, VSCAfter, VSCs
    <2> QED
      BY <1>3, <2>1, <2>2 DEF WantsPin, OtherVolume, OtherSnapshot
  <1>4. CASE h[c].op \in {"CreateVolume", "DeleteVolume"} /\ claim[o].cid # None
    <2>1. o \in Names /\ VSCAfter(c) = vsc
      BY <1>1, <1>4 DEF HandlerOK, VSCAfter
    <2>2. PICK x \in {VolumeContext(o), None} : PVAfter(c) = [pv EXCEPT ![o] = x]
      BY <1>4 DEF PVAfter
    <2> HIDE DEF o
    <2>3. /\ \A d \in CIDs : d # claim[o].cid \/ ~claim[o].pinning
               => (WantsPin(PVAfter(c), vsc, d) <=> WantsPin(pv, vsc, d))
          /\ \A q \in Paths : WantsTree(PVAfter(c), q) <=> WantsTree(pv, q)
      BY <1>4, <2>1, <2>2, VolumeWants
    <2> QED
      BY <1>3, <1>4, <2>1, <2>3 DEF o
  <1>5. CASE h[c].op = "DeleteSnapshot"
    <2>1. o \in Snaps /\ PVAfter(c) = pv /\ VSCAfter(c) = [vsc EXCEPT ![o] = None]
      BY <1>1, <1>5 DEF HandlerOK, PVAfter, VSCAfter
    <2>2. h[c].cid = vsc[o] /\ (OtherVolume(c) \/ OtherSnapshot(c))
      BY <1>5
    <2>3. \A d \in CIDs : d # h[c].cid
            => (WantsPin(pv, VSCAfter(c), d) <=> WantsPin(pv, vsc, d))
      <3> HIDE DEF o
      <3>1. \A d \in CIDs : d # vsc[o] /\ d # None
              => (WantsPin(pv, [vsc EXCEPT ![o] = None], d) <=> WantsPin(pv, vsc, d))
        BY <2>1, SnapshotWants
      <3> QED
        BY <2>1, <2>2, <3>1, NoneAssumption
    <2> QED
      BY <1>3, <1>5, <2>1, <2>2, <2>3
  <1> QED
    BY <1>4, <1>5

-----------------------------------------------------------------------------
(***************************************************************************)
(* With current caches cidReferenceUsage counts the other owners exactly.  *)
(***************************************************************************)
LEMMA SomeCounted ==
  ASSUME NEW S, NEW T, IsFiniteSet(T), S \subseteq T
  PROVE  Cardinality(S) \in Nat /\ (Cardinality(S) > 0 <=> S # {})
  <1>1. IsFiniteSet(S)
    BY FS_Subset
  <1>2. Cardinality(S) \in Nat /\ (Cardinality(S) = 0 <=> S = {})
    BY <1>1, FS_CardinalityType, FS_EmptySet
  <1> QED
    BY <1>2

LEMMA VolumesFound ==
  ASSUME VolumeInv, DistinctIDs, pvCache = pv, NEW c \in Calls,
         NEW x, \/ h[c].pc = "dv_ListVolumes" /\ x = h[c].key[2]
                \/ h[c].pc = "ds_ListVolumes" /\ x = None
  PROVE  volumeRefs(h[c].cid, x) > 0 <=> OtherVolume(c)
  <1> DEFINE S == {n \in Names : /\ pvCache[n] # None
                                 /\ pvCache[n].handle # x
                                 /\ pvCache[n].cid = h[c].cid
                                 /\ pvCache[n].pinning}
  <1>1. volumeRefs(h[c].cid, x) > 0 <=> S # {}
    BY SomeCounted, ObjectAssumption DEF volumeRefs
  <1>2. \A n \in Names : pv[n] # None => pv[n].handle = sanitizeVolumeID[n]
    BY ContextFields DEF VolumeInv, OwnersInv, ContextsOK
  <1>3. \A n \in Names : sanitizeVolumeID[n] # x <=> n # h[c].obj
    <2>1. HandlerOK(h[c])
      BY HandlerFacts DEF VolumeInv
    <2>2. CASE h[c].pc = "dv_ListVolumes" /\ x = h[c].key[2]
      <3>1. h[c].op = "DeleteVolume" /\ Holding(c) /\ h[c].obj \in Names
        BY <2>1, <2>2 DEF HandlerOK, DeleteVolumeSteps, Holding, Steps
      <3>2. x = sanitizeVolumeID[h[c].obj]
        BY <2>2, <3>1 DEF VolumeInv, OwnersInv, KeysOK, VolumeKey
      <3> QED
        BY <3>1, <3>2 DEF DistinctIDs
    <2>3. CASE h[c].pc = "ds_ListVolumes" /\ x = None
      <3>1. h[c].obj \in Snaps
        BY <2>1, <2>3 DEF HandlerOK, DeleteSnapshotSteps
      <3> QED
        BY <2>3, <3>1, ObjectAssumption, PathAssumption, NoneAssumption
    <2> QED
      BY <2>2, <2>3
  <1>4. S # {} <=> OtherVolume(c)
    BY <1>2, <1>3 DEF OtherVolume
  <1> QED
    BY <1>1, <1>4

LEMMA SnapshotsFound ==
  ASSUME VolumeInv, vscCache = vsc, NEW c \in Calls,
         NEW b \in BOOLEAN, \/ h[c].pc = "dv_ListSnapshots" /\ ~b
                            \/ /\ h[c].pc = "ds_ListSnapshots" /\ b
                               /\ h[c].cid = vsc[h[c].obj]
  PROVE  snapshotRefs(h[c].cid, b) > 0 <=> OtherSnapshot(c)
  <1> DEFINE S == {s \in Snaps : vscCache[s] = h[c].cid}
             o == h[c].obj
  <1>1. Cardinality(S) \in Nat /\ (Cardinality(S) > 0 <=> S # {})
    BY SomeCounted, ObjectAssumption
  <1>2. HandlerOK(h[c])
    BY HandlerFacts DEF VolumeInv
  <1>3. CASE h[c].pc = "dv_ListSnapshots" /\ ~b
    <2>1. o \notin Snaps
      BY <1>2, <1>3, ObjectAssumption DEF HandlerOK, DeleteVolumeSteps
    <2>2. S # {} <=> OtherSnapshot(c)
      BY <2>1 DEF OtherSnapshot
    <2>3. snapshotRefs(h[c].cid, b) = Cardinality(S)
      BY <1>3 DEF snapshotRefs
    <2> QED
      BY <1>1, <2>2, <2>3
  <1>4. CASE h[c].pc = "ds_ListSnapshots" /\ b /\ h[c].cid = vsc[o]
    <2>1. o \in S
      BY <1>2, <1>4 DEF HandlerOK, DeleteSnapshotSteps
    <2>2. IsFiniteSet(S)
      BY ObjectAssumption, FS_Subset
    <2>3. Cardinality(S \ {o}) = Cardinality(S) - 1
      BY <2>1, <2>2, FS_RemoveElement
    <2>4. Cardinality(S \ {o}) > 0 <=> S \ {o} # {}
      BY SomeCounted, ObjectAssumption
    <2>5. S \ {o} # {} <=> OtherSnapshot(c)
      BY DEF OtherSnapshot
    <2>6. snapshotRefs(h[c].cid, b) = Cardinality(S) - 1
      <3>1. Cardinality(S) > 0
        BY <1>1, <2>1
      <3> QED
        BY <1>4, <3>1 DEF snapshotRefs
    <2> QED
      BY <2>3, <2>4, <2>5, <2>6
  <1> QED
    BY <1>3, <1>4
-----------------------------------------------------------------------------
(***************************************************************************)
(* A handler's step, as far as the drift goes: it moves the call's own     *)
(* thing at most, and unless it fails, or nobody waits for the answer, the *)
(* call stays unsettled with nothing moved, or is settled by it.           *)
(***************************************************************************)
Framed(c) ==
  /\ h'[c].op = h[c].op /\ h'[c].obj = h[c].obj
  /\ h'[c].gone = nextCall(h[c].gone)
  /\ UNCHANGED <<pv, vsc, claim>>

DriftMoves(c) ==
  /\ Drift' \ {Thing(c)'} = Drift \ {Thing(c)'}
  /\ Thing(c)' = Thing(c) \/ (Drift' = Drift /\ Thing(c) \notin Drift)
  /\ \/ faults' = faults + 1 /\ ~Settled(c)
     \/ faults' = faults /\ h[c].gone # "no"
     \/ faults' = faults /\ Settled(c) /\ Settled(c)' /\ After(c)' = After(c)
     \/ faults' = faults /\ ~Settled(c) /\ ~Settled(c)' /\ Drift' = Drift
     \/ faults' = faults /\ ~Settled(c) /\ Settled(c)' /\ After(c)' \subseteq Drift

LEMMA AccountedStep ==
  ASSUME VolumeInv, NEW c \in Calls, Accounted(c), h[c].gone \in {"no", "now", "before"},
         Framed(c), DriftMoves(c)
  PROVE  Accounted(c)'
  <1> DEFINE Paid == Bounded(Drift \cup {Thing(c)}, faults)
             B == Bounded(Drift' \cup {Thing(c)'}, faults')
  <1>1. faults \in Nat
    BY DEF VolumeInv, IndInv, TypeOK
  <1>2. Accounted(c)' <=> \/ B
                          \/ /\ h'[c].gone = "no"
                             /\ Settled(c)' => Bounded(After(c)', faults')
                             /\ ~Settled(c)' => Bounded(Drift', faults')
    BY DEF Accounted
  <1>3. \/ Paid
        \/ /\ h[c].gone = "no"
           /\ Settled(c) => Bounded(After(c), faults)
           /\ ~Settled(c) => Bounded(Drift, faults)
    BY DEF Accounted
  <1>4. h[c].gone = "no" => h'[c].gone = "no"
    BY DEF Framed, nextCall
  <1>5. CASE faults' = faults + 1 /\ ~Settled(c)
    <2>1. Bounded(Drift \ {Thing(c)'}, faults)
      <3>1. CASE Paid
        BY <1>1, <3>1, BoundedSubset
      <3>2. CASE Bounded(Drift, faults)
        BY <1>1, <3>2, BoundedSubset
      <3> QED
        BY <1>3, <1>5, <3>1, <3>2
    <2>2. Bounded(Drift' \ {Thing(c)'}, faults)
      BY <2>1 DEF DriftMoves
    <2>3. Bounded(Drift' \cup {Thing(c)'}, faults + 1)
      BY <1>1, <2>2, BoundedAdd
    <2> QED
      BY <1>2, <1>5, <2>3
  <1>6. CASE faults' = faults /\ Paid
    <2>1. CASE Thing(c)' = Thing(c)
      <3>1. Drift' \cup {Thing(c)'} = Drift \cup {Thing(c)}
        BY <2>1 DEF DriftMoves
      <3> QED
        BY <1>2, <1>6, <3>1
    <2>2. CASE Drift' = Drift /\ Thing(c) \notin Drift
      <3>1. Bounded(Drift \cup {Thing(c)'}, faults)
        BY <1>1, <1>6, <2>2, BoundedSwap
      <3> QED
        BY <1>2, <1>6, <2>2, <3>1
    <2> QED
      BY <2>1, <2>2 DEF DriftMoves
  <1>7. CASE faults' = faults /\ ~Paid
    <2>1. CASE Settled(c) /\ Settled(c)' /\ After(c)' = After(c)
      BY <1>2, <1>3, <1>4, <1>7, <2>1
    <2>2. CASE ~Settled(c) /\ ~Settled(c)' /\ Drift' = Drift
      BY <1>2, <1>3, <1>4, <1>7, <2>2
    <2>3. CASE ~Settled(c) /\ Settled(c)' /\ After(c)' \subseteq Drift
      <3>1. Bounded(After(c)', faults)
        BY <1>1, <1>3, <1>7, <2>3, BoundedSubset
      <3> QED
        BY <1>2, <1>3, <1>4, <1>7, <2>3, <3>1
    <2> QED
      BY <1>1, <1>3, <1>7, <2>1, <2>2, <2>3 DEF DriftMoves
  <1> QED
    BY <1>5, <1>6, <1>7 DEF DriftMoves

LEMMA SameTrees ==
  ASSUME mfs' = mfs, claim' = claim
  PROVE  Trees' = Trees
  <1>1. \A p : Leads(p)' <=> Leads(p)
    BY SameClaim
  <1> QED
    BY <1>1 DEF Trees

(***************************************************************************)
(* A call on the tree of one volume leaves the others as they are: nothing *)
(* is inside it, and what is around it only leads there.                   *)
(***************************************************************************)
LEMMA TreesMove ==
  ASSUME VolumeInv, DistinctVolumes, claim' = claim,
         NEW n \in Names, claim[n].cid = None, volumePath(n) # None, NEW o,
         \/ MkdirMFS(volumePath(n), o)
         \/ RmMFS(volumePath(n), o)
         \/ \E d \in CIDs : mfs' = Imported(volumePath(n), d)
  PROVE  /\ \A q \in Paths : q # volumePath(n) => Trees'[q] = Trees[q]
         /\ Trees[volumePath(n)] = mfs[volumePath(n)]
         /\ Trees'[volumePath(n)] = mfs'[volumePath(n)]
  <1> DEFINE p == volumePath(n)
  <1>1. p \in Paths /\ mfs \in [Paths -> CIDs \cup {None}]
    BY VolumePathUnderRoot, PathAssumption
    DEF VolumeInv, IndInv, TypeOK, IpfsTypeOK
  <1>2. \A q : Leads(q)' <=> Leads(q)
    BY SameClaim
  <1>3. ~Leads(p)
    <2> SUFFICES ASSUME NEW m \in Names, claim[m].cid = None,
                        volumePath(m) # None, volumePath(m) \in Below[p]
                 PROVE  FALSE
      BY DEF Leads
    <2>1. m = n
      BY OwnTree DEF Apart
    <2> QED
      BY <1>1, <2>1, NestingAssumption
  <1> HIDE DEF p
  <1>4. ASSUME NEW q \in Paths, q \in Below[p]
        PROVE  mfs[q] = None
    <2>1. ~Claimed(q)
      BY <1>3, <1>4, NoneAssumption, PathAssumption DEF Claimed, Leads
    <2>2. Below[q] \subseteq Below[p]
      BY <1>1, <1>4, NestingAssumption
    <2>3. ~Leads(q)
      BY <1>3, <2>2 DEF Leads
    <2> QED
      BY <2>1, <2>3 DEF VolumeInv, BranchInv, TreesOK
  <1>5. \A q \in Paths : p \in Below[q] => Leads(q)
    BY DEF Leads, p
  <1>6. \A q \in Paths : q # p /\ ~Leads(q) => mfs'[q] = mfs[q]
    BY <1>1, <1>4, <1>5 DEF MkdirMFS, RmMFS, Made, Removed, Imported, p
  <1>7. \A q \in Paths : q # p => Trees'[q] = Trees[q]
    BY <1>2, <1>6 DEF Trees
  <1>8. Trees[p] = mfs[p] /\ Trees'[p] = mfs'[p]
    BY <1>1, <1>2, <1>3 DEF Trees
  <1> QED
    BY <1>7, <1>8 DEF p

\* What recording the call would do is known before the step and after it.
LEMMA AfterStep ==
  ASSUME NEW c \in Calls, Framed(c), h[c].op = "CreateSnapshot" => h'[c].cid = h[c].cid
  PROVE  After(c)' = DriftOf(pinned', Trees', PVAfter(c), VSCAfter(c))
  <1>1. VolumeContext(h[c].obj)' = VolumeContext(h[c].obj)
    BY DEF Framed, VolumeContext, volumePath
  <1>2. PVAfter(c)' = PVAfter(c)
    BY <1>1 DEF Framed, PVAfter
  <1>3. VSCAfter(c)' = VSCAfter(c)
    BY DEF Framed, VSCAfter
  <1>4. After(c)' = DriftOf(pinned', Trees', PVAfter(c)', VSCAfter(c)')
    BY DEF After
  <1> QED
    BY <1>2, <1>3, <1>4

LEMMA SameThing ==
  ASSUME NEW c \in Calls, Framed(c), h[c].op = "CreateSnapshot" => h'[c].cid = h[c].cid
  PROVE  Thing(c)' = Thing(c)
  BY DEF Framed, Thing, volumePath

LEMMA DriftStep ==
  ASSUME NEW c \in Calls, Framed(c)
  PROVE  Drift' = DriftOf(pinned', Trees', pv, vsc)
  <1>1. Drift' = DriftOf(pinned', Trees', pv', vsc')
    BY DEF Drift
  <1> QED
    BY <1>1 DEF Framed

\* The call goes on, or answers with an error.
LEMMA StaysUnsettled ==
  ASSUME VolumeInv, NEW c \in Calls, Framed(c), pinned' = pinned, mfs' = mfs,
         h[c].op = "CreateSnapshot" =>
           h'[c].cid = h[c].cid \/ h[c].cid = None,
         faults' = faults \/ faults' = faults + 1,
         ~Settled(c), ~Settled(c)'
  PROVE  DriftMoves(c)
  <1>1. Drift' = Drift
    BY DriftStep, SameTrees DEF Drift, Framed
  <1>2. Thing(c)' = Thing(c) \/ Thing(c) \notin Drift
    <2>1. CASE h[c].op = "CreateSnapshot" /\ h[c].cid = None
      BY <2>1, DriftMember, NoneAssumption DEF Thing, Drift
    <2> QED
      BY <2>1, SameThing
  <1> QED
    BY <1>1, <1>2 DEF DriftMoves

\* The call has done what recording it asks for, or nothing needs doing.
LEMMA IsSettled ==
  ASSUME VolumeInv, DriftInv, NEW c \in Calls, h[c].pc \in Steps, Framed(c), ~Settled(c),
         h[c].op = "CreateSnapshot" => h'[c].cid = h[c].cid,
         \A d \in CIDs : <<"pin", d>> # Thing(c) => (d \in pinned' <=> d \in pinned),
         \/ mfs' = mfs
         \/ \A q \in Paths : <<"tree", q>> # Thing(c)
                               => (Trees'[q] # None <=> Trees[q] # None),
         \/ faults' = faults + 1
         \/ faults' = faults /\ h[c].gone # "no"
         \/ /\ faults' = faults /\ Settled(c)'
            /\ \/ Thing(c) \notin DriftOf(pinned', Trees', PVAfter(c), VSCAfter(c))
               \/ /\ pinned' = pinned /\ mfs' = mfs
                  /\ DriftOf(pinned, Trees, PVAfter(c), VSCAfter(c)) = Drift
  PROVE  DriftMoves(c)
  <1>1. Thing(c)' = Thing(c) /\ Drift' = DriftOf(pinned', Trees', pv, vsc)
    BY SameThing, DriftStep
  <1>6. mfs' = mfs => Trees' = Trees
    BY SameTrees DEF Framed
  <1>2. DriftOf(pinned', Trees', pv, vsc) \ {Thing(c)} = Drift \ {Thing(c)}
    BY <1>6, DriftApart DEF Drift
  <1>3. After(c)' = DriftOf(pinned', Trees', PVAfter(c), VSCAfter(c))
    BY AfterStep
  <1>4. ASSUME h[c].gone = "no",
               Thing(c) \notin DriftOf(pinned', Trees', PVAfter(c), VSCAfter(c))
        PROVE  After(c)' \subseteq Drift
    <2>1. DriftOf(pinned', Trees', PVAfter(c), VSCAfter(c)) \ {Thing(c)}
            = DriftOf(pinned', Trees', pv, vsc) \ {Thing(c)}
      BY <1>4, AfterApart
    <2> QED
      BY <1>2, <1>3, <1>4, <2>1
  <1>5. \/ faults' = faults + 1
        \/ faults' = faults /\ h[c].gone # "no"
        \/ faults' = faults /\ Settled(c)' /\ After(c)' \subseteq Drift
    BY <1>3, <1>4, <1>6
  <1> QED
    BY <1>1, <1>2, <1>5 DEF DriftMoves
-----------------------------------------------------------------------------
(***************************************************************************)
(* The steps, one by one.                                                  *)
(***************************************************************************)

\* What holds of every handler that takes a step.
LEMMA StepFacts ==
  ASSUME VolumeInv, DriftInv, NEW c \in Calls, HandlerStep(c)
  PROVE  /\ Framed(c) /\ KnownOK(c) /\ Accounted(c) /\ HandlerOK(h[c])
         /\ h[c] \in Handlers /\ h[c].pc \in Steps
         /\ h[c].gone \in {"no", "now", "before"} /\ faults \in Nat
         /\ h[c].pc # "dv_RmMFS" => ~Settled(c)
  <1>1. Holding(c) /\ HandlerMove(c) /\ UNCHANGED envVars
    BY StepIsMove DEF VolumeInv
  <1>2. h[c] \in Handlers /\ HandlerOK(h[c]) /\ faults \in 0..MaxFaults
    BY HandlerFacts DEF VolumeInv
  <1>3. h[c].pc \in Steps /\ h[c].pc # "idle" /\ h[c].pc # "done"
    BY <1>1, NotSteps DEF Holding
  <1>4. h[c].gone \in {"no", "now", "before"} /\ faults \in Nat
    BY <1>2 DEF Handlers
  <1>5. h[c].pc # "dv_RmMFS" => ~Settled(c)
    BY <1>3 DEF Settled
  <1> QED
    BY <1>1, <1>2, <1>3, <1>4, <1>5 DEF HandlerMove, Framed, envVars, storeVars, DriftInv

\* Without a failure counted the call succeeded, or nobody waits for it.
LEMMA OutcomeCounts ==
  ASSUME NEW c \in Calls, NEW o, Outcome(c, o), faults \in Nat,
         h[c].gone \in {"no", "now", "before"}
  PROVE  \/ faults' = faults + 1 /\ o # "ok"
         \/ faults' = faults /\ h[c].gone # "no"
         \/ faults' = faults /\ o = "ok"
  BY DEF Outcome

LEMMA StepNames ==
  /\ \A pc \in {"cv_PinCID", "rs_StatCID", "dv_ListVolumes", "dv_ListSnapshots",
                "dv_UnpinCID", "dv_RmMFS", "cs_ResolveMFSCID", "cs_PinCID",
                "ds_ListSnapshots", "ds_UnpinCID"} : pc \in Steps
  /\ \A code \in {"OK", "InvalidArgument", "NotFound", "Internal"} : code \in Codes
  BY DEF Steps, CreateVolumeSteps, RestoreSteps, DeleteVolumeSteps,
         CreateSnapshotSteps, DeleteSnapshotSteps, Codes

LEMMA KnownAtEnd ==
  ASSUME NEW c \in Calls, h'[c].pc \in {"done", "cv_PinCID", "cs_PinCID"}
  PROVE  KnownOK(c)'
  BY DEF KnownOK, RestoreSteps

LEMMA NotSettled ==
  ASSUME NEW c \in Calls, \/ h'[c].pc \notin {"done", "dv_RmMFS"}
                          \/ h'[c].pc = "done" /\ h'[c].code # "OK"
  PROVE  ~Settled(c)'
  BY DEF Settled

LEMMA OneStatCID ==
  ASSUME VolumeInv, DriftInv, NEW c \in Calls, cv_StatCID(c)
  PROVE  DriftMoves(c) /\ KnownOK(c)'
  <1>1. HandlerStep(c)
    BY DEF HandlerStep, CreateVolumeStep
  <1>2. h[c].pc = "cv_StatCID" /\ pinned' = pinned /\ mfs' = mfs
    BY DEF cv_StatCID, ipfsVars
  <1>3. PICK o \in Outcomes, exists \in BOOLEAN :
          /\ Outcome(c, o)
          /\ IF o # "ok" THEN Finish(c, "Internal", h[c])
             ELSE IF ~exists THEN Finish(c, "NotFound", h[c])
             ELSE IF claim[h[c].obj].pinning
             THEN Goto(c, "cv_PinCID", h[c]) /\ UNCHANGED locks
             ELSE Finish(c, "OK", h[c])
    BY DEF cv_StatCID
  <1>4. /\ Framed(c) /\ h[c] \in Handlers /\ h[c].pc \in Steps /\ ~Settled(c)
        /\ h[c].op = "CreateVolume" /\ h \in [Calls -> Handlers]
    BY <1>1, <1>2, StepFacts, HandlerFacts DEF HandlerOK, CreateVolumeSteps, VolumeInv
  <1>5. \/ faults' = faults + 1 /\ o # "ok"
        \/ faults' = faults /\ h[c].gone # "no"
        \/ faults' = faults /\ o = "ok"
    BY <1>1, <1>3, StepFacts, OutcomeCounts
  <1>6. CASE Finish(c, "Internal", h[c]) \/ Finish(c, "NotFound", h[c])
    <2>1. h'[c].pc = "done" /\ h'[c].code # "OK"
      BY <1>4, <1>6, FinishFields, StepNames
    <2> QED
      BY <1>2, <1>4, <1>5, <2>1, NotSettled, KnownAtEnd, StaysUnsettled
  <1>7. CASE Goto(c, "cv_PinCID", h[c])
    <2>1. h'[c].pc = "cv_PinCID"
      BY <1>4, <1>7, GotoFields, StepNames
    <2> QED
      BY <1>2, <1>4, <1>5, <2>1, NotSettled, KnownAtEnd, StaysUnsettled
  <1>8. CASE Finish(c, "OK", h[c]) /\ ~claim[h[c].obj].pinning /\ o = "ok"
    <2>1. h'[c].pc = "done" /\ h'[c].code = "OK"
      BY <1>4, <1>8, FinishFields, StepNames
    <2>2. Settled(c)'
      BY <2>1 DEF Settled
    <2>3. claim[h[c].obj].cid # None
      BY <1>2 DEF VolumeInv, BranchInv, BranchOK
    <2>4. DriftOf(pinned, Trees, PVAfter(c), VSCAfter(c)) = Drift
      BY <1>4, <1>8, <2>3, KeptInStep DEF Drift
    <2>5. DriftMoves(c)
      BY <1>2, <1>4, <1>5, <1>8, <2>2, <2>4, IsSettled
    <2> QED
      BY <2>1, <2>5, KnownAtEnd
  <1> QED
    BY <1>3, <1>6, <1>7, <1>8

LEMMA OnePinCID ==
  ASSUME VolumeInv, PinInv, DriftInv, NEW c \in Calls, cv_PinCID(c)
  PROVE  DriftMoves(c) /\ KnownOK(c)'
  <1>1. HandlerStep(c)
    BY DEF HandlerStep, CreateVolumeStep
  <1>2. h[c].pc = "cv_PinCID" /\ mfs' = mfs
    BY DEF cv_PinCID
  <1>3. PICK o \in Outcomes :
          /\ Outcome(c, o) /\ PinCID(h[c].cid, o)
          /\ IF o = "ok" THEN Finish(c, "OK", [h[c] EXCEPT !.pinok = TRUE])
             ELSE IF PinFailurePolicy = "best-effort" THEN Finish(c, "OK", h[c])
             ELSE Finish(c, "Internal", h[c])
    BY DEF cv_PinCID
  <1>4. /\ Framed(c) /\ h[c] \in Handlers /\ h[c].pc \in Steps /\ ~Settled(c)
        /\ h[c].op = "CreateVolume" /\ h \in [Calls -> Handlers] /\ h[c].cid \in CIDs
    BY <1>1, <1>2, StepFacts, HandlerFacts DEF HandlerOK, CreateVolumeSteps, VolumeInv
  <1>5. \/ faults' = faults + 1 /\ o # "ok"
        \/ faults' = faults /\ h[c].gone # "no"
        \/ faults' = faults /\ o = "ok"
    BY <1>1, <1>3, StepFacts, OutcomeCounts
  <1>6. /\ h[c].cid = claim[h[c].obj].cid /\ claim[h[c].obj].pinning
        /\ claim[h[c].obj].cid # None /\ Thing(c) = <<"pin", h[c].cid>>
    BY <1>2, <1>4, NoneAssumption DEF PinInv, PinnedOK, Thing
  <1>7. \A d \in CIDs : <<"pin", d>> # Thing(c) => (d \in pinned' <=> d \in pinned)
    BY <1>3, <1>6 DEF PinCID
  <1>8. h'[c].pc = "done" /\ (o = "ok" => h'[c].code = "OK")
    <2>1. [h[c] EXCEPT !.pinok = TRUE] \in Handlers
      BY <1>4 DEF Handlers
    <2> QED
      BY <1>3, <1>4, <2>1, FinishFields, StepNames
  <1>9. ASSUME o = "ok"
        PROVE  /\ Settled(c)'
               /\ Thing(c) \notin DriftOf(pinned', Trees', PVAfter(c), VSCAfter(c))
    <2>1. h[c].cid \in pinned'
      BY <1>3, <1>9 DEF PinCID
    <2> QED
      BY <1>4, <1>6, <1>8, <1>9, <2>1, CreatedInStep DEF Settled
  <1>10. DriftMoves(c)
    BY <1>2, <1>4, <1>5, <1>7, <1>9, IsSettled
  <1> QED
    BY <1>8, <1>10, KnownAtEnd

LEMMA OneMkdirMFS ==
  ASSUME VolumeInv, DriftInv, DistinctVolumes, NEW c \in Calls, cv_MkdirMFS(c)
  PROVE  DriftMoves(c) /\ KnownOK(c)'
  <1>1. HandlerStep(c)
    BY DEF HandlerStep, CreateVolumeStep
  <1>2. h[c].pc = "cv_MkdirMFS" /\ pinned' = pinned /\ h[c].cid = None
    BY <1>1, StepFacts DEF cv_MkdirMFS, KnownOK
  <1>3. PICK o \in Outcomes :
          /\ Outcome(c, o) /\ MkdirMFS(h[c].path, o)
          /\ IF o # "ok" THEN Finish(c, "Internal", h[c]) ELSE Finish(c, "OK", h[c])
    BY <1>2 DEF cv_MkdirMFS
  <1>4. /\ Framed(c) /\ h[c] \in Handlers /\ h[c].pc \in Steps /\ ~Settled(c)
        /\ h[c].op = "CreateVolume" /\ h \in [Calls -> Handlers]
    BY <1>1, <1>2, StepFacts, HandlerFacts DEF HandlerOK, CreateVolumeSteps, VolumeInv
  <1>5. \/ faults' = faults + 1 /\ o # "ok"
        \/ faults' = faults /\ h[c].gone # "no"
        \/ faults' = faults /\ o = "ok"
    BY <1>1, <1>3, StepFacts, OutcomeCounts
  <1>6. /\ claim[h[c].obj].cid = None /\ h[c].path = volumePath(h[c].obj)
        /\ h[c].path \in Paths /\ h[c].path # None /\ h[c].obj \in Names
    BY <1>2, TreeFacts DEF TreeSteps
  <1>7. Thing(c) = <<"tree", h[c].path>>
    BY <1>4, <1>6 DEF Thing
  <1>8. mfs \in [Paths -> CIDs \cup {None}] /\ EmptyDir # None
    BY NoneAssumption, CIDsAreDirs DEF VolumeInv, IndInv, TypeOK, IpfsTypeOK, EmptyDir
  <1>13. /\ \A q \in Paths : q # h[c].path => Trees'[q] = Trees[q]
         /\ Trees'[h[c].path] = mfs'[h[c].path]
    BY <1>3, <1>4, <1>6, TreesMove DEF Framed
  <1>9. /\ \A q \in Paths : <<"tree", q>> # Thing(c)
             => (Trees'[q] # None <=> Trees[q] # None)
        /\ o = "ok" => Trees'[h[c].path] # None
    BY <1>3, <1>6, <1>7, <1>8, <1>13 DEF MkdirMFS, Made
  <1>10. h'[c].pc = "done" /\ (o = "ok" => h'[c].code = "OK")
    BY <1>3, <1>4, FinishFields, StepNames
  <1>11. ASSUME o = "ok"
         PROVE  /\ Settled(c)'
                /\ Thing(c) \notin DriftOf(pinned', Trees', PVAfter(c), VSCAfter(c))
    BY <1>4, <1>6, <1>9, <1>10, <1>11, CreatedInStep DEF Settled
  <1>12. DriftMoves(c)
    BY <1>2, <1>4, <1>5, <1>9, <1>11, IsSettled
  <1> QED
    BY <1>10, <1>12, KnownAtEnd
\* All that DeleteVolume can find is the PV of its own volume.
LEMMA FoundOwn ==
  ASSUME VolumeInv, PinInv, DriftInv, DistinctIDs, NEW c \in Calls,
         h[c].pc = "dv_GetVolumeAttributes", NEW a \in GetVolumeAttributes(h[c].key[2])
  PROVE  /\ a.cid = claim[h[c].obj].cid /\ a.pinning = claim[h[c].obj].pinning
         /\ (IF a.mfspath # None /\ ~a.readonly THEN Clean[a.mfspath] ELSE None)
              = IF claim[h[c].obj].cid = None THEN volumePath(h[c].obj) ELSE None
  <1> DEFINE n == h[c].obj
  <1>1. h[c].op = "DeleteVolume" /\ Holding(c) /\ n \in Names
    BY HandlerFacts DEF VolumeInv, HandlerOK, DeleteVolumeSteps, Holding, Steps
  <1>2. h[c].key[2] = sanitizeVolumeID[n]
    BY <1>1 DEF VolumeInv, OwnersInv, KeysOK, VolumeKey
  <1>3. pvCache = pv
    BY CurrentCaches DEF PinInv, Serial
  <1>4. PICK m \in Names : pv[m] # None /\ pv[m].handle = h[c].key[2] /\ a = pv[m]
    BY <1>3 DEF GetVolumeAttributes
  <1>5. pv[m] = VolumeContext(m) /\ Exists(m)
    BY <1>4 DEF VolumeInv, OwnersInv, ContextsOK, DriftInv
  <1>6. m = n
    BY <1>1, <1>2, <1>4, <1>5, ContextFields DEF DistinctIDs
  <1>7. claim[n].cid = None => volumePath(n) \in Paths
    BY <1>1, <1>5, <1>6, PathAssumption DEF VolumeInv, BranchInv, PathsOK, Exists
  <1>8. /\ a.cid = claim[n].cid /\ a.pinning = claim[n].pinning
        /\ a.readonly = (claim[n].cid # None)
        /\ claim[n].cid = None => a.mfspath = volumePath(n)
    BY <1>4, <1>5, <1>6 DEF VolumeContext
  <1> QED
    BY <1>7, <1>8, PathAssumption, NoneAssumption

LEMMA OneVolumeAttributes ==
  ASSUME VolumeInv, PinInv, DriftInv, DistinctIDs, NEW c \in Calls,
         dv_GetVolumeAttributes(c)
  PROVE  DriftMoves(c) /\ KnownOK(c)'
  <1> DEFINE k == claim[h[c].obj]
             path == IF k.cid = None THEN volumePath(h[c].obj) ELSE None
             cid == IF k.pinning THEN k.cid ELSE None
             r == [h[c] EXCEPT !.cid = cid, !.path = path]
  <1>1. HandlerStep(c)
    BY DEF HandlerStep, DeleteVolumeStep
  <1>2. /\ h[c].pc = "dv_GetVolumeAttributes" /\ pinned' = pinned /\ mfs' = mfs
        /\ faults' = faults
    BY DEF dv_GetVolumeAttributes, ipfsVars
  <1>3. /\ Framed(c) /\ h[c] \in Handlers /\ h[c].pc \in Steps /\ ~Settled(c)
        /\ h[c].op = "DeleteVolume" /\ h \in [Calls -> Handlers] /\ h[c].obj \in Names
        /\ h'[c].obj = h[c].obj /\ claim' = claim /\ h[c].gone \in {"no", "now", "before"}
    BY <1>1, <1>2, StepFacts, HandlerFacts
       DEF HandlerOK, DeleteVolumeSteps, VolumeInv, Framed
  <1>4. volumePath(h[c].obj)' = volumePath(h[c].obj)
    BY <1>3 DEF volumePath
  <1>5. CASE Finish(c, "OK", h[c]) /\ GetVolumeAttributes(h[c].key[2]) = {}
    <2>1. h'[c].pc = "done"
      BY <1>3, <1>5, FinishFields, StepNames
    <2>2. h[c].gone # "no"
      <3>1. ASSUME h[c].gone = "no"
            PROVE  GetVolumeAttributes(h[c].key[2]) = {VolumeContext(h[c].obj)}
        BY <1>2, <1>3, <3>1, FoundToDelete DEF PinInv, Serial
      <3> QED
        BY <1>5, <3>1
    <2>3. DriftMoves(c)
      BY <1>2, <1>3, <2>2, IsSettled
    <2> QED
      BY <2>1, <2>3, KnownAtEnd
  <1>6. CASE \E a \in GetVolumeAttributes(h[c].key[2]) : TRUE
    <2>1. PICK a \in GetVolumeAttributes(h[c].key[2]) :
            Goto(c, IF (IF a.pinning THEN a.cid ELSE None) # None
                    THEN "dv_ListVolumes" ELSE "dv_RmMFS",
                 [h[c] EXCEPT !.cid = IF a.pinning THEN a.cid ELSE None,
                              !.path = IF a.mfspath # None /\ ~a.readonly
                                       THEN Clean[a.mfspath] ELSE None])
      BY <1>6 DEF dv_GetVolumeAttributes
    <2>2. /\ a.cid = k.cid /\ a.pinning = k.pinning
          /\ (IF a.mfspath # None /\ ~a.readonly THEN Clean[a.mfspath] ELSE None) = path
      BY <1>2, FoundOwn
    <2>3. Goto(c, IF cid # None THEN "dv_ListVolumes" ELSE "dv_RmMFS", r)
      BY <2>1, <2>2
    <2>4. a \in VolumeAttributes
      BY AttributesType, HandlerFacts DEF VolumeInv
    <2>5. cid \in CIDs \cup {None}
      BY <2>2, <2>4 DEF VolumeAttributes
    <2>6. path \in Paths \cup {None}
      BY <2>2, <2>4, PathAssumption DEF VolumeAttributes
    <2> HIDE DEF cid, path
    <2>7. r \in Handlers /\ r.cid = cid /\ r.path = path
      BY <1>3, <2>5, <2>6 DEF Handlers
    <2> HIDE DEF r
    <2>8. CASE cid # None
      <3>1. h'[c].pc = "dv_ListVolumes" /\ h'[c].cid = cid /\ h'[c].path = path
        BY <1>3, <2>3, <2>7, <2>8, GotoFields, StepNames
      <3>2. cid = k.cid /\ k.pinning
        BY <2>8 DEF cid
      <3>3. DriftMoves(c)
        BY <1>2, <1>3, <3>1, NotSettled, StaysUnsettled
      <3>4. KnownOK(c)'
        BY <1>3, <1>4, <3>1, <3>2 DEF KnownOK, RestoreSteps, path
      <3> QED
        BY <3>3, <3>4
    <2>9. CASE cid = None
      <3>1. h'[c].pc = "dv_RmMFS" /\ h'[c].path = path
        BY <1>3, <2>3, <2>7, <2>9, GotoFields, StepNames
      <3>2. KnownOK(c)'
        BY <1>3, <1>4, <3>1 DEF KnownOK, RestoreSteps, path
      <3>3. CASE k.cid = None
        <4>1. ~Settled(c)'
          BY <1>3, <3>1, <3>3 DEF Settled
        <4> QED
          BY <1>2, <1>3, <3>2, <4>1, StaysUnsettled
      <3>4. CASE k.cid # None
        <4>1. Settled(c)'
          BY <1>3, <3>1, <3>4 DEF Settled
        <4>2. ~k.pinning
          BY <2>9, <3>4 DEF cid
        <4>3. DriftOf(pinned, Trees, PVAfter(c), VSCAfter(c)) = Drift
          BY <1>3, <3>4, <4>2, KeptInStep DEF Drift
        <4> QED
          BY <1>2, <1>3, <3>2, <4>1, <4>3, IsSettled
      <3> QED
        BY <3>3, <3>4
    <2> QED
      BY <2>8, <2>9
  <1> QED
    BY <1>5, <1>6 DEF dv_GetVolumeAttributes

\* The other owners of the CID are those that were.
LEMMA SameOthers ==
  ASSUME NEW c \in Calls, Framed(c), h'[c].cid = h[c].cid
  PROVE  /\ OtherVolume(c)' <=> OtherVolume(c)
         /\ OtherSnapshot(c)' <=> OtherSnapshot(c)
  BY DEF Framed, OtherVolume, OtherSnapshot

LEMMA OneListVolumes ==
  ASSUME VolumeInv, PinInv, DriftInv, DistinctIDs, NEW c \in Calls,
         dv_ListVolumes(c) \/ ds_ListVolumes(c)
  PROVE  DriftMoves(c) /\ KnownOK(c)'
  <1> DEFINE x == IF h[c].pc = "dv_ListVolumes" THEN h[c].key[2] ELSE None
             pc == IF h[c].pc = "dv_ListVolumes" THEN "dv_ListSnapshots"
                   ELSE "ds_ListSnapshots"
             b == volumeRefs(h[c].cid, x) > 0
  <1>1. HandlerStep(c)
    BY DEF HandlerStep, DeleteVolumeStep, DeleteSnapshotStep
  <1>2. /\ h[c].pc \in {"dv_ListVolumes", "ds_ListVolumes"}
        /\ pinned' = pinned /\ mfs' = mfs /\ faults' = faults
        /\ Goto(c, pc, [h[c] EXCEPT !.refs = b])
    BY DEF dv_ListVolumes, ds_ListVolumes, ipfsVars
  <1>3. /\ Framed(c) /\ h[c] \in Handlers /\ h[c].pc \in Steps /\ ~Settled(c)
        /\ h \in [Calls -> Handlers] /\ KnownOK(c)
        /\ h'[c].obj = h[c].obj /\ claim' = claim
    BY <1>1, <1>2, StepFacts, HandlerFacts DEF VolumeInv, Framed
  <1>4. volumePath(h[c].obj)' = volumePath(h[c].obj)
    BY <1>3 DEF volumePath
  <1>5. b <=> OtherVolume(c)
    <2>1. pvCache = pv
      BY <1>2, CurrentCaches DEF PinInv, Serial
    <2> QED
      BY <1>2, <2>1, VolumesFound
  <1>6. b \in BOOLEAN /\ pc \in Steps
    BY <1>2, StepNames
  <1> HIDE DEF b
  <1>7. h'[c].pc = pc /\ h'[c].cid = h[c].cid /\ h'[c].refs = b
    BY <1>2, <1>6, CountFields DEF VolumeInv
  <1>8. h'[c].path = h[c].path
    <2>1. [h[c] EXCEPT !.refs = b] \in Handlers
      BY <1>3, <1>6 DEF Handlers
    <2>2. [h[c] EXCEPT !.refs = b].path = h[c].path
      BY <1>3 DEF Handlers
    <2> QED
      BY <1>2, <1>3, <1>6, <2>1, <2>2, GotoFields
  <1>9. h'[c].refs <=> OtherVolume(c)'
    BY <1>3, <1>5, <1>7, SameOthers
  <1>10. KnownOK(c)'
    BY <1>2, <1>3, <1>4, <1>7, <1>8, <1>9 DEF KnownOK, RestoreSteps
  <1>11. DriftMoves(c)
    BY <1>2, <1>3, <1>7, NotSettled, StaysUnsettled
  <1> QED
    BY <1>10, <1>11
LEMMA OneVolumeInUse ==
  ASSUME VolumeInv, PinInv, DriftInv, SnapshotStore, NEW c \in Calls,
         dv_ListSnapshots(c)
  PROVE  DriftMoves(c) /\ KnownOK(c)'
  <1> DEFINE inUse == h[c].refs \/ snapshotRefs(h[c].cid, FALSE) > 0
             k == claim[h[c].obj]
  <1>1. HandlerStep(c)
    BY DEF HandlerStep, DeleteVolumeStep
  <1>2. /\ h[c].pc = "dv_ListSnapshots"
        /\ pinned' = pinned /\ mfs' = mfs /\ faults' = faults
        /\ Goto(c, IF inUse THEN "dv_RmMFS" ELSE "dv_UnpinCID", h[c])
    BY DEF dv_ListSnapshots, ipfsVars
  <1>3. /\ Framed(c) /\ h[c] \in Handlers /\ h[c].pc \in Steps /\ ~Settled(c)
        /\ h \in [Calls -> Handlers] /\ KnownOK(c)
        /\ h'[c].obj = h[c].obj /\ claim' = claim
        /\ h[c].op = "DeleteVolume" /\ h[c].cid \in CIDs
    BY <1>1, <1>2, StepFacts, HandlerFacts
       DEF VolumeInv, Framed, HandlerOK, DeleteVolumeSteps
  <1>4. volumePath(h[c].obj)' = volumePath(h[c].obj)
    BY <1>3 DEF volumePath
  <1>5. inUse <=> OtherVolume(c) \/ OtherSnapshot(c)
    <2>1. vscCache = vsc
      BY <1>2, CurrentCaches DEF PinInv, Serial
    <2>2. snapshotRefs(h[c].cid, FALSE) > 0 <=> OtherSnapshot(c)
      BY <1>2, <2>1, SnapshotsFound
    <2>3. h[c].refs <=> OtherVolume(c)
      BY <1>2, <1>3 DEF KnownOK
    <2> QED
      BY <2>2, <2>3
  <1>6. h[c].cid = k.cid /\ k.cid # None
    BY <1>2, <1>3, NoneAssumption DEF KnownOK
  <1> HIDE DEF inUse
  <1>7. CASE inUse
    <2>1. h'[c].pc = "dv_RmMFS" /\ h'[c].path = h[c].path
      BY <1>2, <1>3, <1>7, GotoFields, StepNames
    <2>2. Settled(c)'
      BY <1>3, <1>6, <2>1 DEF Settled
    <2>3. DriftOf(pinned, Trees, PVAfter(c), VSCAfter(c)) = Drift
      BY <1>3, <1>5, <1>6, <1>7, KeptInStep DEF Drift
    <2>4. DriftMoves(c)
      BY <1>2, <1>3, <2>2, <2>3, IsSettled
    <2>5. KnownOK(c)'
      BY <1>2, <1>3, <1>4, <2>1 DEF KnownOK, RestoreSteps
    <2> QED
      BY <2>4, <2>5
  <1>8. CASE ~inUse
    <2>1. h'[c].pc = "dv_UnpinCID" /\ h'[c].path = h[c].path /\ h'[c].cid = h[c].cid
      BY <1>2, <1>3, <1>8, GotoFields, StepNames
    <2>2. DriftMoves(c)
      BY <1>2, <1>3, <2>1, NotSettled, StaysUnsettled
    <2>3. ~OtherVolume(c)' /\ ~OtherSnapshot(c)'
      BY <1>3, <1>5, <1>8, <2>1, SameOthers
    <2>4. KnownOK(c)'
      BY <1>2, <1>3, <1>4, <2>1, <2>3 DEF KnownOK, RestoreSteps
    <2> QED
      BY <2>2, <2>4
  <1> QED
    BY <1>7, <1>8

\* UnpinCID of either deletion takes the pin of the CID, or no pin.
LEMMA UnpinMoves ==
  ASSUME NEW c \in Calls, Thing(c) = <<"pin", h[c].cid>>, NEW o, UnpinCID(h[c].cid, o)
  PROVE  /\ \A d \in CIDs : <<"pin", d>> # Thing(c) => (d \in pinned' <=> d \in pinned)
         /\ o = "ok" => h[c].cid \notin pinned'
  BY DEF UnpinCID

LEMMA OneUnpinVolume ==
  ASSUME VolumeInv, DriftInv, DistinctVolumes, NEW c \in Calls, dv_UnpinCID(c)
  PROVE  DriftMoves(c) /\ KnownOK(c)'
  <1> DEFINE k == claim[h[c].obj]
  <1>1. HandlerStep(c)
    BY DEF HandlerStep, DeleteVolumeStep
  <1>2. h[c].pc = "dv_UnpinCID" /\ mfs' = mfs /\ Goto(c, "dv_RmMFS", h[c])
    BY DEF dv_UnpinCID
  <1>3. PICK o \in Outcomes : Outcome(c, o) /\ UnpinCID(h[c].cid, o)
    BY DEF dv_UnpinCID
  <1>4. /\ Framed(c) /\ h[c] \in Handlers /\ h[c].pc \in Steps /\ ~Settled(c)
        /\ h \in [Calls -> Handlers] /\ KnownOK(c)
        /\ h'[c].obj = h[c].obj /\ claim' = claim
        /\ h[c].op = "DeleteVolume" /\ h[c].cid \in CIDs
    BY <1>1, <1>2, StepFacts, HandlerFacts
       DEF VolumeInv, Framed, HandlerOK, DeleteVolumeSteps
  <1>5. volumePath(h[c].obj)' = volumePath(h[c].obj)
    BY <1>4 DEF volumePath
  <1>6. \/ faults' = faults + 1 /\ o # "ok"
        \/ faults' = faults /\ h[c].gone # "no"
        \/ faults' = faults /\ o = "ok"
    BY <1>1, <1>3, StepFacts, OutcomeCounts
  <1>7. /\ h[c].cid = k.cid /\ k.cid # None /\ Thing(c) = <<"pin", h[c].cid>>
        /\ ~OtherVolume(c) /\ ~OtherSnapshot(c)
    BY <1>2, <1>4, NoneAssumption DEF KnownOK, Thing
  <1>8. /\ \A d \in CIDs : <<"pin", d>> # Thing(c) => (d \in pinned' <=> d \in pinned)
        /\ o = "ok" => h[c].cid \notin pinned'
    BY <1>3, <1>7, UnpinMoves
  <1>9. h'[c].pc = "dv_RmMFS" /\ h'[c].path = h[c].path
    BY <1>2, <1>4, GotoFields, StepNames
  <1>10. Settled(c)'
    BY <1>4, <1>7, <1>9 DEF Settled
  <1>11. o = "ok" => Thing(c) \notin DriftOf(pinned', Trees', PVAfter(c), VSCAfter(c))
    BY <1>4, <1>7, <1>8, DeletedInStep
  <1>12. DriftMoves(c)
    BY <1>2, <1>4, <1>6, <1>8, <1>10, <1>11, IsSettled
  <1>13. KnownOK(c)'
    BY <1>2, <1>4, <1>5, <1>9 DEF KnownOK, RestoreSteps
  <1> QED
    BY <1>12, <1>13

LEMMA OneRmMFS ==
  ASSUME VolumeInv, DriftInv, DistinctVolumes, NEW c \in Calls, dv_RmMFS(c)
  PROVE  DriftMoves(c) /\ KnownOK(c)'
  <1> DEFINE k == claim[h[c].obj]
  <1>1. HandlerStep(c)
    BY DEF HandlerStep, DeleteVolumeStep
  <1>2. h[c].pc = "dv_RmMFS" /\ pinned' = pinned /\ Finish(c, "OK", h[c])
    BY DEF dv_RmMFS
  <1>3. /\ Framed(c) /\ h[c] \in Handlers /\ h[c].pc \in Steps
        /\ h \in [Calls -> Handlers] /\ KnownOK(c) /\ h[c].op = "DeleteVolume"
    BY <1>1, <1>2, StepFacts, HandlerFacts DEF VolumeInv, HandlerOK, DeleteVolumeSteps
  <1>4. h'[c].pc = "done" /\ h'[c].code = "OK"
    BY <1>2, <1>3, FinishFields, StepNames
  <1>5. Settled(c)' /\ KnownOK(c)'
    BY <1>4, KnownAtEnd DEF Settled
  <1>6. h[c].path = IF k.cid = None THEN volumePath(h[c].obj) ELSE None
    BY <1>2, <1>3 DEF KnownOK
  <1>7. CASE k.cid # None
    <2>1. mfs' = mfs /\ faults' = faults /\ Settled(c)
      BY <1>2, <1>6, <1>7 DEF dv_RmMFS, Settled
    <2>4. Trees' = Trees
      BY <1>3, <2>1, SameTrees DEF Framed
    <2>2. After(c)' = After(c)
      BY <1>2, <1>3, <2>4, AfterStep DEF After
    <2>3. Drift' = Drift /\ Thing(c)' = Thing(c)
      BY <1>2, <1>3, <2>4, DriftStep, SameThing DEF Drift
    <2> QED
      BY <1>5, <2>1, <2>2, <2>3 DEF DriftMoves
  <1>8. CASE k.cid = None
    <2>1. ~Settled(c) /\ Thing(c) = <<"tree", h[c].path>>
      BY <1>2, <1>3, <1>6, <1>8 DEF Settled, Thing
    <2>2. mfs \in [Paths -> CIDs \cup {None}] /\ h[c].path \in Paths \cup {None}
      BY <1>3 DEF VolumeInv, IndInv, TypeOK, IpfsTypeOK, Handlers
    <2>3. CASE h[c].path = None
      <3>1. mfs' = mfs /\ faults' = faults
        BY <2>3 DEF dv_RmMFS
      <3>2. <<"tree", None>> \notin DriftOf(pinned', Trees', PVAfter(c), VSCAfter(c))
        BY DriftMember, NoneAssumption, PathAssumption
      <3> QED
        BY <1>2, <1>3, <1>5, <2>1, <2>3, <3>1, <3>2, IsSettled
    <2>4. CASE h[c].path # None
      <3>1. PICK o \in Outcomes : Outcome(c, o) /\ RmMFS(h[c].path, o)
        BY <2>4 DEF dv_RmMFS
      <3>2. \/ faults' = faults + 1 /\ o # "ok"
            \/ faults' = faults /\ h[c].gone # "no"
            \/ faults' = faults /\ o = "ok"
        BY <1>1, <3>1, StepFacts, OutcomeCounts
      <3>5. h[c].obj \in Names
        BY <1>1, <1>3, StepFacts DEF HandlerOK
      <3>6. /\ \A q \in Paths : q # h[c].path => Trees'[q] = Trees[q]
            /\ Trees'[h[c].path] = mfs'[h[c].path]
        BY <1>3, <1>6, <1>8, <2>4, <3>1, <3>5, TreesMove DEF Framed
      <3>3. /\ \A q \in Paths : <<"tree", q>> # Thing(c)
                 => (Trees'[q] # None <=> Trees[q] # None)
            /\ o = "ok" => Trees'[h[c].path] = None
        BY <2>1, <2>2, <2>4, <3>1, <3>6 DEF RmMFS, Removed
      <3>4. o = "ok" => Thing(c) \notin DriftOf(pinned', Trees', PVAfter(c), VSCAfter(c))
        BY <1>3, <1>6, <1>8, <3>3, DeletedInStep
      <3> QED
        BY <1>2, <1>3, <1>5, <2>1, <3>2, <3>3, <3>4, IsSettled
    <2> QED
      BY <2>3, <2>4
  <1> QED
    BY <1>7, <1>8

LEMMA OneSnapshotSource ==
  ASSUME VolumeInv, DriftInv, NEW c \in Calls, cs_GetVolumeAttributes(c)
  PROVE  DriftMoves(c) /\ KnownOK(c)'
  <1>1. HandlerStep(c)
    BY DEF HandlerStep, CreateSnapshotStep
  <1>2. /\ h[c].pc = "cs_GetVolumeAttributes"
        /\ pinned' = pinned /\ mfs' = mfs /\ faults' = faults
    BY DEF cs_GetVolumeAttributes, ipfsVars
  <1>3. /\ Framed(c) /\ h[c] \in Handlers /\ ~Settled(c)
        /\ h \in [Calls -> Handlers] /\ h[c].cid = None
    BY <1>1, <1>2, StepFacts, HandlerFacts DEF VolumeInv, KnownOK
  <1>4. CASE Finish(c, "NotFound", h[c]) \/ Finish(c, "InvalidArgument", h[c])
    <2>1. h'[c].pc = "done" /\ h'[c].code # "OK"
      BY <1>3, <1>4, FinishFields, StepNames
    <2> QED
      BY <1>2, <1>3, <2>1, NotSettled, KnownAtEnd, StaysUnsettled
  <1>5. ASSUME NEW a \in GetVolumeAttributes(sanitizeVolumeID[SourceOf[h[c].obj]]),
               a.mfspath # None,
               Goto(c, "cs_ResolveMFSCID", [h[c] EXCEPT !.path = Clean[a.mfspath]])
        PROVE  DriftMoves(c) /\ KnownOK(c)'
    <2> DEFINE r == [h[c] EXCEPT !.path = Clean[a.mfspath]]
    <2>1. a \in VolumeAttributes
      BY AttributesType, HandlerFacts DEF VolumeInv
    <2>2. Clean[a.mfspath] \in Paths
      BY <1>5, <2>1, PathAssumption DEF VolumeAttributes
    <2>3. r \in Handlers /\ r.cid = None
      BY <1>3, <2>2 DEF Handlers
    <2>4. Goto(c, "cs_ResolveMFSCID", r)
      BY <1>5
    <2> HIDE DEF r
    <2>5. h'[c].pc = "cs_ResolveMFSCID" /\ h'[c].cid = None
      BY <1>3, <2>3, <2>4, GotoFields, StepNames
    <2>6. DriftMoves(c)
      BY <1>2, <1>3, <2>5, NotSettled, StaysUnsettled
    <2>7. KnownOK(c)'
      BY <2>5 DEF KnownOK, RestoreSteps
    <2> QED
      BY <2>6, <2>7
  <1> QED
    BY <1>4, <1>5 DEF cs_GetVolumeAttributes

LEMMA OneResolveMFSCID ==
  ASSUME VolumeInv, DriftInv, NEW c \in Calls, cs_ResolveMFSCID(c)
  PROVE  DriftMoves(c) /\ KnownOK(c)'
  <1>1. HandlerStep(c)
    BY DEF HandlerStep, CreateSnapshotStep
  <1>2. h[c].pc = "cs_ResolveMFSCID" /\ pinned' = pinned /\ mfs' = mfs
    BY DEF cs_ResolveMFSCID, ipfsVars
  <1>3. /\ Framed(c) /\ h[c] \in Handlers /\ ~Settled(c) /\ HandlerOK(h[c])
        /\ h \in [Calls -> Handlers] /\ h[c].cid = None
        /\ faults \in Nat /\ h[c].gone \in {"no", "now", "before"}
    BY <1>1, <1>2, StepFacts, HandlerFacts DEF VolumeInv, KnownOK
  <1>4. faults' = faults \/ faults' = faults + 1
    BY <1>3, OutcomeCounts DEF cs_ResolveMFSCID
  <1>5. CASE Finish(c, "Internal", h[c])
    <2>1. h'[c].pc = "done" /\ h'[c].code # "OK"
      BY <1>3, <1>5, FinishFields, StepNames
    <2> QED
      BY <1>2, <1>3, <1>4, <2>1, NotSettled, KnownAtEnd, StaysUnsettled
  <1>6. CASE /\ mfs[h[c].path] # None
             /\ Goto(c, "cs_PinCID", [h[c] EXCEPT !.cid = mfs[h[c].path]])
    <2> DEFINE r == [h[c] EXCEPT !.cid = mfs[h[c].path]]
    <2>1. mfs[h[c].path] \in CIDs
      BY <1>2, <1>3, <1>6 DEF VolumeInv, IndInv, TypeOK, IpfsTypeOK, HandlerOK
    <2>2. r \in Handlers
      BY <1>3, <2>1 DEF Handlers
    <2>3. Goto(c, "cs_PinCID", r)
      BY <1>6
    <2> HIDE DEF r
    <2>4. h'[c].pc = "cs_PinCID"
      BY <1>3, <2>2, <2>3, GotoFields, StepNames
    <2> QED
      BY <1>2, <1>3, <1>4, <2>4, NotSettled, KnownAtEnd, StaysUnsettled
  <1> QED
    BY <1>5, <1>6 DEF cs_ResolveMFSCID, ResolveMFSCID

LEMMA OnePinSnapshot ==
  ASSUME VolumeInv, DriftInv, NEW c \in Calls, cs_PinCID(c)
  PROVE  DriftMoves(c) /\ KnownOK(c)'
  <1>1. HandlerStep(c)
    BY DEF HandlerStep, CreateSnapshotStep
  <1>2. h[c].pc = "cs_PinCID" /\ mfs' = mfs
    BY DEF cs_PinCID
  <1>3. PICK o \in Outcomes :
          /\ Outcome(c, o) /\ PinCID(h[c].cid, o)
          /\ Finish(c, "OK", [h[c] EXCEPT !.pinok = (o = "ok")])
    BY DEF cs_PinCID
  <1>4. /\ Framed(c) /\ h[c] \in Handlers /\ h[c].pc \in Steps /\ ~Settled(c)
        /\ h[c].op = "CreateSnapshot" /\ h \in [Calls -> Handlers]
    BY <1>1, <1>2, StepFacts, HandlerFacts DEF HandlerOK, CreateSnapshotSteps, VolumeInv
  <1>5. \/ faults' = faults + 1 /\ o # "ok"
        \/ faults' = faults /\ h[c].gone # "no"
        \/ faults' = faults /\ o = "ok"
    BY <1>1, <1>3, StepFacts, OutcomeCounts
  <1>6. Thing(c) = <<"pin", h[c].cid>>
    BY <1>4 DEF Thing
  <1>7. /\ \A d \in CIDs : <<"pin", d>> # Thing(c) => (d \in pinned' <=> d \in pinned)
        /\ o = "ok" => h[c].cid \in pinned'
    BY <1>3, <1>6 DEF PinCID
  <1>8. h'[c].pc = "done" /\ h'[c].code = "OK" /\ h'[c].cid = h[c].cid
    <2> DEFINE r == [h[c] EXCEPT !.pinok = (o = "ok")]
    <2>1. r \in Handlers /\ r.cid = h[c].cid
      BY <1>4 DEF Handlers
    <2>2. Finish(c, "OK", r)
      BY <1>3
    <2> HIDE DEF r
    <2> QED
      BY <1>4, <2>1, <2>2, FinishFields, StepNames
  <1>9. Settled(c)'
    BY <1>8 DEF Settled
  <1>10. o = "ok" => Thing(c) \notin DriftOf(pinned', Trees', PVAfter(c), VSCAfter(c))
    BY <1>4, <1>7, CreatedInStep
  <1>11. DriftMoves(c)
    BY <1>2, <1>4, <1>5, <1>7, <1>8, <1>9, <1>10, IsSettled
  <1> QED
    BY <1>8, <1>11, KnownAtEnd

LEMMA OneSnapshotInUse ==
  ASSUME VolumeInv, PinInv, DriftInv, SnapshotStore, NEW c \in Calls,
         ds_ListSnapshots(c)
  PROVE  DriftMoves(c) /\ KnownOK(c)'
  <1> DEFINE inUse == h[c].refs \/ snapshotRefs(h[c].cid, TRUE) > 0
  <1>1. HandlerStep(c)
    BY DEF HandlerStep, DeleteSnapshotStep
  <1>2. /\ h[c].pc = "ds_ListSnapshots"
        /\ pinned' = pinned /\ mfs' = mfs /\ faults' = faults
        /\ IF inUse THEN Finish(c, "OK", h[c]) ELSE Goto(c, "ds_UnpinCID", h[c])
    BY DEF ds_ListSnapshots, ipfsVars
  <1>3. /\ Framed(c) /\ h[c] \in Handlers /\ h[c].pc \in Steps /\ ~Settled(c)
        /\ h \in [Calls -> Handlers] /\ KnownOK(c)
        /\ h[c].op = "DeleteSnapshot" /\ h[c].cid = vsc[h[c].obj]
    BY <1>1, <1>2, StepFacts, HandlerFacts
       DEF VolumeInv, Framed, HandlerOK, DeleteSnapshotSteps, PinInv, CountedOK
  <1>4. inUse <=> OtherVolume(c) \/ OtherSnapshot(c)
    <2>1. vscCache = vsc
      BY <1>2, CurrentCaches DEF PinInv, Serial
    <2>2. snapshotRefs(h[c].cid, TRUE) > 0 <=> OtherSnapshot(c)
      BY <1>2, <1>3, <2>1, SnapshotsFound
    <2>3. h[c].refs <=> OtherVolume(c)
      BY <1>2, <1>3 DEF KnownOK
    <2> QED
      BY <2>2, <2>3
  <1> HIDE DEF inUse
  <1>5. CASE inUse
    <2>1. h'[c].pc = "done" /\ h'[c].code = "OK"
      BY <1>2, <1>3, <1>5, FinishFields, StepNames
    <2>2. Settled(c)'
      BY <2>1 DEF Settled
    <2>3. DriftOf(pinned, Trees, PVAfter(c), VSCAfter(c)) = Drift
      BY <1>3, <1>4, <1>5, KeptInStep DEF Drift
    <2>4. DriftMoves(c)
      BY <1>2, <1>3, <2>2, <2>3, IsSettled
    <2> QED
      BY <2>1, <2>4, KnownAtEnd
  <1>6. CASE ~inUse
    <2>1. h'[c].pc = "ds_UnpinCID" /\ h'[c].cid = h[c].cid
      BY <1>2, <1>3, <1>6, GotoFields, StepNames
    <2>2. DriftMoves(c)
      BY <1>2, <1>3, <2>1, NotSettled, StaysUnsettled
    <2>3. ~OtherVolume(c)' /\ ~OtherSnapshot(c)'
      BY <1>3, <1>4, <1>6, <2>1, SameOthers
    <2>4. KnownOK(c)'
      BY <2>1, <2>3 DEF KnownOK, RestoreSteps
    <2> QED
      BY <2>2, <2>4
  <1> QED
    BY <1>5, <1>6

LEMMA OneUnpinSnapshot ==
  ASSUME VolumeInv, PinInv, DriftInv, DistinctVolumes, NEW c \in Calls, ds_UnpinCID(c)
  PROVE  DriftMoves(c) /\ KnownOK(c)'
  <1>1. HandlerStep(c)
    BY DEF HandlerStep, DeleteSnapshotStep
  <1>2. h[c].pc = "ds_UnpinCID" /\ mfs' = mfs /\ Finish(c, "OK", h[c])
    BY DEF ds_UnpinCID
  <1>3. PICK o \in Outcomes : Outcome(c, o) /\ UnpinCID(h[c].cid, o)
    BY DEF ds_UnpinCID
  <1>4. /\ Framed(c) /\ h[c] \in Handlers /\ h[c].pc \in Steps /\ ~Settled(c)
        /\ h \in [Calls -> Handlers] /\ KnownOK(c)
        /\ h[c].op = "DeleteSnapshot" /\ h[c].cid = vsc[h[c].obj]
    BY <1>1, <1>2, StepFacts, HandlerFacts
       DEF VolumeInv, HandlerOK, DeleteSnapshotSteps, PinInv, CountedOK
  <1>5. \/ faults' = faults + 1 /\ o # "ok"
        \/ faults' = faults /\ h[c].gone # "no"
        \/ faults' = faults /\ o = "ok"
    BY <1>1, <1>3, StepFacts, OutcomeCounts
  <1>6. /\ Thing(c) = <<"pin", h[c].cid>>
        /\ ~OtherVolume(c) /\ ~OtherSnapshot(c)
    BY <1>2, <1>4 DEF KnownOK, Thing
  <1>7. /\ \A d \in CIDs : <<"pin", d>> # Thing(c) => (d \in pinned' <=> d \in pinned)
        /\ o = "ok" => h[c].cid \notin pinned'
    BY <1>3, <1>6, UnpinMoves
  <1>8. h'[c].pc = "done" /\ h'[c].code = "OK"
    BY <1>2, <1>4, FinishFields, StepNames
  <1>9. Settled(c)'
    BY <1>8 DEF Settled
  <1>10. o = "ok" => Thing(c) \notin DriftOf(pinned', Trees', PVAfter(c), VSCAfter(c))
    BY <1>4, <1>6, <1>7, DeletedInStep
  <1>11. DriftMoves(c)
    BY <1>2, <1>4, <1>5, <1>7, <1>9, <1>10, IsSettled
  <1> QED
    BY <1>8, <1>11, KnownAtEnd
\* A step of the one handler there is.
LEMMA DriftHandled ==
  ASSUME VolumeInv, PinInv, DriftInv, SnapshotStore, DistinctVolumes, NEW c \in Calls,
         HandlerStep(c)
  PROVE  DriftInv'
  <1>1. /\ Framed(c) /\ KnownOK(c) /\ Accounted(c) /\ h[c].pc \in Steps
        /\ h[c].gone \in {"no", "now", "before"}
    BY StepFacts
  <1>2. /\ h'[c].pc \in Steps \cup {"done"} /\ UNCHANGED envVars
        /\ \A d \in Calls \ {c} : h'[d] = h[d]
    BY StepIsMove DEF VolumeInv, HandlerMove
  <1>3. DriftMoves(c) /\ KnownOK(c)'
    <2>1. DistinctIDs
      BY DEF DistinctVolumes
    <2>2. CASE CreateVolumeStep(c)
      <3>1. ~(rs_StatCID(c) \/ rs_GetCIDContent(c) \/ rs_RmMFS(c) \/ rs_MkdirMFS(c)
              \/ rs_cpMFS(c))
        BY <1>1 DEF KnownOK, RestoreSteps, rs_StatCID, rs_GetCIDContent, rs_RmMFS,
                    rs_MkdirMFS, rs_cpMFS
      <3> QED
        BY <2>2, <3>1, OneStatCID, OnePinCID, OneMkdirMFS DEF CreateVolumeStep
    <2>3. CASE DeleteVolumeStep(c)
      BY <2>1, <2>3, OneVolumeAttributes, OneListVolumes, OneVolumeInUse,
         OneUnpinVolume, OneRmMFS DEF DeleteVolumeStep
    <2>4. CASE CreateSnapshotStep(c)
      BY <2>4, OneSnapshotSource, OneResolveMFSCID, OnePinSnapshot
         DEF CreateSnapshotStep
    <2>5. CASE DeleteSnapshotStep(c)
      BY <2>1, <2>5, OneListVolumes, OneSnapshotInUse, OneUnpinSnapshot
         DEF DeleteSnapshotStep
    <2> QED
      BY <2>2, <2>3, <2>4, <2>5 DEF HandlerStep
  <1>4. Accounted(c)'
    BY <1>1, <1>3, AccountedStep
  <1>5. h[c].pc # "idle" /\ h'[c].pc # "idle"
    BY <1>1, <1>2, NotSteps
  <1>6. \A d \in Calls \ {c} : h'[d].pc = "idle"
    BY <1>2, <1>5 DEF PinInv, Serial
  <1>7. UNCHANGED <<pv, vsc, phase>>
    BY <1>2 DEF envVars, storeVars
  <1> QED
    BY <1>3, <1>4, <1>5, <1>6, <1>7 DEF DriftInv, Exists

\* A call as it arrives: nothing is out of step that was not before.
LEMMA DriftStarted ==
  ASSUME VolumeInv, DriftInv, NEW c \in Calls, NEW op, NEW o, Started(c, op, o),
         Quiet, UNCHANGED <<ipfsVars, envVars, faults>>,
         h'[c].pc \in {"done", "cv_StatCID", "cv_MkdirMFS", "dv_GetVolumeAttributes",
                       "cs_GetVolumeAttributes", "ds_ListVolumes"},
         h'[c].pc \in {"cv_MkdirMFS", "cs_GetVolumeAttributes"} => h'[c].cid = None
  PROVE  DriftInv'
  <1>1. UNCHANGED <<pv, vsc, claim, phase, pinned, mfs, faults>>
    BY DEF ipfsVars, envVars, storeVars
  <1>2. \A d \in Calls \ {c} : h'[d].pc = "idle"
    BY HandlerFacts DEF Started, Quiet, VolumeInv
  <1>3. h'[c].gone = "no" /\ h'[c].pc # "idle" /\ (h'[c].pc = "done" => h'[c].code # "OK")
    BY NotSteps DEF Started
  <1>4. KnownOK(c)'
    BY DEF KnownOK, RestoreSteps
  <1>5. Drift' = Drift
    BY <1>1, SameTrees DEF Drift
  <1>6. ~Settled(c)'
    BY <1>3 DEF Settled
  <1>7. Bounded(Drift, faults)
    BY DEF DriftInv, Quiet
  <1>8. Accounted(c)'
    BY <1>1, <1>3, <1>5, <1>6, <1>7 DEF Accounted
  <1> QED
    BY <1>1, <1>2, <1>3, <1>4, <1>8 DEF DriftInv, Exists

LEMMA DriftStart ==
  ASSUME VolumeInv, DriftInv, ~Overlap, NothingRestored,
         \/ \E n \in Names : CallVolume(n)
         \/ \E s \in Snaps : CallSnapshot(s)
  PROVE  DriftInv'
  <1>0. IndInv
    BY DEF VolumeInv
  <1>1. ASSUME NEW c \in Calls, NEW n \in Names, CreateVolume(c, n)
        PROVE  DriftInv'
    <2>1. /\ Started(c, "CreateVolume", n)
          /\ h'[c].pc \in {"done", "cv_StatCID", "cv_MkdirMFS"}
          /\ h'[c].pc = "cv_MkdirMFS"
               => /\ ~InvalidSource(claim[n])
                  /\ h'[c].cid = IF claim[n].source = None THEN None
                                 ELSE vsc[claim[n].source]
      BY <1>0, <1>1, CreateVolumeStarted
    <2>2. ~InvalidSource(claim[n]) => claim[n].source = None
      BY DEF InvalidSource, NothingRestored, VolumeInv, OwnersInv, ContextsOK, IndInv,
             TypeOK, Claims
    <2>3. Quiet /\ UNCHANGED <<ipfsVars, envVars, faults>>
      BY <1>1 DEF CreateVolume, MayCall
    <2> QED
      BY <2>1, <2>2, <2>3, DriftStarted
  <1>2. ASSUME NEW c \in Calls, NEW n \in Names, DeleteVolume(c, n)
        PROVE  DriftInv'
    <2>1. Quiet /\ UNCHANGED <<ipfsVars, envVars, faults>>
      BY <1>2 DEF DeleteVolume, MayCall
    <2>2. /\ Started(c, "DeleteVolume", n)
          /\ h'[c].pc \in {"done", "dv_GetVolumeAttributes"}
      BY <1>0, <1>2, DeleteVolumeStarted
    <2> QED
      BY <2>1, <2>2, DriftStarted
  <1>3. ASSUME NEW c \in Calls, NEW s \in Snaps, CreateSnapshot(c, s)
        PROVE  DriftInv'
    <2> DEFINE r == Request("CreateSnapshot", s, SnapshotKey(s))
    <2>1. Quiet /\ UNCHANGED <<ipfsVars, envVars, faults>>
      BY <1>3 DEF CreateSnapshot, MayCall
    <2>2. /\ Started(c, "CreateSnapshot", s)
          /\ h'[c].pc \in {"done", "cs_GetVolumeAttributes"}
      BY <1>0, <1>3, CreateSnapshotStarted
    <2>3. SnapshotKey(s) \in Keys /\ s \in Objects /\ "CreateSnapshot" \in Ops
      BY DEF Keys, Objects, Ops
    <2>4. r \in Handlers /\ r.cid = None /\ h \in [Calls -> Handlers]
      BY <1>0, <2>3, RequestFields, HandlerFacts DEF Request, Idle
    <2> HIDE DEF r
    <2>5. Refuse(c, r, "Aborted") \/ Goto(c, "cs_GetVolumeAttributes", r)
      BY <1>3 DEF CreateSnapshot, r
    <2>6. h'[c].pc = "cs_GetVolumeAttributes" => h'[c].cid = None
      <3>1. CASE Refuse(c, r, "Aborted")
        BY <2>4, <3>1, RefuseFields DEF Codes
      <3>2. CASE Goto(c, "cs_GetVolumeAttributes", r)
        BY <2>4, <3>2, GotoFields DEF Steps, CreateSnapshotSteps
      <3> QED
        BY <2>5, <3>1, <3>2
    <2> QED
      BY <2>1, <2>2, <2>6, DriftStarted
  <1>4. ASSUME NEW c \in Calls, NEW s \in Snaps, DeleteSnapshot(c, s)
        PROVE  DriftInv'
    <2>1. Quiet /\ UNCHANGED <<ipfsVars, envVars, faults>>
      BY <1>4 DEF DeleteSnapshot, MayCall
    <2>2. /\ Started(c, "DeleteSnapshot", s)
          /\ h'[c].pc \in {"done", "ds_ListVolumes"}
      BY <1>0, <1>4, DeleteSnapshotStarted
    <2> QED
      BY <2>1, <2>2, DriftStarted
  <1> QED
    BY <1>1, <1>2, <1>3, <1>4 DEF CallVolume, CallSnapshot

\* A call that ends: answered and recorded, or not.
LEMMA DriftReply ==
  ASSUME VolumeInv, PinInv, DriftInv, NEW c \in Calls, Reply(c)
  PROVE  DriftInv'
  <1> DEFINE o == h[c].obj
  <1>1. h[c].pc = "done" /\ UNCHANGED <<pinned, mfs, claim, faults>>
    BY DEF Reply, ipfsVars
  <1>2. HandlerOK(h[c]) /\ Accounted(c) /\ faults \in Nat /\ h[c].op \in Ops
    BY <1>1, HandlerFacts DEF VolumeInv, DriftInv, HandlerOK, IndInv, TypeOK
  <1>3. \A d \in Calls : h'[d].pc = "idle"
    BY <1>1, HandlerFacts DEF Reply, PinInv, Serial, Idle, VolumeInv
  <1>4. Drift' = DriftOf(pinned, Trees, pv', vsc')
    BY <1>1, SameTrees DEF Drift
  <1>5. CASE h[c].code = "OK" /\ h[c].gone = "no"
    <2>1. /\ Recorded(c, o) /\ phase \in [Objects -> Phases] /\ pv \in PVs /\ vsc \in VSCs
          /\ o \in Objects
      BY <1>2, <1>5
         DEF Reply, VolumeInv, IndInv, TypeOK, StoresTypeOK, HandlerOK, Objects, Ops
    <2>2. pv' = PVAfter(c) /\ vsc' = VSCAfter(c)
      BY <2>1 DEF Recorded, WritePV, WriteVSC, PVAfter, VSCAfter
    <2>3. Settled(c)
      BY <1>1, <1>5 DEF Settled
    <2>4. Bounded(After(c), faults)
      <3>1. CASE Bounded(Drift \cup {Thing(c)}, faults)
        <4>1. After(c) \ {Thing(c)} = Drift \ {Thing(c)}
          BY <1>1, <1>5, AfterApart DEF After, Drift
        <4> QED
          BY <1>2, <3>1, <4>1, BoundedSubset
      <3> QED
        BY <1>2, <2>3, <3>1 DEF Accounted
    <2>5. Bounded(Drift', faults')
      BY <1>1, <1>4, <2>2, <2>4 DEF After
    <2>6. /\ \A n \in Names : pv'[n] # None => Exists(n)'
          /\ \A s \in Snaps : vsc'[s] # None => Exists(s)'
      <3>1. /\ \A x \in Objects \ {o} : phase'[x] = phase[x]
            /\ h[c].op \in {"CreateVolume", "CreateSnapshot"} => phase'[o] = "bound"
        BY <2>1 DEF Recorded
      <3>2. \A n \in Names : \/ pv'[n] = None
                             \/ pv'[n] = pv[n] /\ n # o
                             \/ n = o /\ h[c].op = "CreateVolume"
        BY <1>2, <2>1, <2>2, ObjectAssumption DEF PVAfter, PVs, HandlerOK, Ops
      <3>3. \A s \in Snaps : \/ vsc'[s] = None
                             \/ vsc'[s] = vsc[s] /\ s # o
                             \/ s = o /\ h[c].op = "CreateSnapshot"
        BY <1>2, <2>1, <2>2, ObjectAssumption DEF VSCAfter, VSCs, HandlerOK, Ops
      <3> QED
        BY <3>1, <3>2, <3>3 DEF DriftInv, Exists, Objects
    <2> QED
      BY <1>3, <2>5, <2>6 DEF DriftInv
  <1>6. CASE ~(h[c].code = "OK" /\ h[c].gone = "no")
    <2>1. UNCHANGED <<pv, vsc, phase>>
      BY <1>6 DEF Reply, storeVars
    <2>2. Bounded(Drift, faults)
      <3>1. CASE Bounded(Drift \cup {Thing(c)}, faults)
        BY <1>2, <3>1, BoundedSubset
      <3>2. h[c].gone = "no" => ~Settled(c)
        BY <1>1, <1>6 DEF Settled
      <3> QED
        BY <1>2, <3>1, <3>2 DEF Accounted
    <2>3. Bounded(Drift', faults')
      BY <1>1, <1>4, <2>1, <2>2 DEF Drift
    <2> QED
      BY <1>3, <2>1, <2>3 DEF DriftInv, Exists
  <1> QED
    BY <1>5, <1>6

\* Giving up on a call pays for what it was working on.
LEMMA GivenUp ==
  ASSUME VolumeInv, DriftInv, NEW c \in Calls, h[c].pc # "idle"
  PROVE  Bounded(Drift \cup {Thing(c)}, faults + 1)
  <1>1. faults \in Nat /\ faults + 1 \in Nat /\ faults <= faults + 1
    BY DEF VolumeInv, IndInv, TypeOK
  <1>2. Accounted(c) /\ h[c].pc \in Steps \cup {"done"}
    BY HandlerFacts DEF DriftInv, VolumeInv, Handlers
  <1>3. CASE Bounded(Drift \cup {Thing(c)}, faults)
    BY <1>1, <1>3, BoundedSubset
  <1>4. CASE Bounded(Drift, faults)
    <2>1. Bounded(Drift \ {Thing(c)}, faults)
      BY <1>1, <1>4, BoundedSubset
    <2> QED
      BY <1>1, <2>1, BoundedAdd
  <1>5. CASE Bounded(After(c), faults) /\ h[c].gone = "no"
    <2>1. After(c) \ {Thing(c)} = Drift \ {Thing(c)}
      BY <1>2, <1>5, AfterApart DEF After, Drift
    <2>2. Bounded(After(c) \ {Thing(c)}, faults)
      BY <1>1, <1>5, BoundedSubset
    <2> QED
      BY <1>1, <2>1, <2>2, BoundedAdd
  <1> QED
    BY <1>2, <1>3, <1>4, <1>5 DEF Accounted

LEMMA DriftAbandoned ==
  ASSUME VolumeInv, PinInv, DriftInv, NEW c \in Calls, Abandon(c)
  PROVE  DriftInv'
  <1>1. /\ h[c].pc # "idle" /\ faults' = faults + 1
        /\ UNCHANGED <<pinned, mfs, claim, pv, vsc, phase>>
    BY DEF Abandon, ipfsVars, envVars, storeVars
  <1>2. /\ h'[c].pc = h[c].pc /\ h'[c].op = h[c].op /\ h'[c].obj = h[c].obj
        /\ h'[c].cid = h[c].cid /\ h'[c].refs = h[c].refs /\ h'[c].path = h[c].path
        /\ \A d \in Calls \ {c} : h'[d] = h[d]
    BY HandlerFacts DEF Abandon, VolumeInv, Handlers
  <1>3. \A d \in Calls \ {c} : h'[d].pc = "idle"
    BY <1>1, <1>2 DEF PinInv, Serial
  <1>4. Drift' = Drift
    BY <1>1, SameTrees DEF Drift
  <1>5. Thing(c)' = Thing(c)
    BY <1>1, <1>2 DEF Thing, volumePath
  <1>6. Accounted(c)'
    BY <1>1, <1>4, <1>5, GivenUp DEF Accounted
  <1>7. KnownOK(c) /\ (volumePath(h[c].obj)' = volumePath(h[c].obj))
    BY <1>1, <1>2 DEF DriftInv, volumePath
  <1>8. (OtherVolume(c)' <=> OtherVolume(c)) /\ (OtherSnapshot(c)' <=> OtherSnapshot(c))
    BY <1>1, <1>2 DEF OtherVolume, OtherSnapshot
  <1>9. KnownOK(c)'
    BY <1>1, <1>2, <1>7, <1>8 DEF KnownOK
  <1> QED
    BY <1>1, <1>2, <1>3, <1>6, <1>9 DEF DriftInv, Exists

LEMMA DriftCrash ==
  ASSUME VolumeInv, DriftInv, Crash
  PROVE  DriftInv'
  <1>1. /\ faults' = faults + 1 /\ UNCHANGED <<pinned, mfs, pv, vsc, claim, phase>>
        /\ faults \in Nat
    BY DEF Crash, ipfsVars, StartInformers, VolumeInv, IndInv, TypeOK
  <1>2. \A d \in Calls : h'[d].pc = "idle"
    BY DEF Crash, Idle
  <1>3. Bounded(Drift, faults + 1)
    <2>1. CASE \A d \in Calls : h[d].pc = "idle"
      <3>1. Bounded(Drift, faults)
        BY <2>1 DEF DriftInv
      <3> QED
        BY <1>1, <3>1, BoundedSubset
    <2>2. ASSUME NEW c \in Calls, h[c].pc # "idle"
          PROVE  Bounded(Drift, faults + 1)
      <3>1. Bounded(Drift \cup {Thing(c)}, faults + 1)
        BY <2>2, GivenUp
      <3> QED
        BY <1>1, <3>1, BoundedSubset
    <2> QED
      BY <2>1, <2>2
  <1>4. Drift' = Drift
    BY <1>1, SameTrees DEF Drift
  <1> QED
    BY <1>1, <1>2, <1>3, <1>4 DEF DriftInv, Exists

\* The tree that a node imports to is one the volume is to have.
LEMMA DriftImported ==
  ASSUME VolumeInv, DriftInv, DistinctVolumes, ~Overlap, NEW n \in Names, NodeImport(n)
  PROVE  DriftInv'
  <1> DEFINE e == <<"tree", pv[n].mfspath>>
  <1>1. /\ \A c \in Calls : h[c].pc = "idle"
        /\ UNCHANGED <<pinned, pv, vsc, h, claim, phase, faults>> /\ faults \in Nat
    BY DEF NodeImport, Quiet, storeVars, VolumeInv, IndInv, TypeOK
  <1>2. PICK d \in CIDs : mfs' = Imported(pv[n].mfspath, d)
    BY DEF NodeImport
  <1>3. pv[n] # None /\ WantsTree(pv, pv[n].mfspath)
    BY AttributesAssumption DEF NodeImport, VolumeInv, IndInv, ObjectsOK, WantsTree
  <1>4. mfs \in [Paths -> CIDs \cup {None}] /\ d # None
    BY NoneAssumption DEF VolumeInv, IndInv, TypeOK, IpfsTypeOK
  <1>5. /\ \A q \in Paths : <<"tree", q>> # e => Trees'[q] = Trees[q]
        /\ Trees'[pv[n].mfspath] # None
    <2>1. phase[n] \in {"bound", "released"} /\ pv[n] = VolumeContext(n)
      BY DEF NodeImport, VolumeInv, OwnersInv, ContextsOK
    <2>2. claim[n].cid = None /\ pv[n].mfspath = volumePath(n)
      BY <2>1, ContextFields DEF NodeImport
    <2>3. volumePath(n) \in Paths /\ volumePath(n) # None
      BY <2>1, <2>2, PathAssumption, NoneAssumption DEF VolumeInv, BranchInv, PathsOK
    <2>4. mfs'[volumePath(n)] = d
      BY <1>2, <2>2, <2>3 DEF Imported
    <2>5. /\ \A q \in Paths : q # volumePath(n) => Trees'[q] = Trees[q]
          /\ Trees'[volumePath(n)] = mfs'[volumePath(n)]
      BY <1>1, <1>2, <2>2, <2>3, TreesMove
    <2> QED
      BY <1>4, <2>2, <2>4, <2>5
  <1>6. Drift' = DriftOf(pinned, Trees', pv, vsc)
    BY <1>1 DEF Drift
  <1>7. Drift' \ {e} = Drift \ {e}
    <2> HIDE DEF e
    <2>1. DriftOf(pinned, Trees', pv, vsc) \ {e} = DriftOf(pinned, Trees, pv, vsc) \ {e}
      BY <1>5, DriftApart
    <2> QED
      BY <1>6, <2>1 DEF Drift
  <1>8. e \notin Drift'
    BY <1>3, <1>5, <1>6, DriftMember
  <1>9. Bounded(Drift', faults)
    <2>1. Bounded(Drift, faults) /\ Drift' \subseteq Drift
      BY <1>1, <1>7, <1>8 DEF DriftInv
    <2> QED
      BY <1>1, <2>1, BoundedSubset
  <1> QED
    BY <1>1, <1>9 DEF DriftInv, Exists

LEMMA DriftUntouched ==
  ASSUME DriftInv, UNCHANGED <<pinned, mfs, pv, vsc, claim, h, faults>>,
         \A o \in Objects : Exists(o) => Exists(o)'
  PROVE  DriftInv'
  <1>3. Trees' = Trees
    BY SameTrees
  <1>1. Drift' = Drift
    BY <1>3 DEF Drift
  <1>2. ASSUME NEW c \in Calls, h[c].pc # "idle"
        PROVE  Accounted(c)' /\ KnownOK(c)'
    <2>1. Thing(c)' = Thing(c) /\ (Settled(c)' <=> Settled(c))
      BY DEF Thing, volumePath, Settled
    <2>2. After(c)' = After(c)
      BY <1>3 DEF After, PVAfter, VSCAfter, VolumeContext, volumePath
    <2>3. Accounted(c) /\ KnownOK(c)
      BY <1>2 DEF DriftInv
    <2>4. Accounted(c)'
      BY <1>1, <2>1, <2>2, <2>3 DEF Accounted
    <2>5. KnownOK(c)'
      BY <2>3 DEF KnownOK, OtherVolume, OtherSnapshot, volumePath
    <2> QED
      BY <2>4, <2>5
  <1> QED
    BY <1>1, <1>2 DEF DriftInv, Objects
-----------------------------------------------------------------------------
LEMMA InitDriftInv == Init => DriftInv
  <1> SUFFICES ASSUME Init PROVE DriftInv
    OBVIOUS
  <1>1. \A c \in Calls : h[c].pc = "idle"
    BY DEF Init, Idle
  <1>2. \A n \in Names : pv[n] = None
    BY DEF Init, StoresInit
  <1>3. \A s \in Snaps : vsc[s] = None
    BY DEF Init, StoresInit
  <1>4. pinned = {} /\ (\A p \in Paths : mfs[p] = None) /\ faults = 0
    BY DEF Init, IpfsInit
  <1>5. \A d \in CIDs : ~WantsPin(pv, vsc, d)
    BY <1>2, <1>3, NoneAssumption DEF WantsPin
  <1>6. \A q \in Paths : ~WantsTree(pv, q)
    BY <1>2 DEF WantsTree
  <1>7. Drift = {}
    BY <1>4, <1>5, <1>6, DriftMember DEF Drift, Trees
  <1>8. Bounded(Drift, faults)
    BY <1>4, <1>7, FS_EmptySet DEF Bounded
  <1> QED
    BY <1>1, <1>2, <1>3, <1>8 DEF DriftInv

LEMMA NextDriftInv ==
  ASSUME VolumeInv, PinInv, DriftInv, ~Overlap, SnapshotStore, DistinctVolumes,
         NothingRestored, [Next]_vars
  PROVE  DriftInv'
  <1>1. CASE \/ \E n \in Names : CallVolume(n)
             \/ \E s \in Snaps : CallSnapshot(s)
    BY <1>1, DriftStart
  <1>2. CASE \E c \in Calls : HandlerStep(c) \/ Reply(c) \/ Abandon(c)
    BY <1>2, DriftHandled, DriftReply, DriftAbandoned
  <1>3. CASE Crash \/ \E n \in Names : NodeImport(n)
    BY <1>3, DriftCrash, DriftImported
  <1>4. ASSUME NEW o \in Objects, ReleaseObject(o)
        PROVE  DriftInv'
    <2>1. UNCHANGED <<pinned, mfs, pv, vsc, claim, h, faults>>
      BY <1>4 DEF ReleaseObject, ipfsVars, storeVars
    <2>2. \A x \in Objects : Exists(x) => Exists(x)'
      BY <1>4 DEF ReleaseObject, Exists, VolumeInv, IndInv, TypeOK
    <2> QED
      BY <2>1, <2>2, DriftUntouched
  <1>5. CASE InformerStep
    <2>1. UNCHANGED <<pinned, mfs, pv, vsc, claim, h, faults, phase>>
      BY <1>5 DEF InformerStep, ApplyPVEvent, ApplyVSCEvent, ipfsVars
    <2> QED
      BY <2>1, DriftUntouched DEF Exists
  <1>6. CASE UNCHANGED vars
    <2>1. UNCHANGED <<pinned, mfs, pv, vsc, claim, h, faults, phase>>
      BY <1>6 DEF vars, ipfsVars, storeVars
    <2> QED
      BY <2>1, DriftUntouched DEF Exists
  <1> QED
    BY <1>1, <1>2, <1>3, <1>4, <1>5, <1>6 DEF Next

\* Two kinds of things counted together are as many as counted apart.
LEMMA CountedApart ==
  ASSUME NEW S, NEW T, NEW k \in Nat,
         Bounded({<<"pin", d>> : d \in S} \cup {<<"tree", q>> : q \in T}, k)
  PROVE  Cardinality(S) + Cardinality(T) <= k
  <1> DEFINE A == {<<"pin", d>> : d \in S}
             B == {<<"tree", q>> : q \in T}
             f == [d \in S |-> <<"pin", d>>]
             g == [q \in T |-> <<"tree", q>>]
  <1>1. IsFiniteSet(A) /\ IsFiniteSet(B)
    BY FS_Subset DEF Bounded
  <1>2. f \in Injection(S, A) /\ g \in Injection(T, B)
    BY DEF Injection, IsInjective
  <1>3. A \cap B = {}
    OBVIOUS
  <1> HIDE DEF f, g
  <1>4. IsFiniteSet(S) /\ Cardinality(S) <= Cardinality(A)
    BY <1>1, <1>2, FS_Injection
  <1>5. IsFiniteSet(T) /\ Cardinality(T) <= Cardinality(B)
    BY <1>1, <1>2, FS_Injection
  <1> HIDE DEF A, B
  <1>6. Cardinality(A \cup B) = Cardinality(A) + Cardinality(B) - Cardinality(A \cap B)
    BY <1>1, FS_Union
  <1>7. Cardinality(A \cap B) = 0
    BY <1>3, FS_EmptySet
  <1>8. /\ Cardinality(S) \in Nat /\ Cardinality(T) \in Nat
        /\ Cardinality(A) \in Nat /\ Cardinality(B) \in Nat
    BY <1>1, <1>4, <1>5, FS_CardinalityType
  <1>9. Cardinality(A \cup B) <= k
    BY DEF Bounded, A, B
  <1> QED
    BY <1>4, <1>5, <1>6, <1>7, <1>8, <1>9

LEMMA DriftCounted ==
  ASSUME VolumeInv, DriftInv
  PROVE  DriftBounded
  <1> SUFFICES ASSUME Quiet
               PROVE  Cardinality(SymmetricDifference(pinned, OwnedCIDs \ {None}))
                      + Cardinality(SymmetricDifference(
                          {p \in Paths : mfs[p] # None /\ ~Leads(p)}, OwnedTrees))
                      <= faults
    BY DEF DriftBounded
  <1> DEFINE S == {x \in CIDs : ~(x \in pinned <=> WantsPin(pv, vsc, x))}
             T == {x \in Paths : ~(Trees[x] # None <=> WantsTree(pv, x))}
  <1>1. /\ pv \in PVs /\ vsc \in VSCs /\ pinned \subseteq CIDs /\ faults \in Nat
    BY DEF VolumeInv, IndInv, TypeOK, StoresTypeOK, IpfsTypeOK
  <1>2. SymmetricDifference(pinned, OwnedCIDs \ {None}) = S
    <2>1. \A x \in CIDs : x \in OwnedCIDs <=> WantsPin(pv, vsc, x)
      BY DEF OwnedCIDs, WantsPin
    <2>2. OwnedCIDs \ {None} \subseteq CIDs
      <3>1. \A n \in Names : pv[n] # None => pv[n].cid \in CIDs \cup {None}
        BY <1>1 DEF PVs, VolumeAttributes
      <3>2. \A s \in Snaps : vsc[s] \in CIDs \cup {None}
        BY <1>1 DEF VSCs
      <3> QED
        BY <3>1, <3>2 DEF OwnedCIDs
    <2> QED
      BY <1>1, <2>1, <2>2, NoneAssumption DEF SymmetricDifference
  <1>3. SymmetricDifference({p \in Paths : mfs[p] # None /\ ~Leads(p)}, OwnedTrees)
          = T
    <2>1. \A x : x \in OwnedTrees <=> WantsTree(pv, x)
      BY DEF OwnedTrees, WantsTree
    <2>2. ASSUME NEW n \in Names, pv[n] # None, ~pv[n].readonly
          PROVE  pv[n].mfspath \in Paths
      <3>1. pv[n] = VolumeContext(n) /\ Exists(n)
        BY <2>2 DEF VolumeInv, OwnersInv, ContextsOK, DriftInv
      <3>2. /\ VolumeContext(n).readonly = (claim[n].cid # None)
            /\ claim[n].cid = None => VolumeContext(n).mfspath = volumePath(n)
        BY DEF VolumeContext
      <3>3. claim[n].cid = None /\ pv[n].mfspath = volumePath(n)
        BY <2>2, <3>1, <3>2
      <3> QED
        BY <3>1, <3>3, PathAssumption DEF VolumeInv, BranchInv, PathsOK, Exists
    <2>3. OwnedTrees \subseteq Paths
      BY <2>2 DEF OwnedTrees
    <2>4. \A x \in Paths : Trees[x] # None <=> mfs[x] # None /\ ~Leads(x)
      BY DEF Trees
    <2> QED
      BY <2>1, <2>3, <2>4 DEF SymmetricDifference
  <1>4. Bounded({<<"pin", d>> : d \in S} \cup {<<"tree", q>> : q \in T}, faults)
    BY DEF DriftInv, Quiet, Drift, DriftOf
  <1> HIDE DEF S, T
  <1>5. Cardinality(S) + Cardinality(T) <= faults
    BY <1>1, <1>4, CountedApart
  <1> QED
    BY <1>2, <1>3, <1>5

(***************************************************************************)
(* For any number of volumes and snapshots, however they share CIDs, with  *)
(* calls one after the other, the snapshot CRD there and volumes apart:    *)
(* the pins and trees that do not match what Kubernetes has recorded are   *)
(* never more than the failures, lost answers and restarts there were.     *)
(* Volumes restored from a snapshot are left out: restoreSnapshotToMFS may *)
(* answer NotFound after the MkdirMFS of its volume, which leaves a tree   *)
(* behind although no call failed (utils.go:109-178, controller.go:98-108, *)
(* 530-572).                                                               *)
(***************************************************************************)
THEOREM DriftIsBounded ==
  ASSUME ~Overlap, SnapshotStore, DistinctVolumes, NothingRestored
  PROVE  Spec => []DriftBounded
  <1> DEFINE Inv == VolumeInv /\ PinInv /\ DriftInv
  <1>1. Init => Inv
    BY InitVolumeInv, InitPinInv, InitDriftInv
  <1>2. Inv /\ [Next]_vars => Inv'
    <2>1. DistinctIDs
      BY DEF DistinctVolumes
    <2> QED
      BY <2>1, NextVolumeInv, NextPinInv, NextDriftInv
  <1>3. Inv => DriftBounded
    BY DriftCounted
  <1> QED
    BY <1>1, <1>2, <1>3, PTL DEF Spec

=============================================================================
