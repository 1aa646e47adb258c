----------------------------- MODULE NodeProofs -----------------------------
(***************************************************************************)
(* What the node service promises of a volume, for every set of nodes,     *)
(* handler goroutines, contents and failures: it never leaves its types,   *)
(* and where the kubelet's freedoms cost no data (KeepsData) a pod sees    *)
(* what was last written, the MFS tree is what was last written once the   *)
(* volume is unused, and both together are a register.                     *)
(***************************************************************************)
EXTENDS NodeService, TLAPS

-----------------------------------------------------------------------------
(***************************************************************************)
(* The inductive invariant behind TypeOK: which steps belong to which call *)
(* and which fields are set by then.                                       *)
(***************************************************************************)
HandlerOK(x) ==
  /\ x \in Handlers
  /\ x.pc = "idle" => x = Idle
  /\ x.pc # "idle" => x.node \in Nodes
  /\ \/ x.pc = "idle"
     \/ x.op = "Stage" /\ x.pc \in FetchSteps \cup {"done"}
     \/ /\ x.op = "Publish"
        /\ x.pc \in {"Mount", "done"} \/ (~Staging /\ x.pc \in FetchSteps)
     \/ x.op = "Unpublish" /\ x.pc \in {"Unmount", "done"}
     \/ /\ x.op = "Unstage"
        /\ x.pc \in {"GetVolumeAttributes", "CleanupMountPoint", "done"} \cup ImportSteps
  /\ x.pc # "idle" /\ x.op = "Publish" => x.pod # 0
  /\ x.pc = "GetCIDContent" => x.cid \in CIDs
  /\ x.pc \in {"statMFS"} \cup ImportSteps => Path \in Paths

TypeInv ==
  /\ TypeOK
  /\ \A c \in Calls : HandlerOK(h[c])
  /\ \A nd \in Nodes : pod[nd] => pods # 0

-----------------------------------------------------------------------------
(***************************************************************************)
(* The inductive invariant behind the data.                                *)
(***************************************************************************)
Live(c) == h[c].pc # "idle" /\ h[c].gone = "no"

On(c, op) == h[c].pc # "idle" /\ h[c].op = op

\* One call at a time for a node, as far as the kubelet knows.
OneCall ==
  \A c, d \in Calls : Live(c) /\ Live(d) /\ h[c].node = h[d].node => c = d

\* What the kubelet knows while a call is under way.
CallOK(c) ==
  /\ On(c, "Stage") => h[c].gone = "no" /\ staged[h[c].node] # "yes"
  /\ On(c, "Unstage") /\ h[c].gone = "no"
       => staged[h[c].node] = "uncertain" /\ published[h[c].node] = "no"
  /\ (On(c, "Publish") \/ On(c, "Unpublish")) /\ h[c].gone = "no"
       => staged[h[c].node] = "yes"

\* A staging under way: an empty directory, then all of the data.
StageOK(c) ==
  On(c, "Stage") =>
    /\ h[c].pc = "statMFS" => volume.cid = None
    /\ h[c].pc \in {"statMFS", "GetCIDContent"}
         => \/ dir[h[c].node] = EmptyDir
            \/ dir[h[c].node] = None /\ data # EmptyDir
    /\ h[c].pc = "GetCIDContent" => h[c].cid = data
    /\ h[c].pc = "done" /\ h[c].code = "OK" => dir[h[c].node] = data

NodeOK(nd) ==
  /\ published[nd] # "no" => staged[nd] = "yes"
  /\ running[nd] => pod[nd] /\ staged[nd] = "yes"
  /\ staged[nd] = "yes" => dir[nd] = data

Active(nd) == pod[nd] \/ staged[nd] # "no" \/ Calling(nd)

\* Without a handover, one node at a time has to do with the volume.
Exclusive ==
  "handover" \notin Allow =>
    \A nd, m \in Nodes : Active(nd) /\ Active(m) => nd = m

\* An import under way: what is copied and what is left make up the data.
ImportOK(c) ==
  On(c, "Unstage") =>
    /\ h[c].gone = "no"
    /\ h[c].pc = "MkdirMFS" => mfs[Path] = None
    /\ h[c].pc = "OpenRoot" => mfs[Path] = EmptyDir
    /\ h[c].pc = "cpMFS"
         => /\ mfs[Path] # None /\ mfs[Path] \cap h[c].todo = {}
            /\ mfs[Path] \cup h[c].todo = data
    /\ h[c].pc = "CleanupMountPoint" => mfs[Path] = data
    /\ h[c].pc = "done" /\ h[c].code = "OK" => mfs[Path] = data

\* The directory may be gone once the import is done.
Imported(nd) ==
  \E c \in Calls : /\ On(c, "Unstage") /\ h[c].node = nd
                   /\ h[c].pc = "done" /\ h[c].code = "OK"

WrittenOK ==
  /\ \A c \in Calls : ImportOK(c)
  /\ \A c \in Calls : On(c, "Stage") => staged[h[c].node] = "no"
  /\ \A nd \in Nodes :
       staged[nd] = "uncertain"
         => /\ ~pod[nd]
            /\ dir[nd] = data \/ (dir[nd] = None /\ Imported(nd))
  /\ (\A nd \in Nodes : staged[nd] = "no") => mfs[Path] = data

DataInv ==
  /\ OneCall
  /\ \A c \in Calls : CallOK(c) /\ StageOK(c)
  /\ \A nd \in Nodes : NodeOK(nd)
  /\ Exclusive
  /\ volume.readonly => data = volume.cid
  /\ ~volume.readonly => WrittenOK

-----------------------------------------------------------------------------
(***************************************************************************)
(* A handler's step, field by field.                                       *)
(***************************************************************************)
Failed(c) == h'[c].pc = "done" /\ h'[c].code = "Internal"
Passed(c) == h'[c].pc = "done" /\ h'[c].code = "OK"
FetchedTo(c) ==
  \/ h[c].op = "Stage" /\ Passed(c)
  \/ h[c].op # "Stage" /\ h'[c].pc = "Mount"

\* The handler itself, and what it leaves alone.
Moved(c) ==
  /\ h' = [h EXCEPT ![c] = h'[c]]
  /\ h'[c] \in Handlers
  /\ h'[c].op = h[c].op /\ h'[c].node = h[c].node /\ h'[c].pod = h[c].pod
  /\ h'[c].gone = "no" <=> h[c].gone = "no"
  /\ UNCHANGED kubeletVars

\* Where it goes, and what becomes of the directory and of the MFS tree.
Moves(c) ==
  LET nd == h[c].node
      from(pc) == h[c].pc = pc
      to(pc) == h'[c].pc = pc
  IN  \/ /\ from("fetchContentToPath") /\ mfs' = mfs
         /\ \/ volume.cid = None /\ Path = None /\ FetchedTo(c) /\ dir' = dir
            \/ /\ volume.cid # None /\ to("GetCIDContent") /\ h'[c].cid = volume.cid
               /\ dir' = [dir EXCEPT ![nd] = EmptyDir]
            \/ /\ volume.cid = None /\ Path # None /\ to("statMFS")
               /\ dir' = [dir EXCEPT ![nd] = EmptyDir]
      \/ /\ from("statMFS") /\ UNCHANGED <<mfs, dir>>
         /\ \/ Failed(c)
            \/ to("GetCIDContent") /\ mfs[Path] # None /\ h'[c].cid = mfs[Path]
      \/ /\ from("GetCIDContent") /\ mfs' = mfs
         /\ \/ /\ FetchedTo(c) /\ dir[nd] # None
               /\ dir' = [dir EXCEPT ![nd] = dir[nd] \cup h[c].cid]
            \/ FetchedTo(c) /\ dir[nd] = None /\ h[c].cid = EmptyDir /\ dir' = dir
            \/ /\ Failed(c) /\ dir[nd] # None
               /\ \E part \in SUBSET h[c].cid :
                    dir' = [dir EXCEPT ![nd] = dir[nd] \cup part]
            \/ Failed(c) /\ dir' = dir
      \/ /\ from("Mount") \/ from("Unmount")
         /\ Failed(c) \/ Passed(c)
         /\ UNCHANGED <<mfs, dir>>
      \/ /\ from("GetVolumeAttributes") /\ UNCHANGED <<mfs, dir>>
         /\ \/ to("RmMFS") /\ ~volume.readonly /\ Path # None
            \/ /\ to("CleanupMountPoint")
               /\ volume.readonly \/ Path = None \/ "stale_pv" \in Allow
      \/ /\ from("RmMFS") /\ to("MkdirMFS") /\ dir' = dir
         /\ \E o : /\ RmMFS(Path, o)
                   /\ o = "err" => h[c].gone # "no" \/ "rm_error" \in Allow
      \/ /\ from("MkdirMFS") /\ dir' = dir
         /\ \/ to("OpenRoot") /\ MkdirMFS(Path, "ok")
            \/ Failed(c) /\ \E o : MkdirMFS(Path, o)
      \/ /\ from("OpenRoot") /\ UNCHANGED <<mfs, dir>>
         /\ \/ Failed(c)
            \/ to("cpMFS") /\ dir[nd] # None /\ h'[c].todo = dir[nd]
      \/ /\ from("cpMFS") /\ dir' = dir
         /\ \/ h[c].todo = {} /\ to("CleanupMountPoint") /\ mfs' = mfs
            \/ Failed(c) /\ mfs' = mfs
            \/ \E f \in h[c].todo :
                 /\ ~cpRefused(f, Path)
                 /\ \/ /\ to("cpMFS") /\ h'[c].todo = h[c].todo \ {f}
                       /\ cpMFS(f, Path, "ok")
                    \/ Failed(c) /\ \E o : cpMFS(f, Path, o)
      \/ /\ from("CleanupMountPoint") /\ Passed(c) /\ mfs' = mfs
         /\ dir' = [dir EXCEPT ![nd] = IF dir[nd] = EmptyDir THEN None ELSE dir[nd]]

\* A CID is a set of files, so anything between is one too.
LEMMA CIDsAreDirs == CIDs = SUBSET Files
  BY DEF CIDs

\* The updated handler, field by field: it goes on to another step.
LEMMA GotoFields ==
  ASSUME NEW c \in Calls, NEW r \in Handlers, NEW pc \in Steps,
         h \in [Calls -> Handlers], Goto(c, pc, r)
  PROVE  /\ h' = [h EXCEPT ![c] = h'[c]]
         /\ h'[c] \in Handlers
         /\ h'[c].pc = pc /\ h'[c].op = r.op /\ h'[c].node = r.node
         /\ h'[c].cid = r.cid /\ h'[c].todo = r.todo /\ h'[c].pod = r.pod
         /\ h'[c].gone = "no" <=> r.gone = "no"
  <1> DEFINE x == [r EXCEPT !.pc = pc, !.gone = nextCall(@)]
  <1>1. /\ nextCall(r.gone) \in {"no", "now", "before"}
        /\ nextCall(r.gone) = "no" <=> r.gone = "no"
    BY DEF nextCall
  <1>2. x \in Handlers
    BY <1>1 DEF Handlers
  <1>3. /\ x.pc = pc /\ x.op = r.op /\ x.node = r.node /\ x.cid = r.cid
        /\ x.todo = r.todo /\ x.pod = r.pod /\ x.gone = nextCall(r.gone)
    BY DEF Handlers
  <1>4. h' = [h EXCEPT ![c] = x]
    BY DEF Goto
  <1> HIDE DEF x
  <1>5. h'[c] = x
    BY <1>4
  <1> QED
    BY <1>1, <1>2, <1>3, <1>4, <1>5

\* ... and when it returns.
LEMMA ReturnFields ==
  ASSUME NEW c \in Calls, NEW code \in {"OK", "Internal"},
         h \in [Calls -> Handlers], Return(c, code)
  PROVE  /\ h' = [h EXCEPT ![c] = h'[c]]
         /\ h'[c] \in Handlers
         /\ h'[c].pc = "done" /\ h'[c].code = code
         /\ h'[c].op = h[c].op /\ h'[c].node = h[c].node /\ h'[c].pod = h[c].pod
         /\ h'[c].gone = h[c].gone
  <1> DEFINE r == h[c]
             x == [r EXCEPT !.pc = "done", !.code = code]
  <1>1. r \in Handlers
    OBVIOUS
  <1>2. h' = [h EXCEPT ![c] = x]
    BY DEF Return
  <1> HIDE DEF r
  <1>3. x \in Handlers
    BY <1>1 DEF Handlers
  <1>4. /\ x.pc = "done" /\ x.code = code /\ x.op = r.op /\ x.node = r.node
        /\ x.pod = r.pod /\ x.gone = r.gone
    BY <1>1 DEF Handlers
  <1> HIDE DEF x
  <1>5. h'[c] = x
    BY <1>2
  <1> QED
    BY <1>2, <1>3, <1>4, <1>5 DEF r

\* What a step leaves well typed.
Effects ==
  /\ IpfsTypeOK'
  /\ dir' \in [Nodes -> CIDs \cup {None}]
  /\ mounted' \in [Nodes -> SUBSET (1..MaxPods)]
  /\ faults' \in 0..MaxFaults

Stepped(c) == Moved(c) /\ HandlerOK(h'[c]) /\ Moves(c) /\ Effects

LEMMA HandlerFacts ==
  ASSUME TypeInv, NEW c \in Calls
  PROVE  /\ h \in [Calls -> Handlers] /\ h[c] \in Handlers /\ HandlerOK(h[c])
         /\ IpfsTypeOK /\ mfs \in [Paths -> CIDs \cup {None}]
         /\ dir \in [Nodes -> CIDs \cup {None}]
         /\ mounted \in [Nodes -> SUBSET (1..MaxPods)]
         /\ faults \in 0..MaxFaults
         /\ volume \in VolumeAttributes /\ Path \in Paths \cup {None}
         /\ ~volume.readonly => Path # None
  BY NodeAssumption DEF TypeInv, TypeOK, IpfsTypeOK, Path

\* The fault budget holds whatever becomes of a call.
LEMMA FaultsType ==
  ASSUME TypeInv, NEW c, NEW o, NEW kind,
         Outcome(c, o, kind) \/ LocalFailure(kind) \/ UNCHANGED faults
  PROVE  faults' \in 0..MaxFaults
  <1>1. faults \in 0..MaxFaults /\ MaxFaults \in Nat
    BY NodeAssumption DEF TypeInv, TypeOK
  <1> QED
    BY <1>1 DEF Outcome, LocalFailure

\* MFS paths hold directories or nothing.
LEMMA MfsType ==
  ASSUME IpfsTypeOK, NEW p \in Paths, NEW o,
         \/ MkdirMFS(p, o)
         \/ RmMFS(p, o)
         \/ \E f \in Files : ~cpRefused(f, p) /\ cpMFS(f, p, o),
         pinned' = pinned
  PROVE  IpfsTypeOK'
  <1>1. CASE MkdirMFS(p, o) \/ RmMFS(p, o)
    BY <1>1, CIDsAreDirs
    DEF IpfsTypeOK, MkdirMFS, RmMFS, Made, Removed, EmptyDir
  <1>2. ASSUME NEW f \in Files, ~cpRefused(f, p), cpMFS(f, p, o)
        PROVE  IpfsTypeOK'
    <2>1. mfs[p] \in CIDs
      BY <1>2 DEF cpRefused, IpfsTypeOK
    <2>2. mfs[p] \cup {f} \in CIDs
      BY <2>1, CIDsAreDirs
    <2> QED
      BY <1>2, <2>2 DEF cpMFS, IpfsTypeOK
  <1> QED
    BY <1>1, <1>2

\* A handler that returns may do so from anywhere.
LEMMA ReturnMove ==
  ASSUME TypeInv, NEW c \in Calls, h[c].pc # "idle",
         NEW code \in {"OK", "Internal"}, Return(c, code), UNCHANGED kubeletVars
  PROVE  /\ Moved(c) /\ HandlerOK(h'[c])
         /\ h'[c].pc = "done" /\ h'[c].code = code
  <1>1. /\ h' = [h EXCEPT ![c] = h'[c]] /\ h'[c] \in Handlers
        /\ h'[c].pc = "done" /\ h'[c].code = code
        /\ h'[c].op = h[c].op /\ h'[c].node = h[c].node /\ h'[c].pod = h[c].pod
        /\ h'[c].gone = h[c].gone
    BY HandlerFacts, ReturnFields
  <1>2. "done" \notin FetchSteps /\ "done" \notin ImportSteps
    BY DEF FetchSteps, ImportSteps
  <1> QED
    BY <1>1, <1>2, HandlerFacts DEF Moved, HandlerOK

\* One that goes on must go to a step of its call, with the fields set.
LEMMA GotoMove ==
  ASSUME TypeInv, NEW c \in Calls, h[c].pc # "idle", NEW pc \in Steps,
         NEW r \in Handlers, r.op = h[c].op, r.node = h[c].node, r.pod = h[c].pod,
         r.gone = h[c].gone, Goto(c, pc, r), UNCHANGED kubeletVars,
         \/ r.op = "Stage" /\ pc \in FetchSteps
         \/ r.op = "Publish" /\ (pc = "Mount" \/ (~Staging /\ pc \in FetchSteps))
         \/ /\ r.op = "Unstage"
            /\ pc \in {"GetVolumeAttributes", "CleanupMountPoint"} \cup ImportSteps,
         pc = "GetCIDContent" => r.cid \in CIDs,
         pc \in {"statMFS"} \cup ImportSteps => Path \in Paths
  PROVE  /\ Moved(c) /\ HandlerOK(h'[c])
         /\ h'[c].pc = pc /\ h'[c].cid = r.cid /\ h'[c].todo = r.todo
  <1>1. /\ h' = [h EXCEPT ![c] = h'[c]] /\ h'[c] \in Handlers
        /\ h'[c].pc = pc /\ h'[c].op = r.op /\ h'[c].node = r.node
        /\ h'[c].cid = r.cid /\ h'[c].todo = r.todo /\ h'[c].pod = r.pod
        /\ h'[c].gone = "no" <=> r.gone = "no"
    BY HandlerFacts, GotoFields
  <1>2. pc # "idle"
    BY DEF Steps, FetchSteps, ImportSteps
  <1> QED
    BY <1>1, <1>2, HandlerFacts DEF Moved, HandlerOK

\* Steps of fetching belong to staging, or to publishing without it.
LEMMA FetchingCall ==
  ASSUME TypeInv, NEW c \in Calls, h[c].pc \in FetchSteps
  PROVE  /\ h[c].pc # "idle" /\ h[c].node \in Nodes
         /\ h[c].op = "Stage" \/ (h[c].op = "Publish" /\ ~Staging)
  BY HandlerFacts DEF HandlerOK, FetchSteps, ImportSteps

LEMMA FetchedMove ==
  ASSUME TypeInv, NEW c \in Calls, h[c].pc \in FetchSteps, Fetched(c),
         UNCHANGED kubeletVars
  PROVE  Moved(c) /\ HandlerOK(h'[c]) /\ FetchedTo(c)
  <1>1. /\ h[c].pc # "idle" /\ h[c] \in Handlers
        /\ h[c].op = "Stage" \/ h[c].op = "Publish"
    BY FetchingCall, HandlerFacts
  <1>2. CASE h[c].op = "Stage"
    BY <1>1, <1>2, ReturnMove DEF Fetched, FetchedTo, Passed
  <1>3. CASE h[c].op = "Publish"
    <2>1. Goto(c, "Mount", h[c]) /\ "Mount" \in Steps
      BY <1>3 DEF Fetched, Steps
    <2>2. "Mount" \notin {"statMFS"} \cup ImportSteps
      BY DEF ImportSteps
    <2> QED
      BY <1>1, <1>3, <2>1, <2>2, GotoMove DEF FetchedTo
  <1> QED
    BY <1>1, <1>2, <1>3

LEMMA fetchContentToPathMove ==
  ASSUME TypeInv, NEW c \in Calls, fetchContentToPath(c)
  PROVE  Stepped(c)
  <1>1. /\ h[c].pc = "fetchContentToPath" /\ h[c].pc \in FetchSteps
        /\ UNCHANGED <<ipfsVars, mounted, kubeletVars, faults>>
    BY DEF fetchContentToPath, FetchSteps
  <1>2. /\ h[c].pc # "idle" /\ h[c].node \in Nodes /\ h[c] \in Handlers
        /\ h[c].op = "Stage" \/ (h[c].op = "Publish" /\ ~Staging)
    BY <1>1, FetchingCall, HandlerFacts
  <1>3. UNCHANGED kubeletVars /\ mfs' = mfs
    BY <1>1 DEF ipfsVars
  <1>4. "GetCIDContent" \in Steps /\ "statMFS" \in Steps
    BY DEF Steps, FetchSteps
  <1>5. Effects
    <2>1. IpfsTypeOK' /\ mounted' \in [Nodes -> SUBSET (1..MaxPods)]
          /\ faults' \in 0..MaxFaults
      BY <1>1, HandlerFacts DEF IpfsTypeOK, ipfsVars
    <2>2. dir' \in [Nodes -> CIDs \cup {None}]
      BY HandlerFacts, CIDsAreDirs DEF fetchContentToPath, EmptyDir
    <2> QED
      BY <2>1, <2>2 DEF Effects
  <1>6. CASE volume.cid = None /\ Path = None /\ Fetched(c) /\ dir' = dir
    BY <1>1, <1>3, <1>5, <1>6, FetchedMove DEF Stepped, Moves
  <1>7. CASE /\ volume.cid # None /\ dir' = [dir EXCEPT ![h[c].node] = EmptyDir]
             /\ Goto(c, "GetCIDContent", [h[c] EXCEPT !.cid = volume.cid])
    <2> DEFINE r == [h[c] EXCEPT !.cid = volume.cid]
    <2>1. volume.cid \in CIDs
      BY <1>7, HandlerFacts DEF VolumeAttributes
    <2>2. /\ r \in Handlers /\ r.op = h[c].op /\ r.node = h[c].node
          /\ r.pod = h[c].pod /\ r.gone = h[c].gone /\ r.cid = volume.cid
      BY <1>2, <2>1 DEF Handlers
    <2>3. Goto(c, "GetCIDContent", r)
      BY <1>7
    <2>4. "GetCIDContent" \notin {"statMFS"} \cup ImportSteps /\ "GetCIDContent" \in FetchSteps
      BY DEF ImportSteps, FetchSteps
    <2> HIDE DEF r
    <2>5. /\ Moved(c) /\ HandlerOK(h'[c])
          /\ h'[c].pc = "GetCIDContent" /\ h'[c].cid = volume.cid
      BY <1>2, <1>3, <1>4, <2>1, <2>2, <2>3, <2>4, GotoMove
    <2> QED
      BY <1>1, <1>3, <1>5, <1>7, <2>5 DEF Stepped, Moves
  <1>8. CASE /\ volume.cid = None /\ Path # None
             /\ dir' = [dir EXCEPT ![h[c].node] = EmptyDir] /\ Goto(c, "statMFS", h[c])
    <2>1. Path \in Paths
      BY <1>8, HandlerFacts
    <2>2. "statMFS" \in FetchSteps
      BY DEF FetchSteps
    <2>3. Moved(c) /\ HandlerOK(h'[c]) /\ h'[c].pc = "statMFS"
      BY <1>2, <1>3, <1>4, <1>8, <2>1, <2>2, GotoMove
    <2> QED
      BY <1>1, <1>3, <1>5, <1>8, <2>3 DEF Stepped, Moves
  <1> QED
    BY <1>6, <1>7, <1>8 DEF fetchContentToPath

LEMMA statMFSMove ==
  ASSUME TypeInv, NEW c \in Calls, statMFS(c)
  PROVE  Stepped(c)
  <1>1. /\ h[c].pc = "statMFS" /\ h[c].pc \in FetchSteps
        /\ UNCHANGED <<ipfsVars, nodeVars, kubeletVars>>
    BY DEF statMFS, FetchSteps
  <1>2. /\ h[c].pc # "idle" /\ h[c].node \in Nodes /\ h[c] \in Handlers
        /\ h[c].op = "Stage" \/ (h[c].op = "Publish" /\ ~Staging)
    BY <1>1, FetchingCall, HandlerFacts
  <1>3. UNCHANGED kubeletVars /\ UNCHANGED <<mfs, dir>>
    BY <1>1 DEF ipfsVars, nodeVars
  <1>4. Effects
    <2>1. /\ IpfsTypeOK' /\ mounted' \in [Nodes -> SUBSET (1..MaxPods)]
          /\ dir' \in [Nodes -> CIDs \cup {None}]
      BY <1>1, HandlerFacts DEF IpfsTypeOK, ipfsVars, nodeVars
    <2>2. faults' \in 0..MaxFaults
      BY FaultsType DEF statMFS
    <2> QED
      BY <2>1, <2>2 DEF Effects
  <1>5. CASE Return(c, "Internal")
    BY <1>1, <1>2, <1>3, <1>4, <1>5, ReturnMove DEF Stepped, Moves, Failed
  <1>6. CASE /\ mfs[Path] # None
             /\ Goto(c, "GetCIDContent", [h[c] EXCEPT !.cid = mfs[Path]])
    <2> DEFINE r == [h[c] EXCEPT !.cid = mfs[Path]]
    <2>1. mfs[Path] \in CIDs
      BY <1>1, <1>6, HandlerFacts DEF HandlerOK
    <2>2. /\ r \in Handlers /\ r.op = h[c].op /\ r.node = h[c].node
          /\ r.pod = h[c].pod /\ r.gone = h[c].gone /\ r.cid = mfs[Path]
      BY <1>2, <2>1 DEF Handlers
    <2>3. Goto(c, "GetCIDContent", r)
      BY <1>6
    <2>4. /\ "GetCIDContent" \notin {"statMFS"} \cup ImportSteps
          /\ "GetCIDContent" \in FetchSteps /\ "GetCIDContent" \in Steps
      BY DEF ImportSteps, FetchSteps, Steps
    <2> HIDE DEF r
    <2>5. /\ Moved(c) /\ HandlerOK(h'[c])
          /\ h'[c].pc = "GetCIDContent" /\ h'[c].cid = mfs[Path]
      BY <1>2, <1>3, <2>1, <2>2, <2>3, <2>4, GotoMove
    <2> QED
      BY <1>1, <1>3, <1>4, <1>6, <2>5 DEF Stepped, Moves
  <1> QED
    BY <1>5, <1>6 DEF statMFS

LEMMA GetCIDContentMove ==
  ASSUME TypeInv, NEW c \in Calls, GetCIDContent(c)
  PROVE  Stepped(c)
  <1> DEFINE nd == h[c].node
  <1>1. /\ h[c].pc = "GetCIDContent" /\ h[c].pc \in FetchSteps
        /\ UNCHANGED <<ipfsVars, mounted, kubeletVars>>
    BY DEF GetCIDContent, FetchSteps
  <1>2. h[c].pc # "idle" /\ nd \in Nodes /\ h[c].cid \in CIDs
    BY <1>1, FetchingCall, HandlerFacts DEF HandlerOK
  <1>3. UNCHANGED kubeletVars /\ mfs' = mfs
    BY <1>1 DEF ipfsVars
  <1>4. ASSUME dir' \in [Nodes -> CIDs \cup {None}]
        PROVE  Effects
    <2>1. IpfsTypeOK' /\ mounted' \in [Nodes -> SUBSET (1..MaxPods)]
      BY <1>1, HandlerFacts DEF IpfsTypeOK, ipfsVars
    <2>2. faults' \in 0..MaxFaults
      BY FaultsType DEF GetCIDContent
    <2> QED
      BY <1>4, <2>1, <2>2 DEF Effects
  <1>5. ASSUME NEW part \in SUBSET h[c].cid, dir[nd] # None,
               dir' = [dir EXCEPT ![nd] = @ \cup part]
        PROVE  /\ dir' \in [Nodes -> CIDs \cup {None}]
               /\ dir' = [dir EXCEPT ![nd] = dir[nd] \cup part]
    <2>1. dir[nd] \in CIDs /\ part \subseteq Files
      BY <1>2, <1>5, HandlerFacts, CIDsAreDirs
    <2>2. dir[nd] \cup part \in CIDs
      BY <2>1, CIDsAreDirs
    <2> QED
      BY <1>2, <1>5, <2>2, HandlerFacts
  <1>6. CASE /\ dir[nd] # None /\ Fetched(c)
             /\ dir' = [dir EXCEPT ![nd] = @ \cup h[c].cid]
    <2>1. Effects /\ dir' = [dir EXCEPT ![nd] = dir[nd] \cup h[c].cid]
      BY <1>4, <1>5, <1>6
    <2>2. Moved(c) /\ HandlerOK(h'[c]) /\ FetchedTo(c)
      BY <1>1, <1>3, <1>6, FetchedMove
    <2> QED
      BY <1>1, <1>3, <1>6, <2>1, <2>2 DEF Stepped, Moves
  <1>7. CASE /\ dir[nd] # None /\ Return(c, "Internal")
             /\ \E part \in SUBSET h[c].cid : dir' = [dir EXCEPT ![nd] = @ \cup part]
    <2>1. /\ Effects
          /\ \E part \in SUBSET h[c].cid : dir' = [dir EXCEPT ![nd] = dir[nd] \cup part]
      BY <1>4, <1>5, <1>7
    <2>2. Moved(c) /\ HandlerOK(h'[c]) /\ Failed(c)
      BY <1>2, <1>3, <1>7, ReturnMove DEF Failed
    <2> QED
      BY <1>1, <1>3, <1>7, <2>1, <2>2 DEF Stepped, Moves
  <1>8. CASE dir' = dir /\ Return(c, "Internal")
    <2>1. Effects
      BY <1>4, <1>8, HandlerFacts
    <2>2. Moved(c) /\ HandlerOK(h'[c]) /\ Failed(c)
      BY <1>2, <1>3, <1>8, ReturnMove DEF Failed
    <2> QED
      BY <1>1, <1>3, <1>8, <2>1, <2>2 DEF Stepped, Moves
  <1>9. CASE /\ dir' = dir /\ dir[nd] = None /\ h[c].cid = EmptyDir
             /\ Fetched(c)
    <2>1. Effects
      BY <1>4, <1>9, HandlerFacts
    <2>2. Moved(c) /\ HandlerOK(h'[c]) /\ FetchedTo(c)
      BY <1>1, <1>3, <1>9, FetchedMove
    <2> QED
      BY <1>1, <1>3, <1>9, <2>1, <2>2 DEF Stepped, Moves
  <1>10. CASE dir[nd] = None
    <2>1. dir' = dir
      BY <1>2, <1>10, HandlerFacts DEF GetCIDContent, Written
    <2>2. (Fetched(c) /\ h[c].cid = EmptyDir) \/ Return(c, "Internal")
      BY <1>10 DEF GetCIDContent, EmptyDir
    <2> QED
      BY <1>8, <1>9, <1>10, <2>1, <2>2
  <1>11. CASE dir[nd] # None
    BY <1>6, <1>7, <1>11 DEF GetCIDContent, Written
  <1> QED
    BY <1>10, <1>11

\* Mounting and unmounting change the mounts of the node and nothing else.
LEMMA MountsMove ==
  ASSUME TypeInv, NEW c \in Calls, Mount(c) \/ Unmount(c)
  PROVE  Stepped(c)
  <1>1. /\ h[c].pc \in {"Mount", "Unmount"} /\ h[c].pc # "idle"
        /\ UNCHANGED <<ipfsVars, dir, kubeletVars>>
        /\ Return(c, "OK") \/ Return(c, "Internal")
    BY DEF Mount, Unmount
  <1>2. UNCHANGED kubeletVars /\ UNCHANGED <<mfs, dir>>
    BY <1>1 DEF ipfsVars
  <1>3. /\ Moved(c) /\ HandlerOK(h'[c]) /\ h[c].node \in Nodes
        /\ Failed(c) \/ Passed(c)
    BY <1>1, <1>2, ReturnMove, HandlerFacts DEF Failed, Passed, HandlerOK
  <1>4. mounted' \in [Nodes -> SUBSET (1..MaxPods)]
    <2>1. h[c].pc = "Mount" => h[c].pod \in 1..MaxPods
      BY HandlerFacts, NodeAssumption
         DEF HandlerOK, Handlers, FetchSteps, ImportSteps
    <2> QED
      BY <1>1, <1>3, <2>1, HandlerFacts DEF Mount, Unmount
  <1>5. faults' \in 0..MaxFaults
    BY FaultsType DEF Mount, Unmount
  <1>6. IpfsTypeOK' /\ dir' \in [Nodes -> CIDs \cup {None}]
    BY <1>1, HandlerFacts DEF IpfsTypeOK, ipfsVars
  <1> QED
    BY <1>1, <1>2, <1>3, <1>4, <1>5, <1>6 DEF Stepped, Moves, Effects

\* The steps of unstaging belong to it.
LEMMA UnstagingCall ==
  ASSUME TypeInv, NEW c \in Calls,
         h[c].pc \in {"GetVolumeAttributes", "CleanupMountPoint"} \cup ImportSteps
  PROVE  h[c].pc # "idle" /\ h[c].node \in Nodes /\ h[c].op = "Unstage"
  BY HandlerFacts DEF HandlerOK, FetchSteps, ImportSteps

LEMMA GetVolumeAttributesMove ==
  ASSUME TypeInv, NEW c \in Calls, us_GetVolumeAttributes(c)
  PROVE  Stepped(c)
  <1>1. /\ h[c].pc = "GetVolumeAttributes"
        /\ UNCHANGED <<ipfsVars, nodeVars, kubeletVars>>
    BY DEF us_GetVolumeAttributes, SkipImport
  <1>2. h[c].pc # "idle" /\ h[c].op = "Unstage" /\ h[c] \in Handlers
    BY <1>1, UnstagingCall, HandlerFacts
  <1>3. UNCHANGED kubeletVars /\ UNCHANGED <<mfs, dir>>
    BY <1>1 DEF ipfsVars, nodeVars
  <1>4. Effects
    <2>1. /\ IpfsTypeOK' /\ mounted' \in [Nodes -> SUBSET (1..MaxPods)]
          /\ dir' \in [Nodes -> CIDs \cup {None}]
      BY <1>1, HandlerFacts DEF IpfsTypeOK, ipfsVars, nodeVars
    <2>2. faults' \in 0..MaxFaults
      BY FaultsType DEF us_GetVolumeAttributes
    <2> QED
      BY <2>1, <2>2 DEF Effects
  <1>5. CASE /\ Goto(c, "CleanupMountPoint", h[c])
             /\ volume.readonly \/ Path = None \/ "stale_pv" \in Allow
    <2>1. /\ "CleanupMountPoint" \in Steps
          /\ "CleanupMountPoint" \notin {"statMFS"} \cup ImportSteps
      BY DEF Steps, ImportSteps
    <2>2. Moved(c) /\ HandlerOK(h'[c]) /\ h'[c].pc = "CleanupMountPoint"
      BY <1>2, <1>3, <1>5, <2>1, GotoMove
    <2> QED
      BY <1>1, <1>3, <1>4, <1>5, <2>2 DEF Stepped, Moves
  <1>6. CASE Goto(c, "RmMFS", h[c]) /\ ~volume.readonly /\ Path # None
    <2>1. "RmMFS" \in Steps /\ "RmMFS" \in ImportSteps /\ Path \in Paths
      BY <1>6, HandlerFacts DEF Steps, ImportSteps
    <2>2. Moved(c) /\ HandlerOK(h'[c]) /\ h'[c].pc = "RmMFS"
      BY <1>2, <1>3, <1>6, <2>1, GotoMove
    <2> QED
      BY <1>1, <1>3, <1>4, <1>6, <2>2 DEF Stepped, Moves
  <1> QED
    BY <1>5, <1>6 DEF us_GetVolumeAttributes, SkipImport, LocalFailure

\* What the steps of ImportToMFS share.
LEMMA ImportFacts ==
  ASSUME TypeInv, NEW c \in Calls, h[c].pc \in ImportSteps
  PROVE  /\ h[c].pc # "idle" /\ h[c].op = "Unstage" /\ h[c].node \in Nodes
         /\ h[c] \in Handlers /\ Path \in Paths /\ IpfsTypeOK
         /\ \A pc \in ImportSteps : pc \in Steps /\ pc # "GetCIDContent"
  BY UnstagingCall, HandlerFacts DEF HandlerOK, ImportSteps, Steps

LEMMA ImportEffects ==
  ASSUME TypeInv, IpfsTypeOK', UNCHANGED nodeVars, faults' \in 0..MaxFaults
  PROVE  Effects
  BY DEF TypeInv, TypeOK, Effects, nodeVars

LEMMA ImportMove ==
  ASSUME TypeInv, NEW c \in Calls, us_RmMFS(c) \/ us_MkdirMFS(c) \/ us_OpenRoot(c)
  PROVE  Stepped(c)
  <1>1. h[c].pc \in ImportSteps /\ UNCHANGED kubeletVars /\ UNCHANGED nodeVars
    BY DEF us_RmMFS, us_MkdirMFS, us_OpenRoot, ImportSteps
  <1>2. dir' = dir
    BY <1>1 DEF nodeVars
  <1>3. faults' \in 0..MaxFaults
    BY FaultsType DEF us_RmMFS, us_MkdirMFS, us_OpenRoot
  <1>4. ASSUME NEW pc \in ImportSteps \cup {"CleanupMountPoint"}, Goto(c, pc, h[c])
        PROVE  Moved(c) /\ HandlerOK(h'[c]) /\ h'[c].pc = pc
    <2>1. pc \in Steps /\ pc # "GetCIDContent"
      BY DEF ImportSteps, Steps
    <2> QED
      BY <1>1, <1>4, <2>1, ImportFacts, GotoMove
  <1>5. CASE us_RmMFS(c)
    <2>1. IpfsTypeOK'
      BY <1>1, <1>5, ImportFacts, MfsType DEF us_RmMFS
    <2>2. \E o : /\ RmMFS(Path, o)
                 /\ o = "err" => h[c].gone # "no" \/ "rm_error" \in Allow
      BY <1>5 DEF us_RmMFS, Outcome
    <2>3. Moved(c) /\ HandlerOK(h'[c]) /\ h'[c].pc = "MkdirMFS" /\ h[c].pc = "RmMFS"
      BY <1>4, <1>5 DEF us_RmMFS, ImportSteps
    <2> QED
      BY <1>1, <1>2, <1>3, <2>1, <2>2, <2>3, ImportEffects DEF Stepped, Moves
  <1>6. CASE us_MkdirMFS(c)
    <2>1. IpfsTypeOK' /\ h[c].pc = "MkdirMFS"
      BY <1>1, <1>6, ImportFacts, MfsType DEF us_MkdirMFS
    <2>2. /\ Moved(c) /\ HandlerOK(h'[c])
          /\ \/ h'[c].pc = "OpenRoot" /\ MkdirMFS(Path, "ok")
             \/ Failed(c) /\ \E o : MkdirMFS(Path, o)
      BY <1>1, <1>4, <1>6, ImportFacts, ReturnMove DEF us_MkdirMFS, Failed, ImportSteps
    <2> QED
      BY <1>1, <1>2, <1>3, <2>1, <2>2, ImportEffects DEF Stepped, Moves
  <1>7. CASE us_OpenRoot(c)
    <2>1. IpfsTypeOK' /\ mfs' = mfs /\ h[c].pc = "OpenRoot"
      BY <1>1, <1>7, ImportFacts DEF us_OpenRoot, ipfsVars, IpfsTypeOK
    <2>2. CASE Return(c, "Internal")
      BY <1>1, <1>2, <1>3, <2>1, <2>2, ImportFacts, ReturnMove, ImportEffects
         DEF Stepped, Moves, Failed
    <2>3. CASE /\ dir[h[c].node] # None
               /\ Goto(c, "cpMFS", [h[c] EXCEPT !.todo = dir[h[c].node]])
      <3> DEFINE r == [h[c] EXCEPT !.todo = dir[h[c].node]]
      <3>1. dir[h[c].node] \in CIDs
        BY <1>1, <2>3, ImportFacts, HandlerFacts
      <3>2. /\ r \in Handlers /\ r.op = h[c].op /\ r.node = h[c].node
            /\ r.pod = h[c].pod /\ r.gone = h[c].gone /\ r.todo = dir[h[c].node]
        BY <1>1, <3>1, ImportFacts, CIDsAreDirs DEF Handlers
      <3>3. Goto(c, "cpMFS", r)
        BY <2>3
      <3>4. "cpMFS" \in ImportSteps /\ "cpMFS" \in Steps
        BY DEF ImportSteps, Steps
      <3> HIDE DEF r
      <3>5. /\ Moved(c) /\ HandlerOK(h'[c])
            /\ h'[c].pc = "cpMFS" /\ h'[c].todo = dir[h[c].node]
        BY <1>1, <3>2, <3>3, <3>4, ImportFacts, GotoMove
      <3> QED
        BY <1>1, <1>2, <1>3, <2>1, <2>3, <3>5, ImportEffects DEF Stepped, Moves
    <2> QED
      BY <1>7, <2>2, <2>3 DEF us_OpenRoot
  <1> QED
    BY <1>5, <1>6, <1>7

LEMMA CopyMove ==
  ASSUME TypeInv, NEW c \in Calls, us_cpMFS(c)
  PROVE  Stepped(c)
  <1>1. /\ h[c].pc = "cpMFS" /\ h[c].pc \in ImportSteps /\ UNCHANGED kubeletVars
        /\ UNCHANGED nodeVars /\ pinned' = pinned
    BY DEF us_cpMFS, ImportSteps
  <1>2. dir' = dir
    BY <1>1 DEF nodeVars
  <1>3. faults' \in 0..MaxFaults
    BY FaultsType DEF us_cpMFS
  <1>4. h[c].todo \subseteq Files
    BY <1>1, ImportFacts DEF Handlers
  <1>5. CASE h[c].todo = {} /\ Goto(c, "CleanupMountPoint", h[c]) /\ mfs' = mfs
    <2>1. /\ "CleanupMountPoint" \in Steps /\ "CleanupMountPoint" # "GetCIDContent"
          /\ "CleanupMountPoint" \notin {"statMFS"} \cup ImportSteps
      BY DEF Steps, ImportSteps
    <2>2. Moved(c) /\ HandlerOK(h'[c]) /\ h'[c].pc = "CleanupMountPoint"
      BY <1>1, <1>5, <2>1, ImportFacts, GotoMove
    <2>3. IpfsTypeOK'
      BY <1>1, <1>5, ImportFacts DEF IpfsTypeOK
    <2> QED
      BY <1>1, <1>2, <1>3, <1>5, <2>2, <2>3, ImportEffects DEF Stepped, Moves
  <1>6. CASE Return(c, "Internal") /\ mfs' = mfs
    <2>1. Moved(c) /\ HandlerOK(h'[c]) /\ Failed(c)
      BY <1>1, <1>6, ImportFacts, ReturnMove DEF Failed
    <2>2. IpfsTypeOK'
      BY <1>1, <1>6, ImportFacts DEF IpfsTypeOK
    <2> QED
      BY <1>1, <1>2, <1>3, <1>6, <2>1, <2>2, ImportEffects DEF Stepped, Moves
  <1>7. ASSUME NEW f \in h[c].todo, ~cpRefused(f, Path), NEW o,
               cpMFS(f, Path, o), Return(c, "Internal")
        PROVE  Stepped(c)
    <2>1. Moved(c) /\ HandlerOK(h'[c]) /\ Failed(c)
      BY <1>1, <1>7, ImportFacts, ReturnMove DEF Failed
    <2>2. IpfsTypeOK'
      BY <1>1, <1>4, <1>7, ImportFacts, MfsType
    <2> QED
      BY <1>1, <1>2, <1>3, <1>7, <2>1, <2>2, ImportEffects DEF Stepped, Moves
  <1>8. ASSUME NEW f \in h[c].todo, ~cpRefused(f, Path), cpMFS(f, Path, "ok"),
               Goto(c, "cpMFS", [h[c] EXCEPT !.todo = @ \ {f}])
        PROVE  Stepped(c)
    <2> DEFINE r == [h[c] EXCEPT !.todo = @ \ {f}]
    <2>1. /\ r \in Handlers /\ r.op = h[c].op /\ r.node = h[c].node
          /\ r.pod = h[c].pod /\ r.gone = h[c].gone /\ r.todo = h[c].todo \ {f}
      BY <1>1, ImportFacts DEF Handlers
    <2>2. Goto(c, "cpMFS", r)
      BY <1>8
    <2> HIDE DEF r
    <2>3. /\ Moved(c) /\ HandlerOK(h'[c])
          /\ h'[c].pc = "cpMFS" /\ h'[c].todo = h[c].todo \ {f}
      BY <1>1, <2>1, <2>2, ImportFacts, GotoMove
    <2>4. IpfsTypeOK'
      BY <1>1, <1>4, <1>8, ImportFacts, MfsType
    <2> QED
      BY <1>1, <1>2, <1>3, <1>8, <2>3, <2>4, ImportEffects DEF Stepped, Moves
  <1> QED
    BY <1>5, <1>6, <1>7, <1>8 DEF us_cpMFS

LEMMA CleanupMove ==
  ASSUME TypeInv, NEW c \in Calls, CleanupMountPoint(c)
  PROVE  Stepped(c)
  <1>1. /\ h[c].pc = "CleanupMountPoint" /\ UNCHANGED kubeletVars /\ mfs' = mfs
        /\ UNCHANGED <<ipfsVars, mounted, faults>> /\ Return(c, "OK")
        /\ dir' = [dir EXCEPT ![h[c].node] = IF @ = EmptyDir THEN None ELSE @]
    BY DEF CleanupMountPoint, ipfsVars
  <1>2. Moved(c) /\ HandlerOK(h'[c]) /\ Passed(c) /\ h[c].node \in Nodes
    BY <1>1, UnstagingCall, ReturnMove DEF Passed
  <1>3. /\ dir' = [dir EXCEPT ![h[c].node] =
                     IF dir[h[c].node] = EmptyDir THEN None ELSE dir[h[c].node]]
        /\ dir' \in [Nodes -> CIDs \cup {None}]
    BY <1>1, <1>2, HandlerFacts
  <1>4. Effects
    BY <1>1, <1>3, HandlerFacts DEF Effects, IpfsTypeOK, ipfsVars
  <1> QED
    BY <1>1, <1>2, <1>3, <1>4 DEF Stepped, Moves

\* Every step of a handler is one of these.
LEMMA StepMoves ==
  ASSUME TypeInv, NEW c \in Calls, HandlerStep(c)
  PROVE  Stepped(c)
  BY fetchContentToPathMove, statMFSMove, GetCIDContentMove, MountsMove,
     GetVolumeAttributesMove, ImportMove, CopyMove, CleanupMove DEF HandlerStep

-----------------------------------------------------------------------------
(***************************************************************************)
(* TypeInv is inductive.                                                   *)
(***************************************************************************)
LEMMA IdleOK == Idle \in Handlers /\ HandlerOK(Idle) /\ Idle.pc = "idle"
  <1>1. Idle \in Handlers
    BY NodeAssumption DEF Idle, Handlers
  <1> QED
    BY <1>1 DEF Idle, ImportSteps, HandlerOK

LEMMA UntouchedTyped ==
  ASSUME NodesInit, volume \in VolumeSet, IpfsTypeOK, data \in CIDs
  PROVE  TypeInv
  <1>1. h \in [Calls -> Handlers] /\ \A c \in Calls : HandlerOK(h[c])
    BY IdleOK DEF NodesInit
  <1>2. /\ dir \in [Nodes -> CIDs \cup {None}]
        /\ mounted \in [Nodes -> SUBSET (1..MaxPods)]
        /\ staged \in [Nodes -> Known] /\ published \in [Nodes -> Known]
    BY DEF NodesInit, Known
  <1>3. /\ pod \in [Nodes -> BOOLEAN] /\ running \in [Nodes -> BOOLEAN]
        /\ \A nd \in Nodes : ~pod[nd]
    BY DEF NodesInit
  <1>4. faults \in 0..MaxFaults /\ writes \in 0..MaxWrites /\ pods \in 0..MaxPods
    BY NodeAssumption DEF NodesInit
  <1> QED
    BY <1>1, <1>2, <1>3, <1>4 DEF TypeInv, TypeOK

LEMMA NodeTypedInit == Init => TypeInv
  <1> SUFFICES ASSUME Init PROVE TypeInv
    OBVIOUS
  <1>1. volume \in VolumeSet /\ volume \in VolumeAttributes
    BY NodeAssumption DEF Init
  <1>2. IpfsTypeOK
    BY NodeAssumption, CIDsAreDirs DEF Init, IpfsTypeOK, EmptyDir
  <1>3. data \in CIDs
    BY <1>1, NodeAssumption DEF Init, VolumeAttributes
  <1> QED
    BY <1>1, <1>2, <1>3, UntouchedTyped DEF Init

\* Replacing one handler by another that is well formed.
LEMMA SlotKept ==
  ASSUME TypeInv, NEW c \in Calls, NEW x, HandlerOK(x), h' = [h EXCEPT ![c] = x],
         volume' = volume
  PROVE  h' \in [Calls -> Handlers] /\ \A d \in Calls : HandlerOK(h[d])'
  <1>1. h \in [Calls -> Handlers] /\ \A d \in Calls : HandlerOK(h[d])
    BY DEF TypeInv, TypeOK
  <1>2. h' \in [Calls -> Handlers]
    BY <1>1 DEF HandlerOK
  <1>3. ASSUME NEW d \in Calls PROVE HandlerOK(h'[d])
    BY <1>1, <1>3
  <1> QED
    BY <1>2, <1>3 DEF HandlerOK, Path

\* What the kubelet knows keeps its type.
LEMMA KnownKept ==
  ASSUME NEW know \in [Nodes -> Known], NEW nd \in Nodes, NEW v \in Known
  PROVE  /\ [know EXCEPT ![nd] = v] \in [Nodes -> Known]
         /\ Doubt(know, nd) \in [Nodes -> Known]
  BY DEF Known, Doubt

\* A call begins with a handler of its own.
LEMMA RequestTyped ==
  ASSUME TypeInv, NEW c \in Calls, NEW nd \in Nodes, NEW op \in Ops, NEW pc \in Steps,
         Request(c, op, nd, pc), volume' = volume,
         \/ op = "Stage" /\ pc = "fetchContentToPath"
         \/ /\ op = "Publish" /\ pods # 0
            /\ pc = "Mount" \/ (~Staging /\ pc = "fetchContentToPath")
         \/ op = "Unpublish" /\ pc = "Unmount"
         \/ op = "Unstage" /\ pc = "GetVolumeAttributes"
  PROVE  /\ h' \in [Calls -> Handlers] /\ \A d \in Calls : HandlerOK(h[d])'
         /\ h' = [h EXCEPT ![c] = h'[c]]
         /\ h'[c].pc = pc /\ h'[c].op = op /\ h'[c].node = nd /\ h'[c].gone = "no"
         /\ h[c].pc = "idle"
  <1> DEFINE x == [Idle EXCEPT !.pc = pc, !.op = op, !.node = nd, !.pod = pods]
  <1>1. /\ x.pc = pc /\ x.op = op /\ x.node = nd /\ x.pod = pods /\ x.gone = "no"
        /\ x \in Handlers
    <2>1. pods \in 0..MaxPods
      BY DEF TypeInv, TypeOK
    <2> QED
      BY <2>1 DEF Idle, Handlers
  <1>2. h' = [h EXCEPT ![c] = x] /\ h[c].pc = "idle" /\ h \in [Calls -> Handlers]
    BY DEF Request, TypeInv, TypeOK
  <1> HIDE DEF x
  <1>3. HandlerOK(x)
    BY <1>1 DEF HandlerOK, FetchSteps, ImportSteps
  <1>4. h' \in [Calls -> Handlers] /\ \A d \in Calls : HandlerOK(h[d])'
    BY <1>2, <1>3, SlotKept
  <1>5. h'[c] = x
    BY <1>2
  <1> QED
    BY <1>1, <1>2, <1>4, <1>5

\* The calls of the kubelet.
LEMMA KubeletCallTyped ==
  ASSUME TypeInv, NEW nd \in Nodes, KubeletCall(nd)
  PROVE  TypeInv'
  <1> PICK c \in Calls : \/ NodeStageVolume(c, nd) \/ NodePublishVolume(c, nd)
                         \/ NodeUnpublishVolume(c, nd) \/ NodeUnstageVolume(c, nd)
    BY DEF KubeletCall
  <1>1. /\ UNCHANGED <<ipfsVars, mounted, faults, volume, pod, running, published>>
        /\ UNCHANGED <<data, writes, pods>>
    BY DEF NodeStageVolume, NodePublishVolume, NodeUnpublishVolume,
           NodeUnstageVolume, kubeletVars, nodeVars
  <1>2. dir' \in [Nodes -> CIDs \cup {None}]
    <2>1. dir \in [Nodes -> CIDs \cup {None}] /\ EmptyDir \in CIDs
      BY CIDsAreDirs DEF TypeInv, TypeOK, EmptyDir
    <2> QED
      BY <2>1 DEF NodeStageVolume, NodePublishVolume, NodeUnpublishVolume,
                  NodeUnstageVolume, nodeVars
  <1>3. staged' \in [Nodes -> Known]
    <2>1. staged \in [Nodes -> Known]
      BY DEF TypeInv, TypeOK
    <2> QED
      BY <2>1 DEF NodeStageVolume, NodePublishVolume, NodeUnpublishVolume,
                  NodeUnstageVolume, kubeletVars, Known
  <1>4. h' \in [Calls -> Handlers] /\ \A d \in Calls : HandlerOK(h[d])'
    <2>1. volume' = volume
      BY <1>1
    <2>2. /\ \A op \in {"Stage", "Publish", "Unpublish", "Unstage"} : op \in Ops
          /\ \A pc \in {"fetchContentToPath", "Mount", "Unmount",
                        "GetVolumeAttributes"} : pc \in Steps
      BY DEF Ops, Steps, FetchSteps
    <2>3. CASE NodeStageVolume(c, nd)
      BY <2>1, <2>2, <2>3, RequestTyped DEF NodeStageVolume
    <2>4. CASE NodePublishVolume(c, nd)
      <3>1. pods # 0
        BY <2>4 DEF NodePublishVolume, TypeInv
      <3> QED
        BY <2>1, <2>2, <2>4, <3>1, RequestTyped DEF NodePublishVolume
    <2>5. CASE NodeUnpublishVolume(c, nd)
      BY <2>1, <2>2, <2>5, RequestTyped DEF NodeUnpublishVolume
    <2>6. CASE NodeUnstageVolume(c, nd)
      BY <2>1, <2>2, <2>6, RequestTyped DEF NodeUnstageVolume
    <2> QED
      BY <2>3, <2>4, <2>5, <2>6
  <1> QED
    BY <1>1, <1>2, <1>3, <1>4 DEF TypeInv, TypeOK, IpfsTypeOK, ipfsVars

\* A handler at work, answering, or given up.
LEMMA CallTyped ==
  ASSUME TypeInv, NEW c \in Calls, HandlerStep(c) \/ Reply(c) \/ GiveUp(c)
  PROVE  TypeInv'
  <1>1. CASE HandlerStep(c)
    <2>1. Stepped(c)
      BY <1>1, StepMoves
    <2>2. Effects /\ UNCHANGED kubeletVars /\ HandlerOK(h'[c])
      BY <2>1 DEF Stepped, Moved
    <2>3. h' \in [Calls -> Handlers] /\ \A d \in Calls : HandlerOK(h[d])'
      BY <2>1, <2>2, SlotKept DEF Stepped, Moved, kubeletVars
    <2> QED
      BY <2>2, <2>3 DEF TypeInv, TypeOK, Effects, kubeletVars
  <1>2. CASE Reply(c)
    <2> DEFINE nd == h[c].node
    <2>1. h[c].pc = "done" /\ h' = [h EXCEPT ![c] = Idle]
      BY <1>2 DEF Reply
    <2>2. UNCHANGED <<ipfsVars, nodeVars, volume, pod, data, writes, pods, faults>>
      BY <1>2 DEF Reply
    <2>3. nd \in Nodes
      BY <2>1, HandlerFacts DEF HandlerOK
    <2>4. h' \in [Calls -> Handlers] /\ \A d \in Calls : HandlerOK(h[d])'
      BY <2>1, <2>2, IdleOK, SlotKept
    <2>5. staged' \in [Nodes -> Known] /\ published' \in [Nodes -> Known]
      <3>1. staged \in [Nodes -> Known] /\ published \in [Nodes -> Known]
        BY DEF TypeInv, TypeOK
      <3>2. "yes" \in Known /\ "no" \in Known
        BY DEF Known
      <3> QED
        BY <1>2, <2>3, <3>1, <3>2 DEF Reply
    <2>6. running' \in [Nodes -> BOOLEAN]
      <3>1. running \in [Nodes -> BOOLEAN]
        BY DEF TypeInv, TypeOK
      <3>2. running' = [running EXCEPT ![nd] = TRUE] \/ running' = running
        BY <1>2 DEF Reply
      <3> QED
        BY <2>3, <3>1, <3>2
    <2> QED
      BY <2>2, <2>4, <2>5, <2>6 DEF TypeInv, TypeOK, IpfsTypeOK, ipfsVars, nodeVars
  <1>3. CASE GiveUp(c)
    <2>1. /\ h[c].pc # "idle" /\ h' = [h EXCEPT ![c].gone = "now"]
          /\ UNCHANGED <<ipfsVars, nodeVars, volume, pod, running, data, writes, pods>>
      BY <1>3 DEF GiveUp
    <2>2. h[c].node \in Nodes
      BY <2>1, HandlerFacts DEF HandlerOK
    <2>3. h' \in [Calls -> Handlers] /\ \A d \in Calls : HandlerOK(h[d])'
      <3> DEFINE r == h[c]
                 x == [r EXCEPT !.gone = "now"]
      <3>1. r \in Handlers /\ HandlerOK(r) /\ r.pc # "idle"
        BY <2>1, HandlerFacts
      <3>2. h' = [h EXCEPT ![c] = x]
        BY <2>1
      <3> HIDE DEF r
      <3>3. /\ x \in Handlers /\ x.pc = r.pc /\ x.op = r.op /\ x.node = r.node
            /\ x.cid = r.cid /\ x.pod = r.pod
        BY <3>1 DEF Handlers
      <3> HIDE DEF x
      <3>4. HandlerOK(x)
        BY <3>1, <3>3 DEF HandlerOK
      <3> QED
        BY <2>1, <3>2, <3>4, SlotKept
    <2>4. staged' \in [Nodes -> Known] /\ published' \in [Nodes -> Known]
      BY <1>3, <2>2, KnownKept DEF GiveUp, TypeInv, TypeOK
    <2>5. faults' \in 0..MaxFaults
      BY <1>3, FaultsType DEF GiveUp
    <2> QED
      BY <2>1, <2>3, <2>4, <2>5 DEF TypeInv, TypeOK, IpfsTypeOK, ipfsVars, nodeVars
  <1> QED
    BY <1>1, <1>2, <1>3

\* Restarts.
LEMMA RestartTyped ==
  ASSUME TypeInv, NEW nd \in Nodes, PluginRestart(nd) \/ KubeletRestart(nd)
  PROVE  TypeInv'
  <1>1. UNCHANGED <<ipfsVars, nodeVars, volume, pod, running, data, writes, pods>>
    BY DEF PluginRestart, KubeletRestart
  <1>2. faults' \in 0..MaxFaults
    BY FaultsType DEF PluginRestart, KubeletRestart
  <1>3. staged' \in [Nodes -> Known] /\ published' \in [Nodes -> Known]
    <2>1. staged \in [Nodes -> Known] /\ published \in [Nodes -> Known]
      BY DEF TypeInv, TypeOK
    <2>2. /\ staged' = Doubt(staged, nd) \/ staged' = staged
          /\ published' = Doubt(published, nd) \/ published' = published
      BY DEF PluginRestart, KubeletRestart
    <2> QED
      BY <2>1, <2>2, KnownKept
  <1>4. h' \in [Calls -> Handlers] /\ \A d \in Calls : HandlerOK(h[d])'
    <2>1. h \in [Calls -> Handlers] /\ \A d \in Calls : HandlerOK(h[d])
      BY DEF TypeInv, TypeOK
    <2>2. \/ h' = h
          \/ h' = [c \in Calls |-> IF h[c].node = nd THEN Idle ELSE h[c]]
      BY DEF PluginRestart, KubeletRestart
    <2>3. h' \in [Calls -> Handlers]
      BY <2>1, <2>2, IdleOK
    <2>4. ASSUME NEW d \in Calls PROVE HandlerOK(h'[d])
      BY <2>1, <2>2, IdleOK
    <2> QED
      BY <1>1, <2>3, <2>4 DEF HandlerOK, Path
  <1> QED
    BY <1>1, <1>2, <1>3, <1>4 DEF TypeInv, TypeOK, IpfsTypeOK, ipfsVars, nodeVars

\* Pods come, write and go.
LEMMA PodTyped ==
  ASSUME TypeInv, NEW nd \in Nodes, PodStart(nd) \/ PodStop(nd) \/ PodWrite(nd)
  PROVE  TypeInv'
  <1>1. UNCHANGED <<ipfsVars, mounted, h, volume, staged, published, faults>>
    BY DEF PodStart, PodStop, PodWrite, nodeVars
  <1>2. h' \in [Calls -> Handlers] /\ \A d \in Calls : HandlerOK(h[d])'
    BY <1>1 DEF TypeInv, TypeOK, HandlerOK, Path
  <1>3. /\ pod \in [Nodes -> BOOLEAN] /\ running \in [Nodes -> BOOLEAN]
        /\ pods \in 0..MaxPods /\ writes \in 0..MaxWrites /\ data \in CIDs
        /\ dir \in [Nodes -> CIDs \cup {None}] /\ MaxPods \in Nat /\ MaxWrites \in Nat
        /\ \A m \in Nodes : pod[m] => pods # 0
    BY NodeAssumption DEF TypeInv, TypeOK
  <1>4. CASE PodStart(nd)
    <2>1. /\ pod' = [pod EXCEPT ![nd] = TRUE] /\ pods' = pods + 1 /\ pods < MaxPods
          /\ UNCHANGED <<dir, running, data, writes>>
      BY <1>4 DEF PodStart, nodeVars
    <2>2. pod' \in [Nodes -> BOOLEAN] /\ pods' \in 0..MaxPods /\ pods' # 0
      BY <1>3, <2>1
    <2> QED
      BY <1>1, <1>2, <2>1, <2>2 DEF TypeInv, TypeOK, IpfsTypeOK, ipfsVars
  <1>5. CASE PodStop(nd)
    <2>1. /\ pod' = [pod EXCEPT ![nd] = FALSE] /\ running' = [running EXCEPT ![nd] = FALSE]
          /\ UNCHANGED <<dir, data, writes, pods>>
      BY <1>5 DEF PodStop, nodeVars
    <2>2. /\ pod' \in [Nodes -> BOOLEAN] /\ running' \in [Nodes -> BOOLEAN]
          /\ \A m \in Nodes : pod'[m] => pod[m]
      BY <1>3, <2>1
    <2> QED
      BY <1>1, <1>2, <1>3, <2>1, <2>2 DEF TypeInv, TypeOK, IpfsTypeOK, ipfsVars
  <1>6. CASE PodWrite(nd)
    <2>1. /\ writes' = writes + 1 /\ writes < MaxWrites /\ data' \in CIDs
          /\ dir' = [dir EXCEPT ![nd] = data'] /\ UNCHANGED <<pod, running, pods>>
      BY <1>6 DEF PodWrite
    <2>2. dir' \in [Nodes -> CIDs \cup {None}] /\ writes' \in 0..MaxWrites
      BY <1>3, <2>1
    <2> QED
      BY <1>1, <1>2, <2>1, <2>2 DEF TypeInv, TypeOK, IpfsTypeOK, ipfsVars
  <1> QED
    BY <1>4, <1>5, <1>6

LEMMA NodeTypedNext == TypeInv /\ [Next]_vars => TypeInv'
  <1> SUFFICES ASSUME TypeInv, [Next]_vars PROVE TypeInv'
    OBVIOUS
  <1>1. CASE UNCHANGED vars
    BY <1>1 DEF vars, ipfsVars, nodeVars, kubeletVars, TypeInv, TypeOK, IpfsTypeOK,
                HandlerOK, Path
  <1>2. CASE Next
    BY <1>2, KubeletCallTyped, CallTyped, RestartTyped, PodTyped DEF Next
  <1> QED
    BY <1>1, <1>2

LEMMA NodeInvariant == Spec => []TypeInv
  BY NodeTypedInit, NodeTypedNext, PTL DEF Spec

(***************************************************************************)
(* NodeTyped: whatever nodes, handlers, failures and restarts there are, a *)
(* directory holds whole files, a target path belongs to a pod there was,  *)
(* and every answer carries a status (node.go:33-245, client.go:445-577).  *)
(***************************************************************************)
THEOREM NodeTyped == Spec => []TypeOK
  BY NodeInvariant, PTL DEF TypeInv

-----------------------------------------------------------------------------
(***************************************************************************)
(* DataInv is inductive where the freedoms cost no data.                   *)
(***************************************************************************)
LEMMA SafeFacts ==
  ASSUME KeepsData, TypeInv
  PROVE  /\ Staging
         /\ volume.readonly
              => /\ volume.cid \in CIDs /\ volume.cid # EmptyDir /\ volume.cid # None
                 /\ "stage_timeout" \notin Allow /\ "kubelet_restart" \notin Allow
                 /\ "rw_mount" \notin Allow
         /\ ~volume.readonly
              => /\ volume.cid = None /\ Path \in Paths
                 /\ Allow \subseteq {"ipfs_error", "mount_error", "publish_timeout"}
  <1>1. volume \in VolumeSet /\ volume \in VolumeAttributes
    BY NodeAssumption DEF TypeInv, TypeOK
  <1>2. volume.cid \in CIDs \cup {None}
    BY <1>1 DEF VolumeAttributes
  <1>3. ~volume.readonly => Path \in Paths
    BY <1>1, NodeAssumption DEF Path
  <1> QED
    BY <1>1, <1>2, <1>3 DEF KeepsData, SafeFor, Allow

\* No node has to do with the volume.
NodesIdle ==
  /\ \A nd \in Nodes : staged[nd] = "no" /\ published[nd] = "no"
  /\ \A nd \in Nodes : ~pod[nd] /\ ~running[nd]
  /\ \A c \in Calls : h[c] = Idle

LEMMA DataAtRest ==
  ASSUME NodesIdle, volume.readonly => data = volume.cid,
         ~volume.readonly => mfs[Path] = data
  PROVE  DataInv
  <1>1. \A c \in Calls : h[c].pc = "idle"
    BY IdleOK DEF NodesIdle
  <1>2. \A nd \in Nodes : ~Active(nd)
    BY NodeAssumption DEF NodesIdle, Active, Calling, Idle
  <1>3. OneCall /\ Exclusive
    BY <1>1, <1>2 DEF OneCall, Live, Exclusive
  <1>4. \A c \in Calls, op \in Ops : ~On(c, op)
    BY <1>1 DEF On
  <1>5. \A c \in Calls : CallOK(c) /\ StageOK(c)
    BY <1>4 DEF CallOK, StageOK, Ops
  <1>6. \A nd \in Nodes : NodeOK(nd)
    BY DEF NodesIdle, NodeOK
  <1>7. ~volume.readonly => WrittenOK
    BY <1>4 DEF NodesIdle, WrittenOK, ImportOK, Ops
  <1> QED
    BY <1>3, <1>5, <1>6, <1>7 DEF DataInv

LEMMA DataInit == ASSUME KeepsData PROVE Init => DataInv
  <1> SUFFICES ASSUME Init PROVE DataInv
    OBVIOUS
  <1>1. TypeInv
    BY NodeTypedInit
  <1>2. NodesIdle
    BY DEF Init, NodesInit, NodesIdle
  <1>3. /\ volume.readonly => data = volume.cid
        /\ ~volume.readonly => mfs[Path] = data
    BY <1>1, SafeFacts DEF Init
  <1> QED
    BY <1>2, <1>3, DataAtRest

\* A node is staged by one call at a time, and by none while it unstages.
LEMMA StagingAlone ==
  ASSUME DataInv, NEW c \in Calls, NEW d \in Calls, On(c, "Stage"), Live(d),
         h[c].node = h[d].node
  PROVE  c = d
  <1>1. Live(c)
    BY DEF DataInv, CallOK, On, Live
  <1> QED
    BY <1>1 DEF DataInv, OneCall

\* A read-write volume has one such call in the whole cluster.
LEMMA WriterAlone ==
  ASSUME KeepsData, TypeInv, DataInv, ~volume.readonly,
         NEW c \in Calls, On(c, "Unstage") \/ On(c, "Stage")
  PROVE  /\ Live(c) /\ h[c].node \in Nodes
         /\ \A m \in Nodes : Active(m) => m = h[c].node
         /\ \A d \in Calls : On(d, "Unstage") \/ On(d, "Stage") => d = c
  <1>1. \A d \in Calls : On(d, "Unstage") \/ On(d, "Stage")
                           => Live(d) /\ h[d].node \in Nodes /\ Active(h[d].node)
    <2> SUFFICES ASSUME NEW d \in Calls, On(d, "Unstage") \/ On(d, "Stage")
                 PROVE  Live(d) /\ h[d].node \in Nodes /\ Active(h[d].node)
      OBVIOUS
    <2>1. h[d].gone = "no" /\ h[d].pc # "idle"
      BY DEF DataInv, CallOK, WrittenOK, ImportOK, On
    <2>2. h[d].node \in Nodes
      BY <2>1, HandlerFacts DEF HandlerOK
    <2> QED
      BY <2>1, <2>2 DEF Live, Active, Calling
  <1>2. "handover" \notin Allow
    BY SafeFacts
  <1>3. \A nd, m \in Nodes : Active(nd) /\ Active(m) => nd = m
    BY <1>2 DEF DataInv, Exclusive
  <1>4. Live(c) /\ h[c].node \in Nodes /\ Active(h[c].node)
    BY <1>1
  <1>5. ASSUME NEW d \in Calls, On(d, "Unstage") \/ On(d, "Stage")
        PROVE  d = c
    <2>1. Live(d) /\ h[d].node = h[c].node
      BY <1>1, <1>3, <1>4, <1>5
    <2> QED
      BY <1>4, <2>1 DEF DataInv, OneCall
  <1> QED
    BY <1>3, <1>4, <1>5

\* A handler's step as the kubelet sees it: nothing begins and nothing ends.
LEMMA StepFrame ==
  ASSUME TypeInv, NEW c \in Calls, Stepped(c)
  PROVE  /\ h[c].pc # "idle" /\ h[c].pc # "done" /\ h'[c].pc # "idle"
         /\ h[c].node \in Nodes
         /\ \A d \in Calls : d # c => h'[d] = h[d]
         /\ \A d \in Calls : /\ h'[d].op = h[d].op /\ h'[d].node = h[d].node
                             /\ h'[d].gone = "no" <=> h[d].gone = "no"
                             /\ h'[d].pc # "idle" <=> h[d].pc # "idle"
         /\ UNCHANGED <<volume, pod, running, staged, published, data>>
  <1>1. h \in [Calls -> Handlers] /\ HandlerOK(h[c])
    BY HandlerFacts
  <1>2. h[c].pc # "idle" /\ h[c].pc # "done" /\ h'[c].pc # "idle"
    BY DEF Stepped, Moves, FetchedTo, Failed, Passed
  <1>3. h[c].node \in Nodes
    BY <1>1, <1>2 DEF HandlerOK
  <1>4. /\ h' = [h EXCEPT ![c] = h'[c]]
        /\ h'[c].op = h[c].op /\ h'[c].node = h[c].node
        /\ h'[c].gone = "no" <=> h[c].gone = "no"
        /\ UNCHANGED <<volume, pod, running, staged, published, data>>
    BY DEF Stepped, Moved, kubeletVars
  <1>5. \A d \in Calls : d # c => h'[d] = h[d]
    BY <1>1, <1>4
  <1> QED
    BY <1>2, <1>3, <1>4, <1>5

LEMMA StepKnown ==
  ASSUME TypeInv, DataInv, NEW c \in Calls, Stepped(c)
  PROVE  /\ OneCall' /\ Exclusive' /\ \A d \in Calls : CallOK(d)'
         /\ \A d \in Calls : Live(d)' <=> Live(d)
         /\ \A d \in Calls, op \in Ops : On(d, op)' <=> On(d, op)
  <1>1. /\ \A d \in Calls : /\ h'[d].op = h[d].op /\ h'[d].node = h[d].node
                            /\ h'[d].gone = "no" <=> h[d].gone = "no"
                            /\ h'[d].pc # "idle" <=> h[d].pc # "idle"
        /\ UNCHANGED <<volume, pod, running, staged, published, data>>
    BY StepFrame
  <1>2. \A d \in Calls : Live(d)' <=> Live(d)
    BY <1>1 DEF Live
  <1>3. \A d \in Calls, op \in Ops : On(d, op)' <=> On(d, op)
    BY <1>1 DEF On
  <1>4. OneCall'
    BY <1>1, <1>2 DEF DataInv, OneCall
  <1>5. \A d \in Calls : CallOK(d)'
    BY <1>1 DEF DataInv, CallOK, On
  <1>6. \A nd \in Nodes : Active(nd)' <=> Active(nd)
    BY <1>1 DEF Active, Calling
  <1>7. Exclusive'
    BY <1>1, <1>6 DEF DataInv, Exclusive, Allow
  <1> QED
    BY <1>2, <1>3, <1>4, <1>5, <1>7

\* The directories of the nodes, and who is at work on them.
LEMMA StepDirs ==
  ASSUME KeepsData, TypeInv, NEW c \in Calls, Stepped(c)
  PROVE  /\ \A m \in Nodes : m # h[c].node => dir'[m] = dir[m]
         /\ \/ On(c, "Stage")
            \/ dir' = dir
            \/ /\ On(c, "Unstage")
               /\ dir[h[c].node] # EmptyDir => dir' = dir
               /\ dir[h[c].node] = EmptyDir => dir'[h[c].node] = None
  <1>1. h[c].pc # "idle" /\ h[c].node \in Nodes /\ HandlerOK(h[c])
        /\ dir \in [Nodes -> CIDs \cup {None}] /\ Staging
    BY StepFrame, HandlerFacts, SafeFacts
  <1>2. h[c].pc \in FetchSteps => On(c, "Stage")
    BY <1>1, FetchingCall DEF On
  <1>3. h[c].pc = "CleanupMountPoint" => On(c, "Unstage")
    BY UnstagingCall DEF On
  <1>4. \/ dir' = dir
        \/ /\ h[c].pc \in FetchSteps
           /\ \A m \in Nodes : m # h[c].node => dir'[m] = dir[m]
        \/ /\ h[c].pc = "CleanupMountPoint"
           /\ dir' = [dir EXCEPT ![h[c].node] =
                        IF dir[h[c].node] = EmptyDir THEN None ELSE dir[h[c].node]]
    BY <1>1 DEF Stepped, Moves, FetchSteps
  <1> QED
    BY <1>1, <1>2, <1>3, <1>4

LEMMA StepNodes ==
  ASSUME KeepsData, TypeInv, DataInv, NEW c \in Calls, Stepped(c)
  PROVE  \A nd \in Nodes : NodeOK(nd)'
  <1> SUFFICES ASSUME NEW nd \in Nodes PROVE NodeOK(nd)'
    OBVIOUS
  <1>1. /\ UNCHANGED <<volume, pod, running, staged, published, data>> /\ NodeOK(nd)
    BY StepFrame DEF DataInv
  <1>2. staged[nd] = "yes" => dir'[nd] = data
    <2> SUFFICES ASSUME staged[nd] = "yes" PROVE dir'[nd] = data
      OBVIOUS
    <2>1. dir[nd] = data
      BY <1>1 DEF NodeOK
    <2>2. CASE nd # h[c].node \/ dir' = dir
      BY <2>1, <2>2, StepDirs
    <2>3. CASE nd = h[c].node /\ On(c, "Stage")
      BY <2>3 DEF DataInv, CallOK
    <2>4. CASE nd = h[c].node /\ ~On(c, "Stage") /\ On(c, "Unstage") /\ dir' # dir
      <3>1. data = EmptyDir
        BY <2>1, <2>4, StepDirs
      <3>2. ~volume.readonly
        BY <3>1, SafeFacts DEF DataInv
      <3>3. staged[nd] = "uncertain"
        BY <2>4, <3>2 DEF DataInv, WrittenOK, ImportOK, CallOK
      <3> QED
        BY <3>3
    <2> QED
      BY <2>2, <2>3, <2>4, StepDirs
  <1> QED
    BY <1>1, <1>2 DEF NodeOK

\* The staging that moves.
LEMMA StagingStep ==
  ASSUME KeepsData, TypeInv, DataInv, NEW c \in Calls, Stepped(c), On(c, "Stage")
  PROVE  StageOK(c)'
  <1> DEFINE nd == h[c].node
  <1>1. /\ h[c].op = "Stage" /\ h[c].pc \in FetchSteps /\ nd \in Nodes
        /\ h'[c].op = "Stage" /\ h'[c].node = nd
        /\ dir \in [Nodes -> CIDs \cup {None}]
        /\ UNCHANGED <<volume, data>>
    BY StepFrame, HandlerFacts DEF On, HandlerOK
  <1>2. StageOK(c) /\ h[c].gone = "no"
    BY DEF DataInv, CallOK
  <1>3. data \in CIDs /\ None \notin CIDs
    BY NoneAssumption DEF TypeInv, TypeOK
  <1>4. CASE h[c].pc = "fetchContentToPath"
    <2>1. \/ /\ volume.cid # None /\ h'[c].pc = "GetCIDContent"
             /\ h'[c].cid = volume.cid /\ dir' = [dir EXCEPT ![nd] = EmptyDir]
          \/ /\ volume.cid = None /\ h'[c].pc = "statMFS"
             /\ dir' = [dir EXCEPT ![nd] = EmptyDir]
      <3>1. ~(volume.cid = None /\ Path = None)
        BY SafeFacts, NoneAssumption, PathAssumption
      <3> QED
        BY <1>4, <3>1 DEF Stepped, Moves
    <2>2. volume.cid # None => volume.cid = data
      BY SafeFacts DEF DataInv
    <2>3. dir'[nd] = EmptyDir
      BY <1>1, <2>1
    <2> QED
      BY <1>1, <2>1, <2>2, <2>3 DEF StageOK, On
  <1>5. CASE h[c].pc = "statMFS"
    <2>1. /\ dir' = dir
          /\ \/ h'[c].pc = "done" /\ h'[c].code = "Internal"
             \/ h'[c].pc = "GetCIDContent" /\ h'[c].cid = mfs[Path]
      BY <1>5 DEF Stepped, Moves, Failed
    <2>2. mfs[Path] = data
      <3>1. ~volume.readonly
        BY <1>2, <1>5, SafeFacts DEF StageOK
      <3>2. staged[nd] = "no" /\ WrittenOK
        BY <3>1 DEF DataInv, WrittenOK
      <3>3. \A m \in Nodes : staged[m] = "no"
        BY <3>1, <3>2, WriterAlone DEF Active
      <3> QED
        BY <3>2, <3>3 DEF WrittenOK
    <2>3. dir[nd] = EmptyDir \/ (dir[nd] = None /\ data # EmptyDir)
      BY <1>2, <1>5 DEF StageOK
    <2> QED
      BY <1>1, <2>1, <2>2, <2>3 DEF StageOK
  <1>6. CASE h[c].pc = "GetCIDContent"
    <2>1. \/ h'[c].pc = "done" /\ h'[c].code = "Internal"
          \/ /\ h'[c].pc = "done" /\ h'[c].code = "OK" /\ dir[nd] # None
             /\ dir' = [dir EXCEPT ![nd] = dir[nd] \cup h[c].cid]
          \/ dir[nd] = None /\ h[c].cid = EmptyDir
      BY <1>1, <1>6 DEF Stepped, Moves, Failed, FetchedTo, Passed
    <2>2. /\ h[c].cid = data
          /\ dir[nd] = EmptyDir \/ (dir[nd] = None /\ data # EmptyDir)
      BY <1>2, <1>6 DEF StageOK
    <2>5. ~(dir[nd] = None /\ h[c].cid = EmptyDir)
      BY <1>3, <2>2
    <2>3. CASE h'[c].pc = "done" /\ h'[c].code = "Internal"
      BY <2>3 DEF StageOK
    <2>4. CASE /\ h'[c].pc = "done" /\ dir[nd] # None
               /\ dir' = [dir EXCEPT ![nd] = dir[nd] \cup h[c].cid]
      <3>1. dir'[nd] = data
        BY <1>1, <2>2, <2>4 DEF EmptyDir
      <3> QED
        BY <1>1, <2>4, <3>1 DEF StageOK
    <2> QED
      BY <2>1, <2>3, <2>4, <2>5
  <1> QED
    BY <1>1, <1>4, <1>5, <1>6 DEF FetchSteps

LEMMA StepStagings ==
  ASSUME KeepsData, TypeInv, DataInv, NEW c \in Calls, Stepped(c)
  PROVE  \A d \in Calls : StageOK(d)'
  <1> SUFFICES ASSUME NEW d \in Calls, On(d, "Stage")' PROVE StageOK(d)'
    BY DEF StageOK
  <1>1. On(d, "Stage")
    BY StepKnown DEF Ops
  <1>2. CASE d = c
    BY <1>1, <1>2, StagingStep
  <1>3. CASE d # c
    <2>1. h'[d] = h[d] /\ UNCHANGED <<volume, data>> /\ StageOK(d)
      BY <1>3, StepFrame DEF DataInv
    <2>2. CASE dir'[h[d].node] = dir[h[d].node]
      BY <1>1, <2>1, <2>2 DEF StageOK
    <2>3. CASE dir'[h[d].node] # dir[h[d].node]
      <3>1. h[d].node \in Nodes
        BY <1>1, HandlerFacts DEF On, HandlerOK
      <3>2. h[d].node = h[c].node
        BY <2>3, <3>1, StepDirs
      <3>3. ~On(c, "Stage")
        <4>1. Live(d)
          BY <1>1 DEF DataInv, CallOK, On, Live
        <4> QED
          BY <1>3, <3>2, <4>1, StagingAlone
      <3>4. On(c, "Unstage") /\ dir[h[d].node] = EmptyDir /\ dir'[h[d].node] = None
        BY <2>3, <3>2, <3>3, StepDirs
      <3>5. volume.readonly
        BY <1>1, <1>3, <3>4, WriterAlone
      <3>6. data # EmptyDir
        BY <3>5, SafeFacts DEF DataInv
      <3> QED
        BY <1>1, <2>1, <3>4, <3>6 DEF StageOK
    <2> QED
      BY <2>2, <2>3
  <1> QED
    BY <1>2, <1>3

\* The import that moves.
LEMMA ImportStep ==
  ASSUME KeepsData, TypeInv, DataInv, ~volume.readonly,
         NEW c \in Calls, Stepped(c), On(c, "Unstage")
  PROVE  ImportOK(c)'
  <1> DEFINE nd == h[c].node
  <1>1. /\ h[c].op = "Unstage" /\ nd \in Nodes /\ h'[c].node = nd
        /\ h[c].pc \in {"GetVolumeAttributes", "CleanupMountPoint"} \cup ImportSteps
        /\ UNCHANGED <<volume, data>> /\ mfs \in [Paths -> CIDs \cup {None}]
    BY StepFrame, HandlerFacts DEF On, HandlerOK
  <1>2. ImportOK(c) /\ h[c].gone = "no" /\ h'[c].gone = "no"
    BY StepFrame DEF DataInv, WrittenOK, ImportOK
  <1>3. /\ Path \in Paths /\ Path # None /\ "stale_pv" \notin Allow
        /\ "rm_error" \notin Allow /\ Path' = Path
    BY <1>1, SafeFacts, NoneAssumption, PathAssumption DEF Path
  <1>4. EmptyDir # None /\ EmptyDir \in CIDs
    BY NoneAssumption, CIDsAreDirs DEF EmptyDir
  <1>5. CASE h[c].pc = "GetVolumeAttributes"
    BY <1>2, <1>3, <1>5 DEF Stepped, Moves, ImportOK
  <1>6. CASE h[c].pc = "RmMFS"
    <2>1. h'[c].pc = "MkdirMFS" /\ mfs'[Path] = None
      BY <1>2, <1>3, <1>6 DEF Stepped, Moves, RmMFS, Removed
    <2>2. mfs'[Path'] = None
      BY <1>1, <1>3, <2>1
    <2> QED
      BY <1>2, <2>1, <2>2 DEF ImportOK
  <1>7. CASE h[c].pc = "MkdirMFS"
    <2>1. \/ h'[c].pc = "done" /\ h'[c].code = "Internal"
          \/ /\ h'[c].pc = "OpenRoot"
             /\ mfs[Path] = None => mfs'[Path] = EmptyDir
      BY <1>3, <1>7 DEF Stepped, Moves, MkdirMFS, Made, Failed
    <2>2. mfs[Path] = None
      BY <1>2, <1>7 DEF ImportOK, On
    <2>3. h'[c].pc = "OpenRoot" => mfs'[Path'] = EmptyDir
      BY <1>1, <1>3, <2>1, <2>2
    <2> QED
      BY <1>2, <2>1, <2>3 DEF ImportOK
  <1>8. CASE h[c].pc = "OpenRoot"
    <2>1. /\ mfs' = mfs
          /\ \/ h'[c].pc = "done" /\ h'[c].code = "Internal"
             \/ h'[c].pc = "cpMFS" /\ dir[nd] # None /\ h'[c].todo = dir[nd]
      BY <1>8 DEF Stepped, Moves, Failed
    <2>2. mfs[Path] = EmptyDir
      BY <1>2, <1>8 DEF ImportOK, On
    <2>3. dir[nd] # None => dir[nd] = data
      <3>1. staged[nd] = "uncertain"
        BY <1>2 DEF DataInv, CallOK
      <3> QED
        BY <1>1, <3>1 DEF DataInv, WrittenOK
    <2> QED
      BY <1>1, <1>2, <1>3, <1>4, <2>1, <2>2, <2>3 DEF ImportOK, EmptyDir
  <1>9. CASE h[c].pc = "cpMFS"
    <2>1. /\ mfs[Path] # None /\ mfs[Path] \cap h[c].todo = {}
          /\ mfs[Path] \cup h[c].todo = data
      BY <1>2, <1>9 DEF ImportOK, On
    <2>2. CASE h[c].todo = {} /\ h'[c].pc = "CleanupMountPoint" /\ mfs' = mfs
      BY <1>1, <1>2, <1>3, <2>1, <2>2 DEF ImportOK
    <2>3. CASE h'[c].pc = "done" /\ h'[c].code = "Internal"
      BY <1>2, <2>3 DEF ImportOK
    <2>4. ASSUME NEW f \in h[c].todo, h'[c].pc = "cpMFS", h'[c].todo = h[c].todo \ {f},
                 cpMFS(f, Path, "ok")
          PROVE  ImportOK(c)'
      <3>1. mfs[Path] \cup {f} # None
        BY <1>1, <1>3, <2>1, HandlerFacts, CIDsAreDirs, NoneAssumption DEF Handlers
      <3>2. mfs'[Path'] = mfs[Path] \cup {f}
        BY <1>1, <1>3, <2>4 DEF cpMFS
      <3>3. /\ (mfs[Path] \cup {f}) \cap (h[c].todo \ {f}) = {}
            /\ (mfs[Path] \cup {f}) \cup (h[c].todo \ {f}) = data
        BY <2>1
      <3> QED
        BY <1>1, <1>2, <2>4, <3>1, <3>2, <3>3 DEF ImportOK
    <2> QED
      BY <1>9, <2>2, <2>3, <2>4 DEF Stepped, Moves, Failed
  <1>10. CASE h[c].pc = "CleanupMountPoint"
    <2>1. h'[c].pc = "done" /\ mfs' = mfs
      BY <1>10 DEF Stepped, Moves, Passed
    <2>2. mfs[Path] = data
      BY <1>2, <1>10 DEF ImportOK, On
    <2> QED
      BY <1>1, <1>2, <1>3, <2>1, <2>2 DEF ImportOK
  <1> QED
    BY <1>1, <1>5, <1>6, <1>7, <1>8, <1>9, <1>10 DEF ImportSteps

LEMMA StepWritten ==
  ASSUME KeepsData, TypeInv, DataInv, ~volume.readonly, NEW c \in Calls, Stepped(c)
  PROVE  WrittenOK'
  <1> DEFINE nd == h[c].node
  <1>1. /\ nd \in Nodes /\ h[c].pc # "done"
        /\ \A d \in Calls : d # c => h'[d] = h[d]
        /\ \A d \in Calls : h'[d].op = h[d].op /\ h'[d].node = h[d].node
        /\ UNCHANGED <<volume, pod, staged, data>> /\ Path' = Path
    BY StepFrame DEF Path
  <1>2. WrittenOK /\ \A d \in Calls : CallOK(d)
    BY DEF DataInv
  <1>3. \A d \in Calls : /\ On(d, "Stage")' <=> On(d, "Stage")
                         /\ On(d, "Unstage")' <=> On(d, "Unstage")
    BY StepKnown DEF Ops
  <1>4. mfs' = mfs \/ On(c, "Unstage")
    <2>1. mfs' = mfs \/ h[c].pc \in ImportSteps
      BY DEF Stepped, Moves, ImportSteps
    <2> QED
      BY <2>1, ImportFacts DEF On
  <1>5. On(c, "Unstage") => staged[nd] = "uncertain"
    BY <1>2 DEF WrittenOK, ImportOK, CallOK
  <1>6. ASSUME NEW d \in Calls PROVE ImportOK(d)'
    <2>1. CASE ~On(d, "Unstage")
      BY <1>3, <2>1 DEF ImportOK
    <2>2. CASE On(d, "Unstage") /\ d = c
      BY <2>2, ImportStep
    <2>3. CASE On(d, "Unstage") /\ d # c
      <3>1. ~On(c, "Unstage")
        BY <2>3, WriterAlone
      <3> QED
        BY <1>1, <1>2, <1>4, <2>3, <3>1 DEF WrittenOK, ImportOK
    <2> QED
      BY <2>1, <2>2, <2>3
  <1>7. ASSUME NEW d \in Calls, On(d, "Stage")' PROVE (staged[h[d].node] = "no")'
    BY <1>1, <1>2, <1>3, <1>7 DEF WrittenOK
  <1>8. ASSUME NEW m \in Nodes, staged[m] = "uncertain"
        PROVE  ~pod[m] /\ (dir'[m] = data \/ (dir'[m] = None /\ Imported(m)'))
    <2>1. ~pod[m] /\ (dir[m] = data \/ (dir[m] = None /\ Imported(m)))
      BY <1>2, <1>8 DEF WrittenOK
    <2>2. Imported(m) => Imported(m)'
      BY <1>1 DEF Imported, On
    <2>3. CASE dir'[m] = dir[m]
      BY <2>1, <2>2, <2>3
    <2>4. CASE dir'[m] # dir[m]
      <3>1. m = nd
        BY <2>4, StepDirs
      <3>2. ~On(c, "Stage")
        BY <1>2, <1>8, <3>1 DEF WrittenOK
      <3>3. On(c, "Unstage") /\ dir'[m] = None
        BY <2>4, <3>1, <3>2, StepDirs
      <3>4. h'[c].pc = "done" /\ h'[c].code = "OK"
        <4>1. h[c].pc = "CleanupMountPoint" \/ h[c].pc \in FetchSteps
          BY <2>4 DEF Stepped, Moves, FetchSteps
        <4>2. h[c].pc \notin FetchSteps
          BY <3>3, FetchingCall DEF On
        <4> QED
          BY <4>1, <4>2 DEF Stepped, Moves, Passed
      <3> QED
        BY <1>1, <1>3, <2>1, <3>1, <3>3, <3>4 DEF Imported
    <2> QED
      BY <2>3, <2>4
  <1>9. (\A m \in Nodes : staged[m] = "no") => mfs'[Path] = data
    BY <1>1, <1>2, <1>4, <1>5 DEF WrittenOK
  <1> QED
    BY <1>1, <1>6, <1>7, <1>8, <1>9 DEF WrittenOK

LEMMA StepData ==
  ASSUME KeepsData, TypeInv, DataInv, NEW c \in Calls, HandlerStep(c)
  PROVE  DataInv'
  <1>1. Stepped(c)
    BY StepMoves
  <1>2. volume' = volume /\ data' = data
    BY <1>1, StepFrame
  <1>3. ~volume.readonly => WrittenOK'
    BY <1>1, StepWritten
  <1> QED
    BY <1>1, <1>2, <1>3, StepKnown, StepNodes, StepStagings DEF DataInv

\* A request that was sent: a node that had no call has this one.
Requested(c, op, nd) ==
  /\ h[c].pc = "idle" /\ ~Calling(nd)
  /\ \A d \in Calls : d # c => h'[d] = h[d]
  /\ h'[c].op = op /\ h'[c].node = nd /\ h'[c].gone = "no"
  /\ h'[c].pc \in {"fetchContentToPath", "Mount", "Unmount", "GetVolumeAttributes"}
  /\ UNCHANGED <<ipfsVars, volume, pod, running, published, data>>

LEMMA RequestSent ==
  ASSUME KeepsData, TypeInv, NEW c \in Calls, NEW nd \in Nodes
  PROVE  /\ NodeStageVolume(c, nd) => Requested(c, "Stage", nd)
         /\ NodePublishVolume(c, nd) => Requested(c, "Publish", nd)
         /\ NodeUnpublishVolume(c, nd) => Requested(c, "Unpublish", nd)
         /\ NodeUnstageVolume(c, nd) => Requested(c, "Unstage", nd)
  <1>1. h \in [Calls -> Handlers] /\ Staging
    BY SafeFacts DEF TypeInv, TypeOK
  <1>2. ASSUME NEW op, NEW pc, Request(c, op, nd, pc)
        PROVE  /\ h[c].pc = "idle" /\ ~Calling(nd)
               /\ \A d \in Calls : d # c => h'[d] = h[d]
               /\ h'[c].op = op /\ h'[c].node = nd /\ h'[c].gone = "no"
               /\ h'[c].pc = pc
    <2> DEFINE x == [Idle EXCEPT !.pc = pc, !.op = op, !.node = nd, !.pod = pods]
    <2>1. x.op = op /\ x.node = nd /\ x.gone = "no" /\ x.pc = pc
      BY DEF Idle
    <2>2. h' = [h EXCEPT ![c] = x]
      BY <1>2 DEF Request
    <2> HIDE DEF x
    <2> QED
      BY <1>1, <1>2, <2>1, <2>2 DEF Request
  <1>3. ASSUME NodeStageVolume(c, nd) PROVE Requested(c, "Stage", nd)
    BY <1>2, <1>3 DEF NodeStageVolume, Requested, kubeletVars
  <1>4. ASSUME NodePublishVolume(c, nd) PROVE Requested(c, "Publish", nd)
    BY <1>1, <1>2, <1>4 DEF NodePublishVolume, Requested, kubeletVars
  <1>5. ASSUME NodeUnpublishVolume(c, nd) PROVE Requested(c, "Unpublish", nd)
    BY <1>2, <1>5 DEF NodeUnpublishVolume, Requested, kubeletVars
  <1>6. ASSUME NodeUnstageVolume(c, nd) PROVE Requested(c, "Unstage", nd)
    BY <1>2, <1>6 DEF NodeUnstageVolume, Requested
  <1> QED
    BY <1>3, <1>4, <1>5, <1>6

LEMMA RequestKnown ==
  ASSUME TypeInv, DataInv, NEW c \in Calls, NEW nd \in Nodes, NEW op,
         Requested(c, op, nd), Active(nd),
         \A m \in Nodes : staged'[m] = "no" <=> staged[m] = "no"
  PROVE  /\ OneCall' /\ Exclusive'
         /\ \A d \in Calls, o \in Ops : On(d, o)' => (d = c /\ o = op) \/ On(d, o)
         /\ \A d \in Calls : Live(d) => h[d].node # nd
  <1>1. /\ h[c].pc = "idle" /\ ~Calling(nd)
        /\ \A d \in Calls : d # c => h'[d] = h[d]
        /\ h'[c].op = op /\ h'[c].node = nd /\ h'[c].gone = "no"
        /\ UNCHANGED <<volume, pod>>
    BY DEF Requested
  <1>2. \A d \in Calls : Live(d) => h[d].node # nd
    BY <1>1 DEF Calling, Live
  <1>3. \A d \in Calls, o \in Ops : On(d, o)' => (d = c /\ o = op) \/ On(d, o)
    BY <1>1 DEF On
  <1>4. OneCall'
    BY <1>1, <1>2 DEF DataInv, OneCall, Live
  <1>5. \A m \in Nodes : Active(m)' => Active(m)
    BY <1>1 DEF Active, Calling
  <1>6. Exclusive'
    BY <1>1, <1>5 DEF DataInv, Exclusive, Allow
  <1> QED
    BY <1>2, <1>3, <1>4, <1>6

\* What a request leaves of the calls under way on the other nodes.
LEMMA RequestOthers ==
  ASSUME KeepsData, TypeInv, DataInv, NEW c \in Calls, NEW nd \in Nodes, NEW op \in Ops,
         Requested(c, op, nd), Active(nd),
         \A m \in Nodes : staged'[m] = "no" <=> staged[m] = "no",
         \A m \in Nodes : m # nd => staged'[m] = staged[m] /\ dir'[m] = dir[m],
         NEW d \in Calls, d # c
  PROVE  /\ CallOK(d)' /\ StageOK(d)'
         /\ ~volume.readonly
              => /\ ImportOK(d)'
                 /\ On(d, "Stage")' => staged'[h'[d].node] = "no"
  <1>1. /\ h'[d] = h[d] /\ UNCHANGED <<mfs, volume, published, data>>
        /\ Path' = Path /\ CallOK(d) /\ StageOK(d)
        /\ h[d].pc # "idle" => h[d].node \in Nodes
    BY HandlerFacts DEF Requested, DataInv, ipfsVars, Path, HandlerOK
  <1>2. Live(d) => h[d].node # nd
    BY RequestKnown
  <1>3. h[d].pc # "idle" /\ h[d].gone = "no"
          => staged'[h[d].node] = staged[h[d].node] /\ dir'[h[d].node] = dir[h[d].node]
    BY <1>1, <1>2 DEF Live
  <1>4. CallOK(d)'
    BY <1>1, <1>3 DEF CallOK, On
  <1>5. StageOK(d)'
    BY <1>1, <1>3 DEF StageOK, CallOK, On
  <1>6. ASSUME ~volume.readonly
        PROVE  ImportOK(d)' /\ (On(d, "Stage")' => staged'[h'[d].node] = "no")
    <2>1. ImportOK(d) /\ (On(d, "Stage") => staged[h[d].node] = "no")
      BY <1>6 DEF DataInv, WrittenOK
    <2>2. ImportOK(d)'
      BY <1>1, <2>1 DEF ImportOK, On
    <2> QED
      BY <1>1, <1>3, <2>1, <2>2 DEF On, CallOK
  <1> QED
    BY <1>4, <1>5, <1>6

\* Staging a volume a pod waits for.
LEMMA StageData ==
  ASSUME KeepsData, TypeInv, DataInv, NEW c \in Calls, NEW nd \in Nodes,
         NodeStageVolume(c, nd)
  PROVE  DataInv'
  <1>1. /\ Requested(c, "Stage", nd) /\ pod[nd] /\ staged[nd] # "yes"
        /\ h'[c].pc = "fetchContentToPath" /\ "Stage" \in Ops
        /\ UNCHANGED <<mfs, volume, pod, running, published, data, staged>>
    <2>1. Requested(c, "Stage", nd)
      BY RequestSent
    <2>2. h'[c].pc = "fetchContentToPath"
      <3> DEFINE x == [Idle EXCEPT !.pc = "fetchContentToPath", !.op = "Stage",
                                   !.node = nd, !.pod = pods]
      <3>1. x.pc = "fetchContentToPath"
        BY DEF Idle
      <3>2. h' = [h EXCEPT ![c] = x] /\ h \in [Calls -> Handlers]
        BY DEF NodeStageVolume, Request, TypeInv, TypeOK
      <3> HIDE DEF x
      <3> QED
        BY <3>1, <3>2
    <2> QED
      BY <2>1, <2>2 DEF NodeStageVolume, kubeletVars, ipfsVars, Ops
  <1>2. \A m \in Nodes : m # nd => staged'[m] = staged[m] /\ dir'[m] = dir[m]
    BY <1>1 DEF NodeStageVolume, TypeInv, TypeOK
  <1>3. Active(nd)
    BY <1>1 DEF Active
  <1>4. OneCall' /\ Exclusive'
    BY <1>1, <1>3, RequestKnown
  <1>5. h'[c].op = "Stage" /\ h'[c].node = nd /\ h'[c].gone = "no"
    BY <1>1 DEF Requested
  <1>6. \A d \in Calls : CallOK(d)' /\ StageOK(d)'
    <2>1. CallOK(c)' /\ StageOK(c)'
      BY <1>1, <1>5 DEF CallOK, StageOK, On
    <2> QED
      BY <1>1, <1>2, <1>3, <2>1, RequestOthers
  <1>7. \A m \in Nodes : NodeOK(m)'
    BY <1>1, <1>2 DEF DataInv, NodeOK
  <1>8. ~volume.readonly => WrittenOK'
    <2> SUFFICES ASSUME ~volume.readonly PROVE WrittenOK'
      OBVIOUS
    <2>1. WrittenOK /\ Path' = Path
      BY <1>1 DEF DataInv, Path
    <2>2. staged[nd] = "no"
      <3>1. staged[nd] \in Known /\ staged[nd] # "uncertain"
        BY <1>1, <2>1 DEF WrittenOK, TypeInv, TypeOK
      <3> QED
        BY <1>1, <3>1 DEF Known
    <2>3. ImportOK(c)'
      BY <1>5 DEF ImportOK, On
    <2>4. \A d \in Calls : ImportOK(d)' /\ (On(d, "Stage")' => staged'[h'[d].node] = "no")
      BY <1>1, <1>2, <1>3, <1>5, <2>2, <2>3, RequestOthers
    <2>5. \A m \in Nodes : Imported(m) => Imported(m)'
      BY <1>1 DEF Imported, On, Requested
    <2> QED
      BY <1>1, <1>2, <2>1, <2>2, <2>4, <2>5 DEF WrittenOK
  <1> QED
    BY <1>1, <1>4, <1>6, <1>7, <1>8 DEF DataInv

\* Publishing, and unpublishing, what is staged.
LEMMA PublishData ==
  ASSUME KeepsData, TypeInv, DataInv, NEW c \in Calls, NEW nd \in Nodes,
         NodePublishVolume(c, nd) \/ NodeUnpublishVolume(c, nd)
  PROVE  DataInv'
  <1>1. PICK op \in {"Publish", "Unpublish"} : Requested(c, op, nd)
    BY RequestSent
  <1>2. /\ UNCHANGED <<mfs, volume, pod, running, published, data, staged, dir>>
        /\ op \in Ops
    BY <1>1, SafeFacts
       DEF NodePublishVolume, NodeUnpublishVolume, kubeletVars, nodeVars, ipfsVars, Ops
  <1>3. staged[nd] = "yes"
    BY SafeFacts DEF NodePublishVolume, NodeUnpublishVolume, DataInv, NodeOK
  <1>4. Active(nd)
    BY <1>3 DEF Active
  <1>5. OneCall' /\ Exclusive'
    BY <1>1, <1>2, <1>4, RequestKnown
  <1>6. h'[c].op = op /\ h'[c].node = nd /\ h'[c].gone = "no"
    BY <1>1 DEF Requested
  <1>7. CallOK(c)' /\ StageOK(c)' /\ ImportOK(c)' /\ ~On(c, "Stage")'
    BY <1>2, <1>3, <1>6 DEF CallOK, StageOK, ImportOK, On
  <1>8. \A d \in Calls : CallOK(d)' /\ StageOK(d)'
    BY <1>1, <1>2, <1>4, <1>7, RequestOthers
  <1>9. \A m \in Nodes : NodeOK(m)'
    BY <1>2 DEF DataInv, NodeOK
  <1>10. ~volume.readonly => WrittenOK'
    <2> SUFFICES ASSUME ~volume.readonly PROVE WrittenOK'
      OBVIOUS
    <2>1. WrittenOK /\ Path' = Path
      BY <1>2 DEF DataInv, Path
    <2>2. \A d \in Calls : ImportOK(d)' /\ (On(d, "Stage")' => staged'[h'[d].node] = "no")
      BY <1>1, <1>2, <1>4, <1>7, RequestOthers
    <2>3. \A m \in Nodes : Imported(m) => Imported(m)'
      BY <1>1 DEF Imported, On, Requested
    <2> QED
      BY <1>2, <2>1, <2>2, <2>3 DEF WrittenOK
  <1> QED
    BY <1>2, <1>5, <1>8, <1>9, <1>10 DEF DataInv

\* Unstaging what no pod wants.
LEMMA UnstageData ==
  ASSUME KeepsData, TypeInv, DataInv, NEW c \in Calls, NEW nd \in Nodes,
         NodeUnstageVolume(c, nd)
  PROVE  DataInv'
  <1>1. /\ Requested(c, "Unstage", nd) /\ ~pod[nd] /\ published[nd] = "no"
        /\ staged[nd] # "no" /\ "Unstage" \in Ops
        /\ UNCHANGED <<mfs, dir, volume, pod, running, published, data>>
    BY RequestSent DEF NodeUnstageVolume, nodeVars, ipfsVars, Ops
  <1>2. /\ staged'[nd] = "uncertain"
        /\ \A m \in Nodes : m # nd => staged'[m] = staged[m]
        /\ \A m \in Nodes : staged'[m] = "no" <=> staged[m] = "no"
    BY <1>1 DEF NodeUnstageVolume, TypeInv, TypeOK
  <1>3. Active(nd)
    BY <1>1 DEF Active
  <1>4. OneCall' /\ Exclusive'
    BY <1>1, <1>2, <1>3, RequestKnown
  <1>5. /\ h'[c].op = "Unstage" /\ h'[c].node = nd /\ h'[c].gone = "no"
        /\ h'[c].pc \in {"fetchContentToPath", "Mount", "Unmount", "GetVolumeAttributes"}
    BY <1>1 DEF Requested
  <1>6. CallOK(c)' /\ StageOK(c)' /\ ImportOK(c)' /\ ~On(c, "Stage")'
    BY <1>1, <1>2, <1>5 DEF CallOK, StageOK, ImportOK, On
  <1>7. \A d \in Calls : CallOK(d)' /\ StageOK(d)'
    BY <1>1, <1>2, <1>3, <1>6, RequestOthers
  <1>8. \A m \in Nodes : NodeOK(m)'
    BY <1>1, <1>2 DEF DataInv, NodeOK
  <1>9. ~volume.readonly => WrittenOK'
    <2> SUFFICES ASSUME ~volume.readonly PROVE WrittenOK'
      OBVIOUS
    <2>1. WrittenOK /\ Path' = Path
      BY <1>1 DEF DataInv, Path
    <2>2. \A d \in Calls : ImportOK(d)' /\ (On(d, "Stage")' => staged'[h'[d].node] = "no")
      BY <1>1, <1>2, <1>3, <1>6, RequestOthers
    <2>3. \A m \in Nodes : Imported(m) => Imported(m)'
      BY <1>1 DEF Imported, On, Requested
    <2>4. staged[nd] = "yes" \/ staged[nd] = "uncertain"
      BY <1>1 DEF TypeInv, TypeOK, Known
    <2>5. staged[nd] = "yes" => dir[nd] = data
      BY DEF DataInv, NodeOK
    <2>6. ASSUME NEW m \in Nodes, staged'[m] = "uncertain"
          PROVE  ~pod[m] /\ (dir[m] = data \/ (dir[m] = None /\ Imported(m)'))
      BY <1>1, <1>2, <2>1, <2>3, <2>4, <2>5, <2>6 DEF WrittenOK
    <2>7. ~ \A m \in Nodes : staged'[m] = "no"
      BY <1>2
    <2> QED
      BY <1>1, <2>1, <2>2, <2>6, <2>7 DEF WrittenOK
  <1> QED
    BY <1>1, <1>4, <1>7, <1>8, <1>9 DEF DataInv

\* Calls that end take nothing from the others.
LEMMA EndKnown ==
  ASSUME TypeInv, DataInv, volume' = volume,
         \A m \in Nodes : pod'[m] => Active(m),
         \A m \in Nodes : staged'[m] # "no" => Active(m),
         \A d \in Calls : h'[d] = h[d] \/ h'[d].gone # "no" \/ h'[d] = Idle
  PROVE  OneCall' /\ Exclusive'
  <1>1. Idle.node = None /\ Idle.pc = "idle" /\ None \notin Nodes
    BY NodeAssumption DEF Idle
  <1>2. \A d \in Calls : Live(d)' => Live(d) /\ h'[d] = h[d]
    BY <1>1 DEF Live
  <1>3. OneCall'
    BY <1>2 DEF DataInv, OneCall
  <1>4. \A m \in Nodes : Calling(m)' => Calling(m)
    BY <1>1 DEF Calling
  <1>5. \A m \in Nodes : Active(m)' => Active(m)
    BY <1>4 DEF Active
  <1>6. Exclusive'
    BY <1>5 DEF DataInv, Exclusive, Allow
  <1> QED
    BY <1>3, <1>6

\* The answers, one kind of call after the other.
LEMMA ReplyFrame ==
  ASSUME TypeInv, DataInv, NEW c \in Calls, Reply(c)
  PROVE  /\ h[c].pc = "done" /\ h[c].node \in Nodes /\ h'[c] = Idle /\ h'[c].pc = "idle"
         /\ \A d \in Calls : d # c => h'[d] = h[d]
         /\ \A d \in Calls, op \in Ops : On(d, op)' => On(d, op) /\ d # c
         /\ UNCHANGED <<mfs, dir, volume, pod, data>> /\ Path' = Path
         /\ On(c, h[c].op) /\ h[c].op \in Ops
  <1>1. /\ h[c].pc = "done" /\ h' = [h EXCEPT ![c] = Idle]
        /\ UNCHANGED <<mfs, dir, volume, pod, data>>
    BY DEF Reply, ipfsVars, nodeVars
  <1>2. h[c].node \in Nodes /\ h[c].op \in Ops /\ h \in [Calls -> Handlers]
    BY <1>1, HandlerFacts DEF HandlerOK, Ops
  <1>3. h'[c] = Idle /\ h'[c].pc = "idle" /\ \A d \in Calls : d # c => h'[d] = h[d]
    BY <1>1, <1>2, IdleOK
  <1>4. \A d \in Calls, op \in Ops : On(d, op)' => On(d, op) /\ d # c
    BY <1>3 DEF On
  <1> QED
    BY <1>1, <1>2, <1>3, <1>4 DEF On, Path

\* What the answers tell the kubelet.
LEMMA ReplyKnown ==
  ASSUME TypeInv, DataInv, NEW c \in Calls, Reply(c)
  PROVE  LET nd == h[c].node
             ok == h[c].code = "OK"
         IN  /\ \A m \in Nodes : m # nd => /\ staged'[m] = staged[m]
                                           /\ published'[m] = published[m]
                                           /\ running'[m] = running[m]
             /\ h[c].gone # "no" => UNCHANGED <<staged, published, running>>
             /\ h[c].gone = "no" /\ h[c].op = "Stage"
                  => /\ staged'[nd] = IF ok THEN "yes" ELSE "no"
                     /\ UNCHANGED <<published, running>>
             /\ h[c].gone = "no" /\ h[c].op = "Unstage"
                  => /\ staged'[nd] = IF ok THEN "no" ELSE staged[nd]
                     /\ UNCHANGED <<published, running>>
             /\ h[c].op = "Publish"
                  => /\ staged' = staged
                     /\ published'[nd] # "no" => published[nd] # "no" \/ h[c].gone = "no"
                     /\ running'[nd] => running[nd] \/ (h[c].gone = "no" /\ pod[nd])
             /\ h[c].op = "Unpublish"
                  => /\ UNCHANGED <<staged, running>>
                     /\ published'[nd] # "no" => published[nd] # "no"
  <1>1. /\ h[c].node \in Nodes /\ staged \in [Nodes -> Known]
        /\ published \in [Nodes -> Known] /\ running \in [Nodes -> BOOLEAN]
    BY ReplyFrame DEF TypeInv, TypeOK
  <1> QED
    BY <1>1 DEF Reply

LEMMA ReplyNodes ==
  ASSUME TypeInv, DataInv, NEW c \in Calls, Reply(c)
  PROVE  \A m \in Nodes : NodeOK(m)'
  <1> DEFINE nd == h[c].node
  <1>1. /\ nd \in Nodes /\ h[c].pc = "done" /\ On(c, h[c].op) /\ h[c].op \in Ops
        /\ UNCHANGED <<dir, pod, data>>
    BY ReplyFrame
  <1>2. CallOK(c) /\ StageOK(c) /\ \A m \in Nodes : NodeOK(m)
    BY DEF DataInv
  <1>3. ASSUME NEW m \in Nodes, m # nd PROVE NodeOK(m)'
    BY <1>1, <1>2, <1>3, ReplyKnown DEF NodeOK
  <1>4. ASSUME NEW m \in Nodes, m = nd PROVE NodeOK(m)'
    <2>1. CASE h[c].gone # "no"
      BY <1>1, <1>2, <2>1, <1>4, ReplyKnown DEF NodeOK
    <2>2. CASE h[c].gone = "no" /\ h[c].op = "Stage"
      <3>1. staged[nd] # "yes" /\ (h[c].code = "OK" => dir[nd] = data)
        BY <1>1, <1>2, <2>2 DEF CallOK, StageOK
      <3> QED
        BY <1>1, <1>2, <2>2, <3>1, <1>4, ReplyKnown DEF NodeOK
    <2>3. CASE h[c].gone = "no" /\ h[c].op = "Unstage"
      <3>1. staged[nd] = "uncertain" /\ published[nd] = "no"
        BY <1>1, <1>2, <2>3 DEF CallOK
      <3> QED
        BY <1>1, <1>2, <2>3, <3>1, <1>4, ReplyKnown DEF NodeOK
    <2>4. CASE h[c].gone = "no" /\ h[c].op = "Publish"
      <3>1. staged[nd] = "yes"
        BY <1>1, <1>2, <2>4 DEF CallOK
      <3> QED
        BY <1>1, <1>2, <2>4, <3>1, <1>4, ReplyKnown DEF NodeOK
    <2>5. CASE h[c].gone = "no" /\ h[c].op = "Unpublish"
      <3>1. staged[nd] = "yes"
        BY <1>1, <1>2, <2>5 DEF CallOK
      <3> QED
        BY <1>1, <1>2, <2>5, <3>1, <1>4, ReplyKnown DEF NodeOK
    <2> QED
      BY <1>1, <2>1, <2>2, <2>3, <2>4, <2>5 DEF Ops
  <1> QED
    BY <1>3, <1>4

LEMMA ReplyData ==
  ASSUME KeepsData, TypeInv, DataInv, NEW c \in Calls, Reply(c)
  PROVE  DataInv'
  <1> DEFINE nd == h[c].node
  <1>1. /\ nd \in Nodes /\ h[c].pc = "done" /\ On(c, h[c].op) /\ h[c].op \in Ops
        /\ h'[c] = Idle /\ \A d \in Calls : d # c => h'[d] = h[d]
        /\ \A d \in Calls, op \in Ops : On(d, op)' => On(d, op) /\ d # c
        /\ UNCHANGED <<mfs, dir, volume, pod, data>> /\ Path' = Path
    BY ReplyFrame
  <1>2. h[c].gone = "no" => Live(c) /\ Active(nd)
    BY <1>1 DEF Live, Active, Calling
  <1>3. \A m \in Nodes : \/ m = nd /\ h[c].gone = "no"
                         \/ staged'[m] = staged[m] /\ published'[m] = published[m]
    BY ReplyKnown
  <1>4. OneCall' /\ Exclusive'
    <2>1. \A m \in Nodes : staged'[m] # "no" => Active(m)
      BY <1>2, <1>3 DEF Active
    <2>2. \A m \in Nodes : pod'[m] => Active(m)
      BY <1>1 DEF Active
    <2> QED
      BY <1>1, <2>1, <2>2, EndKnown
  <1>5. \A d \in Calls : Live(d) /\ d # c
          => /\ h[d].node \in Nodes
             /\ staged'[h[d].node] = staged[h[d].node]
             /\ published'[h[d].node] = published[h[d].node]
    <2> SUFFICES ASSUME NEW d \in Calls, Live(d), d # c
                 PROVE  /\ h[d].node \in Nodes
                        /\ staged'[h[d].node] = staged[h[d].node]
                        /\ published'[h[d].node] = published[h[d].node]
      OBVIOUS
    <2>1. h[d].node \in Nodes
      BY HandlerFacts DEF Live, HandlerOK
    <2>2. ~(h[d].node = nd /\ h[c].gone = "no")
      BY <1>2 DEF DataInv, OneCall
    <2> QED
      BY <1>3, <2>1, <2>2
  <1>6. ASSUME NEW d \in Calls PROVE CallOK(d)' /\ StageOK(d)'
    <2>1. CASE d = c
      BY <1>1, <2>1 DEF CallOK, StageOK, Ops
    <2>2. CASE d # c
      <3>1. h'[d] = h[d] /\ CallOK(d) /\ StageOK(d)
        BY <1>1, <2>2 DEF DataInv
      <3>2. CallOK(d)'
        BY <1>5, <2>2, <3>1 DEF CallOK, Live, On
      <3> QED
        BY <1>1, <3>1, <3>2 DEF StageOK, On
    <2> QED
      BY <2>1, <2>2
  <1>7. ~volume.readonly => WrittenOK'
    <2> SUFFICES ASSUME ~volume.readonly PROVE WrittenOK'
      OBVIOUS
    <2>1. WrittenOK /\ CallOK(c)
      BY DEF DataInv
    <2>2. ASSUME NEW d \in Calls
          PROVE  ImportOK(d)' /\ (On(d, "Stage")' => staged'[h'[d].node] = "no")
      <3>1. CASE d = c
        BY <1>1, <3>1 DEF ImportOK, Ops
      <3>2. CASE d # c
        <4>1. h'[d] = h[d] /\ ImportOK(d) /\ CallOK(d)
          BY <1>1, <2>1, <3>2 DEF WrittenOK, DataInv
        <4>2. ImportOK(d)'
          BY <1>1, <4>1 DEF ImportOK, On
        <4>3. On(d, "Stage")' => staged'[h'[d].node] = "no"
          BY <1>5, <2>1, <3>2, <4>1 DEF WrittenOK, CallOK, On, Live
        <4> QED
          BY <4>2, <4>3
      <3> QED
        BY <3>1, <3>2
    <2>3. ASSUME NEW m \in Nodes, staged'[m] = "uncertain"
          PROVE  ~pod[m] /\ (dir[m] = data \/ (dir[m] = None /\ Imported(m)'))
      <3>1. staged[m] = "uncertain"
        BY <1>1, <2>1, <2>3, ReplyKnown DEF Ops
      <3>2. ~pod[m] /\ (dir[m] = data \/ (dir[m] = None /\ Imported(m)))
        BY <2>1, <3>1 DEF WrittenOK
      <3>3. Imported(m) => Imported(m)'
        <4> SUFFICES ASSUME NEW d \in Calls, On(d, "Unstage"), h[d].node = m,
                            h[d].pc = "done", h[d].code = "OK"
                     PROVE  Imported(m)'
          BY DEF Imported
        <4>1. d # c
          <5> SUFFICES ASSUME d = c PROVE FALSE
            OBVIOUS
          <5>1. h[c].op = "Unstage" /\ h[c].gone = "no"
            BY <2>1 DEF WrittenOK, ImportOK, On
          <5> QED
            BY <2>3, <5>1, ReplyKnown
        <4> QED
          BY <1>1, <4>1 DEF Imported, On
      <3> QED
        BY <3>2, <3>3
    <2>4. (\A m \in Nodes : staged'[m] = "no") => mfs[Path] = data
      <3> SUFFICES ASSUME \A m \in Nodes : staged'[m] = "no" PROVE mfs[Path] = data
        OBVIOUS
      <3>1. CASE staged' = staged
        BY <2>1, <3>1 DEF WrittenOK
      <3>2. CASE h[c].op = "Unstage" /\ h[c].code = "OK"
        BY <1>1, <2>1, <3>2 DEF WrittenOK, ImportOK
      <3>3. CASE h[c].op = "Unstage" /\ h[c].code # "OK"
        <4>1. staged[nd] = "uncertain" /\ h[c].gone = "no"
          BY <1>1, <2>1, <3>3 DEF WrittenOK, ImportOK, CallOK
        <4> QED
          BY <1>1, <3>3, <4>1, ReplyKnown
      <3>4. CASE h[c].op = "Stage"
        <4>1. staged[nd] = "no"
          BY <1>1, <2>1, <3>4 DEF WrittenOK
        <4>2. \A m \in Nodes : staged[m] = "no"
          BY <1>3, <4>1
        <4> QED
          BY <2>1, <4>2 DEF WrittenOK
      <3> QED
        BY <1>1, <3>1, <3>2, <3>3, <3>4, ReplyKnown DEF Ops
    <2> QED
      BY <1>1, <2>2, <2>3, <2>4 DEF WrittenOK
  <1> QED
    BY <1>1, <1>4, <1>6, <1>7, ReplyNodes DEF DataInv

\* The kubelet gives up on a call; it may, on all but a staging.
LEMMA GiveUpData ==
  ASSUME KeepsData, TypeInv, DataInv, NEW c \in Calls, GiveUp(c)
  PROVE  DataInv'
  <1> DEFINE nd == h[c].node
  <1>1. /\ h[c].pc # "idle" /\ h[c].gone = "no" /\ h' = [h EXCEPT ![c].gone = "now"]
        /\ UNCHANGED <<mfs, dir, volume, pod, running, data>> /\ Path' = Path
        /\ TimeoutKind(h[c].op) \in Allow
    BY DEF GiveUp, LocalFailure, ipfsVars, nodeVars, Path
  <1>2. /\ nd \in Nodes /\ h[c].op \in Ops /\ h[c] \in Handlers
        /\ h \in [Calls -> Handlers]
        /\ staged \in [Nodes -> Known] /\ published \in [Nodes -> Known]
    BY <1>1, HandlerFacts DEF HandlerOK, Ops, TypeInv, TypeOK
  <1>3. /\ \A d \in Calls : d # c => h'[d] = h[d]
        /\ h'[c].gone = "now" /\ h'[c].op = h[c].op /\ h'[c].pc = h[c].pc
        /\ h'[c].node = nd
    <2> DEFINE r == h[c]
               x == [r EXCEPT !.gone = "now"]
    <2>1. r \in Handlers /\ h' = [h EXCEPT ![c] = x]
      BY <1>1, <1>2
    <2> HIDE DEF r
    <2>2. x.gone = "now" /\ x.op = r.op /\ x.pc = r.pc /\ x.node = r.node
      BY <2>1 DEF Handlers
    <2> HIDE DEF x
    <2> QED
      BY <1>2, <2>1, <2>2 DEF r
  <1>4. /\ h[c].op # "Stage"
        /\ ~volume.readonly => h[c].op # "Unstage"
    BY <1>1, <1>2, SafeFacts DEF TimeoutKind, Ops
  <1>5. /\ \A d \in Calls : d # c /\ Live(d) => h[d].node # nd
        /\ Active(nd) /\ Live(c)
    BY <1>1, <1>2 DEF DataInv, OneCall, Live, Active, Calling
  <1>6. /\ \A m \in Nodes : m # nd => /\ staged'[m] = staged[m]
                                      /\ published'[m] = published[m]
        /\ staged' = staged
    <2>1. h[c].op = "Unstage" => staged[nd] = "uncertain"
      BY <1>1 DEF DataInv, CallOK, On
    <2> QED
      BY <1>2, <1>4, <2>1 DEF GiveUp, Doubt
  <1>7. OneCall' /\ Exclusive'
    <2>1. \A m \in Nodes : (staged'[m] # "no" => Active(m)) /\ (pod'[m] => Active(m))
      BY <1>1, <1>6 DEF Active
    <2> QED
      BY <1>1, <1>3, <2>1, EndKnown
  <1>8. ASSUME NEW d \in Calls PROVE CallOK(d)' /\ StageOK(d)'
    <2>1. CASE d = c
      BY <1>3, <1>4, <2>1 DEF CallOK, StageOK, On
    <2>2. CASE d # c
      <3>1. h'[d] = h[d] /\ CallOK(d) /\ StageOK(d)
        BY <1>3, <2>2 DEF DataInv
      <3>2. h[d].pc # "idle" => h[d].node \in Nodes
        BY HandlerFacts DEF HandlerOK
      <3>3. Live(d) => published'[h[d].node] = published[h[d].node]
        BY <1>5, <1>6, <2>2, <3>2 DEF Live
      <3> QED
        BY <1>1, <1>6, <3>1, <3>3 DEF CallOK, StageOK, On, Live
    <2> QED
      BY <2>1, <2>2
  <1>9. ASSUME NEW m \in Nodes PROVE NodeOK(m)'
    <2>1. NodeOK(m)
      BY DEF DataInv
    <2>2. published'[m] # published[m] => staged[m] = "yes"
      <3>1. h[c].op \in {"Publish", "Unpublish"} => staged[nd] = "yes"
        BY <1>1 DEF DataInv, CallOK, On
      <3>2. h[c].op = "Unstage" => published' = published
        BY DEF GiveUp
      <3> QED
        BY <1>2, <1>4, <1>6, <3>1, <3>2 DEF Ops
    <2> QED
      BY <1>1, <1>6, <2>1, <2>2 DEF NodeOK
  <1>10. ~volume.readonly => WrittenOK'
    <2> SUFFICES ASSUME ~volume.readonly PROVE WrittenOK'
      OBVIOUS
    <2>1. WrittenOK
      BY DEF DataInv
    <2>2. \A d \in Calls : /\ On(d, "Unstage")' <=> On(d, "Unstage")
                           /\ On(d, "Stage")' <=> On(d, "Stage")
                           /\ On(d, "Unstage") \/ On(d, "Stage") => d # c
      BY <1>3, <1>4 DEF On
    <2>3. \A d \in Calls : ImportOK(d)'
      BY <1>1, <1>3, <2>1, <2>2 DEF WrittenOK, ImportOK
    <2>4. \A m \in Nodes : Imported(m) => Imported(m)'
      BY <1>3, <2>2 DEF Imported
    <2> QED
      BY <1>1, <1>3, <1>6, <2>1, <2>2, <2>3, <2>4 DEF WrittenOK
  <1> QED
    BY <1>1, <1>7, <1>8, <1>9, <1>10 DEF DataInv

\* The driver dies on a node: with a read-only volume nothing is lost.
LEMMA RestartData ==
  ASSUME KeepsData, TypeInv, DataInv, NEW nd \in Nodes,
         PluginRestart(nd) \/ KubeletRestart(nd)
  PROVE  DataInv'
  <1> DEFINE ops == {h[c].op : c \in {d \in Calls : h[d].node = nd /\ h[d].gone = "no"}}
  <1>1. PluginRestart(nd) /\ volume.readonly
    BY SafeFacts DEF PluginRestart, KubeletRestart, LocalFailure
  <1>2. /\ h' = [c \in Calls |-> IF h[c].node = nd THEN Idle ELSE h[c]]
        /\ staged' = IF ops \cap {"Stage", "Unstage"} # {} THEN Doubt(staged, nd) ELSE staged
        /\ published' = IF ops \cap {"Publish", "Unpublish"} # {}
                        THEN Doubt(published, nd) ELSE published
        /\ UNCHANGED <<dir, volume, pod, running, data>>
    BY <1>1 DEF PluginRestart, nodeVars
  <1>3. staged \in [Nodes -> Known] /\ published \in [Nodes -> Known]
    BY DEF TypeInv, TypeOK
  <1>4. \A c \in Calls : \/ h'[c] = h[c] /\ h[c].node # nd
                         \/ h'[c] = Idle /\ h'[c].pc = "idle" /\ h[c].node = nd
    BY <1>2, IdleOK
  <1>5. \A c \in Calls : h[c].node = nd /\ h[c].gone = "no" => Live(c) /\ Active(nd)
    <2>1. \A c \in Calls : h[c].pc = "idle" => h[c].node = None
      BY HandlerFacts DEF HandlerOK, Idle
    <2> QED
      BY <2>1, NodeAssumption DEF Live, Active, Calling
  <1>6. \A m \in Nodes : m # nd => staged'[m] = staged[m] /\ published'[m] = published[m]
    BY <1>2, <1>3 DEF Doubt
  <1>7. ASSUME staged' # staged
        PROVE  staged[nd] # "yes" /\ Active(nd)
    <2>1. PICK c \in Calls : /\ h[c].node = nd /\ h[c].gone = "no"
                             /\ h[c].op \in {"Stage", "Unstage"}
      BY <1>2, <1>7
    <2>2. Live(c) /\ Active(nd)
      BY <1>5, <2>1
    <2> QED
      BY <2>1, <2>2 DEF DataInv, CallOK, On, Live
  <1>8. ASSUME published' # published
        PROVE  staged[nd] = "yes"
    <2>1. PICK c \in Calls : /\ h[c].node = nd /\ h[c].gone = "no"
                             /\ h[c].op \in {"Publish", "Unpublish"}
      BY <1>2, <1>8
    <2>2. Live(c)
      BY <1>5, <2>1
    <2> QED
      BY <2>1, <2>2 DEF DataInv, CallOK, On, Live
  <1>9. staged' = staged \/ staged'[nd] = "uncertain"
    BY <1>2, <1>3 DEF Doubt
  <1>10. OneCall' /\ Exclusive'
    <2>1. \A m \in Nodes : staged'[m] # "no" => Active(m)
      BY <1>6, <1>7 DEF Active
    <2>2. \A m \in Nodes : pod'[m] => Active(m)
      BY <1>2 DEF Active
    <2> QED
      BY <1>2, <1>4, <2>1, <2>2, EndKnown
  <1>11. ASSUME NEW d \in Calls PROVE CallOK(d)' /\ StageOK(d)'
    <2>1. CASE h'[d].pc = "idle"
      BY <2>1 DEF CallOK, StageOK, On
    <2>2. CASE h'[d] = h[d] /\ h[d].node # nd /\ h[d].pc # "idle"
      <3>1. h[d].node \in Nodes
        BY <2>2, HandlerFacts DEF HandlerOK
      <3>2. /\ staged'[h[d].node] = staged[h[d].node]
            /\ published'[h[d].node] = published[h[d].node]
        BY <1>6, <2>2, <3>1
      <3> QED
        BY <1>2, <2>2, <3>2 DEF DataInv, CallOK, StageOK, On
    <2> QED
      BY <1>4, <2>1, <2>2
  <1>12. ASSUME NEW m \in Nodes PROVE NodeOK(m)'
    BY <1>2, <1>6, <1>7, <1>8, <1>9 DEF DataInv, NodeOK
  <1> QED
    BY <1>1, <1>2, <1>10, <1>11, <1>12 DEF DataInv

\* A pod comes to a node, or leaves it.
LEMMA PodData ==
  ASSUME KeepsData, TypeInv, DataInv, NEW nd \in Nodes, PodStart(nd) \/ PodStop(nd)
  PROVE  DataInv'
  <1>1. UNCHANGED <<mfs, dir, h, volume, staged, published, data>> /\ Path' = Path
    BY DEF PodStart, PodStop, ipfsVars, nodeVars, Path
  <1>2. pod \in [Nodes -> BOOLEAN] /\ running \in [Nodes -> BOOLEAN]
    BY DEF TypeInv, TypeOK
  <1>3. OneCall' /\ \A d \in Calls : CallOK(d)' /\ StageOK(d)'
    BY <1>1 DEF DataInv, OneCall, CallOK, StageOK, Live, On
  <1>4. /\ \A m \in Nodes : m # nd => pod'[m] = pod[m]
        /\ \A m \in Nodes : running'[m] => running[m] /\ pod'[m]
    <2>1. \A m \in Nodes : running[m] => pod[m]
      BY DEF DataInv, NodeOK
    <2> QED
      BY <1>2, <2>1 DEF PodStart, PodStop
  <1>5. \A m \in Nodes : NodeOK(m)'
    BY <1>1, <1>4 DEF DataInv, NodeOK
  <1>6. Exclusive'
    <2> SUFFICES ASSUME "handover" \notin Allow, NEW m \in Nodes, NEW n \in Nodes,
                        Active(m)', Active(n)'
                 PROVE  m = n
      BY <1>1 DEF Exclusive, Allow
    <2>1. CASE PodStart(nd)
      <3>1. \A k \in Nodes \ {nd} : ~Active(k)
        BY <2>1 DEF PodStart, Unpublished, Unstaged, Active
      <3>2. \A k \in Nodes \ {nd} : ~Active(k)'
        BY <1>1, <1>4, <3>1 DEF Active, Calling
      <3> QED
        BY <3>2
    <2>2. CASE PodStop(nd)
      <3>1. \A k \in Nodes : Active(k)' => Active(k)
        BY <1>1, <1>4, <2>2 DEF Active, Calling, PodStop
      <3> QED
        BY <3>1 DEF DataInv, Exclusive
    <2> QED
      BY <2>1, <2>2
  <1>7. ~volume.readonly => WrittenOK'
    <2> SUFFICES ASSUME ~volume.readonly PROVE WrittenOK'
      OBVIOUS
    <2>1. WrittenOK
      BY DEF DataInv
    <2>2. ASSUME NEW m \in Nodes, staged[m] = "uncertain" PROVE ~pod'[m]
      <3>1. ~pod[m]
        BY <2>1, <2>2 DEF WrittenOK
      <3>2. CASE PodStart(nd)
        <4>1. staged[nd] = "no"
          BY <3>2, SafeFacts DEF PodStart, Unstaged
        <4> QED
          BY <1>4, <2>2, <3>1, <4>1
      <3>3. CASE PodStop(nd)
        BY <1>2, <3>1, <3>3 DEF PodStop
      <3> QED
        BY <3>2, <3>3
    <2> QED
      BY <1>1, <2>1, <2>2 DEF WrittenOK, ImportOK, Imported, On
  <1> QED
    BY <1>1, <1>3, <1>5, <1>6, <1>7 DEF DataInv

\* A pod writes: the volume is on its node and nowhere else.
LEMMA WriteData ==
  ASSUME KeepsData, TypeInv, DataInv, NEW nd \in Nodes, PodWrite(nd)
  PROVE  DataInv'
  <1>1. /\ UNCHANGED <<mfs, h, volume, pod, running, staged, published>> /\ Path' = Path
        /\ running[nd] /\ ~volume.readonly
    BY SafeFacts DEF PodWrite, ipfsVars, Path
  <1>2. dir'[nd] = data' /\ staged[nd] = "yes"
    <2>1. dir' = [dir EXCEPT ![nd] = data'] /\ dir \in [Nodes -> CIDs \cup {None}]
      BY DEF PodWrite, TypeInv, TypeOK
    <2> QED
      BY <1>1, <2>1 DEF DataInv, NodeOK
  <1>3. \A m \in Nodes : Active(m) => m = nd
    <2>1. "handover" \notin Allow /\ Active(nd)
      BY <1>1, <1>2, SafeFacts DEF Active
    <2> QED
      BY <2>1 DEF DataInv, Exclusive
  <1>4. \A c \in Calls : ~On(c, "Stage") /\ ~On(c, "Unstage")
    <2> SUFFICES ASSUME NEW c \in Calls, On(c, "Stage") \/ On(c, "Unstage") PROVE FALSE
      OBVIOUS
    <2>1. h[c].node = nd
      <3>1. Live(c) /\ h[c].node \in Nodes
        BY <1>1, WriterAlone
      <3>2. Active(h[c].node)
        BY <3>1 DEF Live, Active, Calling
      <3> QED
        BY <1>3, <3>1, <3>2
    <2>2. Live(c)
      BY <1>1, WriterAlone
    <2> QED
      BY <1>2, <2>1, <2>2 DEF DataInv, CallOK, Live
  <1>5. OneCall' /\ \A d \in Calls : CallOK(d)' /\ StageOK(d)'
    BY <1>1, <1>4 DEF DataInv, OneCall, CallOK, StageOK, Live, On
  <1>6. \A m \in Nodes : m # nd => staged[m] = "no"
    BY <1>3 DEF Active
  <1>7. \A m \in Nodes : NodeOK(m)'
    BY <1>1, <1>2, <1>6 DEF DataInv, NodeOK
  <1>8. Exclusive'
    BY <1>1 DEF DataInv, Exclusive, Active, Calling, Allow
  <1>9. WrittenOK'
    <2>1. \A c \in Calls : ~On(c, "Stage")' /\ ~On(c, "Unstage")'
      BY <1>1, <1>4 DEF On
    <2> QED
      BY <1>1, <1>2, <1>6, <2>1 DEF WrittenOK, ImportOK
  <1> QED
    BY <1>1, <1>5, <1>7, <1>8, <1>9 DEF DataInv

LEMMA DataNext ==
  ASSUME KeepsData
  PROVE  TypeInv /\ DataInv /\ [Next]_vars => DataInv'
  <1> SUFFICES ASSUME TypeInv, DataInv, [Next]_vars PROVE DataInv'
    OBVIOUS
  <1>1. CASE UNCHANGED vars
    BY <1>1 DEF vars, ipfsVars, nodeVars, kubeletVars, DataInv, OneCall, CallOK, StageOK,
                NodeOK, Exclusive, WrittenOK, ImportOK, Imported, Active, Calling, Allow,
                Live, On, Path
  <1>2. ASSUME NEW nd \in Nodes, KubeletCall(nd) PROVE DataInv'
    BY <1>2, StageData, PublishData, UnstageData DEF KubeletCall
  <1>3. CASE Next
    BY <1>2, <1>3, StepData, ReplyData, GiveUpData, RestartData, PodData, WriteData
       DEF Next
  <1> QED
    BY <1>1, <1>3

LEMMA DataInvariant ==
  ASSUME KeepsData
  PROVE  Spec => [](TypeInv /\ DataInv)
  <1>1. Init => TypeInv /\ DataInv
    BY NodeTypedInit, DataInit
  <1>2. TypeInv /\ DataInv /\ [Next]_vars => (TypeInv /\ DataInv)'
    BY NodeTypedNext, DataNext
  <1> QED
    BY <1>1, <1>2, PTL DEF Spec

(***************************************************************************)
(* PodsSeeData: for every set of nodes, calls, contents, writes and        *)
(* failures that cost no data (KeepsData), a running pod finds what was    *)
(* last written, on whichever node (node.go:354-409, 67-117).              *)
(***************************************************************************)
THEOREM PodsSeeData ==
  ASSUME KeepsData
  PROVE  Spec => []PodSeesData
  <1>1. DataInv => PodSeesData
    BY DEF DataInv, NodeOK, PodSeesData
  <1> QED
    BY <1>1, DataInvariant, PTL

(***************************************************************************)
(* DataIsKept: likewise, MFS holds exactly what was last written once the  *)
(* volume is unused; no unstage that failed half way and was tried again   *)
(* leaves a file too many or too few (node.go:92-109, client.go:477-577).  *)
(***************************************************************************)
THEOREM DataIsKept ==
  ASSUME KeepsData
  PROVE  Spec => []DataKept
  <1>1. DataInv => DataKept
    BY DEF DataInv, WrittenOK, DataKept, Unused
  <1> QED
    BY <1>1, DataInvariant, PTL

-----------------------------------------------------------------------------
(***************************************************************************)
(* The register.                                                           *)
(***************************************************************************)
\* Staging directory or MFS, whichever counts, holds the data.
LEMMA ContentIsData ==
  ASSUME KeepsData, TypeInv, DataInv
  PROVE  VolumeContent = data
  <1>1. CASE volume.readonly
    BY <1>1 DEF VolumeContent, DataInv
  <1>2. CASE ~volume.readonly
    <2>1. WrittenOK /\ "handover" \notin Allow /\ data # None
      BY <1>2, SafeFacts, NoneAssumption DEF DataInv, TypeInv, TypeOK
    <2>2. ASSUME NEW nd \in InUse
          PROVE  /\ InUse = {nd}
                 /\ dir[nd] = data \/ (dir[nd] = None /\ Imported(nd))
      <3>1. \A m \in InUse : m \in Nodes /\ Active(m)
        BY DEF InUse, Active
      <3>2. InUse = {nd}
        BY <2>1, <3>1 DEF DataInv, Exclusive
      <3>3. nd \in Nodes /\ (staged[nd] = "yes" \/ staged[nd] = "uncertain")
        BY DEF InUse, TypeInv, TypeOK, Known
      <3>4. staged[nd] = "yes" => dir[nd] = data
        BY <3>3 DEF DataInv, NodeOK
      <3> QED
        BY <2>1, <3>2, <3>3, <3>4 DEF WrittenOK
    <2>3. CASE \E nd \in InUse : dir[nd] # None
      <3>1. PICK nd \in InUse : dir[nd] # None
        BY <2>3
      <3>2. InUse = {nd} /\ dir[nd] = data
        BY <2>2, <3>1
      <3>3. {dir[m] : m \in {n \in InUse : dir[n] # None}} = {data}
        BY <3>1, <3>2
      <3> QED
        BY <1>2, <2>3, <3>3 DEF VolumeContent
    <2>4. CASE \A nd \in InUse : dir[nd] = None
      <3>1. mfs[Path] = data
        <4>1. CASE InUse = {}
          BY <2>1, <4>1 DEF WrittenOK, InUse
        <4>2. CASE InUse # {}
          <5>1. PICK nd \in InUse : Imported(nd)
            BY <2>1, <2>2, <2>4, <4>2
          <5> QED
            BY <2>1, <5>1 DEF Imported, WrittenOK, ImportOK
        <4> QED
          BY <4>1, <4>2
      <3> QED
        BY <1>2, <2>4, <3>1 DEF VolumeContent
    <2> QED
      BY <2>3, <2>4
  <1> QED
    BY <1>1, <1>2

\* One active node at a time: it opens what no other has open, or closes it.
LEMMA InUseStep ==
  ASSUME DataInv, "handover" \notin Allow, NEW nd \in Nodes, Active(nd),
         \A m \in Nodes : m # nd => staged'[m] = staged[m]
  PROVE  \/ InUse' = InUse
         \/ InUse = {} /\ InUse' = {nd}
         \/ InUse' = InUse \ {nd}
  <1>1. \A m \in InUse : m = nd
    BY DEF InUse, Active, DataInv, Exclusive
  <1>2. \A m \in InUse' : m = nd
    BY <1>1 DEF InUse
  <1>3. (InUse = {} \/ InUse = {nd}) /\ (InUse' = {} \/ InUse' = {nd})
    BY <1>1, <1>2
  <1> QED
    BY <1>3

LEMMA OnlyPodsWrite ==
  ASSUME [Next]_vars
  PROVE  \/ UNCHANGED <<data, writes>>
         \/ \E nd \in Nodes : PodWrite(nd)
  <1>1. \A c \in Calls : HandlerStep(c) => UNCHANGED <<data, writes>>
    BY DEF HandlerStep, fetchContentToPath, statMFS, GetCIDContent, Mount, Unmount,
           us_GetVolumeAttributes, SkipImport, us_RmMFS, us_MkdirMFS, us_OpenRoot,
           us_cpMFS, CleanupMountPoint, kubeletVars
  <1>2. \A c \in Calls : Reply(c) \/ GiveUp(c) => UNCHANGED <<data, writes>>
    BY DEF Reply, GiveUp
  <1>3. \A nd \in Nodes : KubeletCall(nd) => UNCHANGED <<data, writes>>
    BY DEF KubeletCall, NodeStageVolume, NodePublishVolume, NodeUnpublishVolume,
           NodeUnstageVolume, kubeletVars
  <1>4. \A nd \in Nodes : PluginRestart(nd) \/ KubeletRestart(nd) \/ PodStart(nd)
                          \/ PodStop(nd) => UNCHANGED <<data, writes>>
    BY DEF PluginRestart, KubeletRestart, PodStart, PodStop
  <1> QED
    BY <1>1, <1>2, <1>3, <1>4 DEF Next, vars, kubeletVars

\* Only the kubelet's knowledge of an active node changes.
LEMMA KnowledgeStep ==
  ASSUME KeepsData, TypeInv, DataInv, [Next]_vars
  PROVE  \/ staged' = staged
         \/ \E nd \in Nodes : /\ Active(nd)
                              /\ \A m \in Nodes : m # nd => staged'[m] = staged[m]
  <1> SUFFICES ASSUME staged' # staged
               PROVE  \E nd \in Nodes : /\ Active(nd)
                                        /\ \A m \in Nodes : m # nd => staged'[m] = staged[m]
    OBVIOUS
  <1>1. staged \in [Nodes -> Known]
    BY DEF TypeInv, TypeOK
  <1>2. ASSUME NEW c \in Calls, HandlerStep(c) PROVE FALSE
    BY <1>2, StepMoves, StepFrame
  <1>3. ASSUME NEW c \in Calls, Reply(c) \/ GiveUp(c)
        PROVE  /\ h[c].node \in Nodes /\ Active(h[c].node)
               /\ \A m \in Nodes : m # h[c].node => staged'[m] = staged[m]
    <2>1. h[c].pc # "idle" /\ h[c].gone = "no"
      BY <1>3 DEF Reply, GiveUp
    <2>2. h[c].node \in Nodes
      BY <2>1, HandlerFacts DEF HandlerOK
    <2> QED
      BY <1>1, <1>3, <2>1, <2>2 DEF Reply, GiveUp, Doubt, Active, Calling
  <1>4. ASSUME NEW nd \in Nodes, KubeletCall(nd)
        PROVE  Active(nd) /\ \A m \in Nodes : m # nd => staged'[m] = staged[m]
    BY <1>1, <1>4 DEF KubeletCall, NodeStageVolume, NodePublishVolume,
                      NodeUnpublishVolume, NodeUnstageVolume, kubeletVars, Active
  <1>5. ASSUME NEW nd \in Nodes, PluginRestart(nd) \/ KubeletRestart(nd)
        PROVE  Active(nd) /\ \A m \in Nodes : m # nd => staged'[m] = staged[m]
    <2>1. KubeletRestart(nd) => FALSE
      BY SafeFacts DEF KubeletRestart, LocalFailure
    <2>2. Calling(nd)
      BY <1>5, <2>1 DEF PluginRestart, Calling
    <2> QED
      BY <1>1, <1>5, <2>1, <2>2 DEF PluginRestart, Doubt, Active
  <1>6. ASSUME NEW nd \in Nodes, PodStart(nd) \/ PodStop(nd) \/ PodWrite(nd) PROVE FALSE
    BY <1>6 DEF PodStart, PodStop, PodWrite
  <1>7. ~ UNCHANGED vars
    BY DEF vars, kubeletVars
  <1> QED
    BY <1>2, <1>3, <1>4, <1>5, <1>6, <1>7 DEF Next

(***************************************************************************)
(* IsARegister: where moreover no pod starts on one node while another     *)
(* still unstages, the volume is a SharedVolume: its initial states and    *)
(* every step of the nodes, of the kubelet and of the pods are a register's*)
(* (node.go:33-117, 354-409, client.go:445-577).                           *)
(***************************************************************************)
THEOREM IsARegister ==
  ASSUME KeepsData, OneNodeAtATime
  PROVE  Spec => ImplementsRegister
  <1>1. Init => Register!Init
    <2> SUFFICES ASSUME Init PROVE Register!Init
      OBVIOUS
    <2>1. TypeInv /\ DataInv
      BY NodeTypedInit, DataInit
    <2>2. VolumeContent = data /\ data \in CIDs
      BY <2>1, ContentIsData DEF TypeInv, TypeOK
    <2>3. InUse = {} /\ writes = 0
      BY DEF Init, NodesInit, InUse
    <2> QED
      BY <2>2, <2>3 DEF Register!Init
  <1>2. TypeInv /\ DataInv /\ (TypeInv /\ DataInv)' /\ [Next]_vars
          => [Register!Next]_<<VolumeContent, InUse, writes>>
    <2> SUFFICES ASSUME TypeInv, DataInv, TypeInv', DataInv', [Next]_vars
                 PROVE  [Register!Next]_<<VolumeContent, InUse, writes>>
      OBVIOUS
    <2>1. VolumeContent = data /\ VolumeContent' = data'
      <3>1. VolumeContent = data
        BY ContentIsData
      <3>2. (VolumeContent = data)'
        BY ContentIsData, PTL
      <3> QED
        BY <3>1, <3>2
    <2>2. "handover" \notin Allow
      BY DEF OneNodeAtATime, Allow, TypeInv, TypeOK
    <2>3. ASSUME NEW nd \in Nodes, PodWrite(nd)
          PROVE  Register!Write(nd)
      <3>1. writes' = writes + 1 /\ staged' = staged /\ data' \in CIDs
        BY <2>3 DEF PodWrite
      <3>2. nd \in InUse /\ InUse' = InUse
        BY <2>3, <3>1 DEF InUse, PodWrite, DataInv, NodeOK
      <3> QED
        BY <2>1, <3>1, <3>2 DEF Register!Write
    <2>4. CASE UNCHANGED <<data, writes>>
      <3>1. CASE InUse' = InUse
        BY <2>1, <2>4, <3>1
      <3>2. ASSUME NEW nd \in Nodes, InUse = {} /\ InUse' = {nd}
            PROVE  Register!Open(nd)
        BY <2>1, <2>4, <3>2 DEF Register!Open
      <3>3. ASSUME NEW nd \in Nodes, InUse' = InUse \ {nd}
            PROVE  Register!Close(nd)
        BY <2>1, <2>4, <3>3 DEF Register!Close
      <3>4. staged' = staged => InUse' = InUse
        BY DEF InUse
      <3> QED
        BY <2>2, <3>1, <3>2, <3>3, <3>4, KnowledgeStep, InUseStep DEF Register!Next
    <2> QED
      BY <2>3, <2>4, OnlyPodsWrite DEF Register!Next
  <1> QED
    BY <1>1, <1>2, DataInvariant, PTL DEF Spec, ImplementsRegister, Register!Spec

-----------------------------------------------------------------------------
(***************************************************************************)
(* The nodes beside someone else who writes the volume's tree.             *)
(***************************************************************************)
ownVars ==
  <<nodeVars, h, volume, pod, running, staged, published, data, pods>>

LEMMA OthersStep ==
  ASSUME TypeInv, UNCHANGED ownVars, IpfsTypeOK',
         faults' \in 0..MaxFaults, writes' \in 0..MaxWrites
  PROVE  /\ TypeInv'
         /\ DataInv /\ mfs'[Path] = mfs[Path] => DataInv'
         /\ NodesIdle' <=> NodesIdle
  <1>1. TypeInv'
    BY DEF TypeInv, TypeOK, HandlerOK, ownVars, nodeVars, Path
  <1>2. DataInv /\ mfs'[Path] = mfs[Path] => DataInv'
    BY DEF ownVars, nodeVars, DataInv, OneCall, CallOK, StageOK, NodeOK, Exclusive,
           WrittenOK, ImportOK, Imported, Active, Calling, Allow, Live, On, Path
  <1>3. NodesIdle' <=> NodesIdle
    BY DEF ownVars, NodesIdle
  <1> QED
    BY <1>1, <1>2, <1>3

\* A volume nobody has stays so until a pod starts.
LEMMA IdleNodesRest ==
  ASSUME NodesIdle
  PROVE  /\ \A c \in Calls : ~(HandlerStep(c) \/ Reply(c) \/ GiveUp(c) \/ SkipImport(c))
         /\ \A nd \in Nodes : ~(KubeletCall(nd) \/ PodWrite(nd) \/ PodStop(nd))
  <1>1. \A c \in Calls : h[c].pc = "idle"
    BY IdleOK DEF NodesIdle
  <1>2. \A c \in Calls : ~(HandlerStep(c) \/ Reply(c) \/ GiveUp(c) \/ SkipImport(c))
    BY <1>1 DEF HandlerStep, Reply, GiveUp, SkipImport, fetchContentToPath, statMFS,
                GetCIDContent, Mount, Unmount, us_GetVolumeAttributes, us_RmMFS,
                us_MkdirMFS, us_OpenRoot, us_cpMFS, CleanupMountPoint
  <1>3. \A nd \in Nodes : ~(KubeletCall(nd) \/ PodWrite(nd) \/ PodStop(nd))
    BY DEF NodesIdle, KubeletCall, NodeStageVolume, NodePublishVolume,
           NodeUnpublishVolume, NodeUnstageVolume, PodWrite, PodStop
  <1> QED
    BY <1>2, <1>3

\* The PV was deleted: the import is skipped, at nobody's expense.
LEMMA SkipTyped ==
  ASSUME TypeInv, NEW c \in Calls, SkipImport(c), UNCHANGED faults
  PROVE  TypeInv'
  <1>1. /\ h[c].pc = "GetVolumeAttributes" /\ Goto(c, "CleanupMountPoint", h[c])
        /\ UNCHANGED <<ipfsVars, nodeVars, kubeletVars>>
    BY DEF SkipImport
  <1>2. h[c].pc # "idle" /\ h[c].op = "Unstage" /\ h[c] \in Handlers
    BY <1>1, UnstagingCall, HandlerFacts
  <1>3. /\ "CleanupMountPoint" \in Steps
        /\ "CleanupMountPoint" \notin {"statMFS"} \cup ImportSteps
    BY DEF Steps, ImportSteps
  <1>4. Moved(c) /\ HandlerOK(h'[c])
    BY <1>1, <1>2, <1>3, GotoMove
  <1>5. h' \in [Calls -> Handlers] /\ \A d \in Calls : HandlerOK(h[d])'
    BY <1>1, <1>4, SlotKept DEF Moved, kubeletVars
  <1> QED
    BY <1>1, <1>5 DEF TypeInv, TypeOK, IpfsTypeOK, ipfsVars, nodeVars, kubeletVars

\* Of the trees, the nodes write only the volume's, what is inside it and the
\* directories that lead there.
LEMMA NodesWriteTheTree ==
  ASSUME TypeInv, Next
  PROVE  /\ pinned' = pinned
         /\ \A p \in Paths : mfs'[p] # mfs[p]
              => /\ ~Apart(p, Path)
                 /\ mfs'[p] # None => p = Path \/ Path \in Below[p]
  <1>1. mfs \in [Paths -> CIDs \cup {None}]
    BY DEF TypeInv, TypeOK, IpfsTypeOK
  <1>2. ASSUME NEW c \in Calls, HandlerStep(c)
        PROVE  /\ pinned' = pinned
               /\ \/ mfs' = mfs
                  \/ \E d : mfs' = [mfs EXCEPT ![Path] = d]
                  \/ mfs' = Made(Path) \/ mfs' = Removed(Path)
    BY <1>2 DEF HandlerStep, fetchContentToPath, statMFS, GetCIDContent, Mount, Unmount,
                us_GetVolumeAttributes, SkipImport, us_RmMFS, us_MkdirMFS, us_OpenRoot,
                us_cpMFS, CleanupMountPoint, RmMFS, MkdirMFS, cpMFS, ipfsVars
  <1>3. CASE UNCHANGED ipfsVars
    BY <1>3 DEF ipfsVars
  <1>4. CASE \E c \in Calls : HandlerStep(c)
    BY <1>1, <1>2, <1>4 DEF Made, Removed, Apart
  <1> QED
    BY <1>3, <1>4
       DEF Next, Reply, GiveUp, KubeletCall, NodeStageVolume, NodePublishVolume,
           NodeUnpublishVolume, NodeUnstageVolume, PluginRestart, KubeletRestart,
           PodStart, PodStop, PodWrite

\* What a step other than a pod's start or stop means for the pods and the data.
LEMMA PodsStay ==
  ASSUME TypeInv,
         \/ \E c \in Calls : HandlerStep(c) \/ SkipImport(c) \/ Reply(c) \/ GiveUp(c)
         \/ \E nd \in Nodes : KubeletCall(nd) \/ PodWrite(nd)
  PROVE  /\ pod' = pod
         /\ \A nd \in Nodes : running'[nd] => running[nd] \/ pod[nd]
         /\ \A nd \in Nodes : running[nd] => running'[nd]
         /\ data' = data \/ \E nd \in Nodes : running'[nd]
  <1>1. /\ pod \in [Nodes -> BOOLEAN] /\ running \in [Nodes -> BOOLEAN]
    BY DEF TypeInv, TypeOK
  <1>2. CASE UNCHANGED <<pod, running, data>>
    BY <1>2
  <1>3. ASSUME NEW c \in Calls, HandlerStep(c) \/ SkipImport(c) \/ GiveUp(c)
        PROVE  UNCHANGED <<pod, running, data>>
    BY <1>3 DEF HandlerStep, fetchContentToPath, statMFS, GetCIDContent, Mount, Unmount,
                us_GetVolumeAttributes, SkipImport, us_RmMFS, us_MkdirMFS, us_OpenRoot,
                us_cpMFS, CleanupMountPoint, GiveUp, kubeletVars
  <1>4. ASSUME NEW nd \in Nodes, KubeletCall(nd)
        PROVE  UNCHANGED <<pod, running, data>>
    BY <1>4 DEF KubeletCall, NodeStageVolume, NodePublishVolume, NodeUnpublishVolume,
                NodeUnstageVolume, kubeletVars
  <1>5. ASSUME NEW c \in Calls, Reply(c)
        PROVE  /\ UNCHANGED <<pod, data>>
               /\ \/ running' = running
                  \/ pod[h[c].node] /\ running' = [running EXCEPT ![h[c].node] = TRUE]
    BY <1>5 DEF Reply
  <1>6. ASSUME NEW nd \in Nodes, PodWrite(nd)
        PROVE  running[nd] /\ UNCHANGED <<pod, running>>
    BY <1>6 DEF PodWrite
  <1> QED
    BY <1>1, <1>2, <1>3, <1>4, <1>5, <1>6

\* No pod comes but by its start.
LEMMA PodsGo ==
  ASSUME TypeInv,
         \/ \E c \in Calls : HandlerStep(c) \/ SkipImport(c) \/ Reply(c) \/ GiveUp(c)
         \/ \E nd \in Nodes : KubeletCall(nd) \/ PodWrite(nd) \/ PodStop(nd)
  PROVE  /\ \A nd \in Nodes : pod'[nd] => pod[nd]
         /\ \A nd \in Nodes : running'[nd] => running[nd] \/ pod[nd]
  <1>1. /\ pod \in [Nodes -> BOOLEAN] /\ running \in [Nodes -> BOOLEAN]
    BY DEF TypeInv, TypeOK
  <1>2. ASSUME NEW nd \in Nodes, PodStop(nd)
        PROVE  /\ pod' = [pod EXCEPT ![nd] = FALSE]
               /\ running' = [running EXCEPT ![nd] = FALSE]
    BY <1>2 DEF PodStop
  <1> QED
    BY <1>1, <1>2, PodsStay
\* Failed and abandoned calls are counted, and never forgotten.
LEMMA NodeFaultsGrow ==
  ASSUME Next
  PROVE  faults' = faults \/ faults' = faults + 1
  <1>1. ASSUME NEW c \in Calls, NEW o, NEW kind, Outcome(c, o, kind)
        PROVE  faults' = faults \/ faults' = faults + 1
    BY <1>1 DEF Outcome
  <1>2. ASSUME NEW c \in Calls, HandlerStep(c)
        PROVE  \/ faults' = faults \/ faults' = faults + 1
               \/ \E o, kind : Outcome(c, o, kind)
    BY <1>2, Zenon
       DEF HandlerStep, fetchContentToPath, statMFS, GetCIDContent, Mount, Unmount,
           us_GetVolumeAttributes, us_RmMFS, us_MkdirMFS, us_OpenRoot, us_cpMFS,
           CleanupMountPoint, LocalFailure
  <1> QED
    BY <1>1, <1>2
       DEF Next, Reply, GiveUp, KubeletCall, NodeStageVolume, NodePublishVolume,
           NodeUnpublishVolume, NodeUnstageVolume, PluginRestart, KubeletRestart,
           PodStart, PodStop, PodWrite, LocalFailure

=============================================================================
