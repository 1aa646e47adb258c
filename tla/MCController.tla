---------------------------- MODULE MCController ----------------------------
(***************************************************************************)
(* Instances of Controller for TLC.                                        *)
(***************************************************************************)
EXTENDS Controller, TLC

CONSTANTS v1, v2, v3, s1, s2, f1, f2, c1, c2

CallSymmetry == Permutations(Calls)

\* Distinct names that sanitize to distinct IDs and default paths.
MCVolumeIDs == {<<"ipfs-volume", n>> : n \in Names}
MCsanitizeVolumeID == [n \in Names |-> <<"ipfs-volume", n>>]
MCDefaultPath == [id \in VolumeIDs |-> <<"csi", id[2]>>]

\* One path outside the root, one spelling that needs Clean.
root == <<"csi">>
shared == <<"csi", "shared">>
sharedRaw == <<"csi", "x", "..", "shared">>
outside == <<"other">>
MCUnderRoot == {<<"csi", n>> : n \in Names} \cup {root, shared}
MCPaths == UnderRoot \cup {outside}
MCRawPaths == Paths \cup {sharedRaw}
MCBelow == [p \in Paths |-> IF p = root THEN UnderRoot \ {root} ELSE {}]
MCClean == [p \in RawPaths |-> IF p = sharedRaw THEN shared ELSE p]

\* All snapshots are of the first volume.
MCSourceOf == [s \in Snaps |-> v1]

ReadWrite ==
  [cid |-> None, mfspath |-> None, pinning |-> TRUE, source |-> None]
ByPath(p) == [ReadWrite EXCEPT !.mfspath = p]
ByCID(c) == [ReadWrite EXCEPT !.cid = c]
FromSnapshot(s) == [ReadWrite EXCEPT !.source = s]
Unpinned(k) == [k EXCEPT !.pinning = FALSE]

(***************************************************************************)
(* Several owners of one CID: volumes that name it, one of them perhaps    *)
(* with pinning off, and snapshots of a volume whose content it becomes.   *)
(***************************************************************************)
SharedCID == {f1}
SharingClaims ==
  {(v1 :> ReadWrite @@ v2 :> ByCID(SharedCID) @@ v3 :> k) :
     k \in {ByCID(SharedCID), Unpinned(ByCID(SharedCID))}}
MCRemote == {SharedCID}

\* The owners the races are about: one volume by CID, and snapshots.
RaceClaims == {(v1 :> ReadWrite @@ v2 :> ByCID(SharedCID))}

(***************************************************************************)
(* A volume restored from a snapshot of another whose path is spelled in a *)
(* form that needs cleaning, and every way parameters can be refused,      *)
(* beside ones that are accepted.                                          *)
(***************************************************************************)
MixedClaims ==
  {(v1 :> ByPath(sharedRaw) @@ v2 :> k) :
     k \in {FromSnapshot(s1), [FromSnapshot(s1) EXCEPT !.mfspath = outside],
            [FromSnapshot(s1) EXCEPT !.cid = SharedCID]}}
  \cup {(v1 :> ByPath(outside) @@ v2 :> Unpinned(ByCID(SharedCID))),
        (v1 :> ByPath(root)
         @@ v2 :> [FromSnapshot(Unsupported) EXCEPT !.mfspath = outside]),
        (v1 :> ByCID(SharedCID) @@ v2 :> Unpinned(ByCID(SharedCID)))}

\* What NoClobber and RestoreExact are stated for.
ASSUME DistinctAssumption == DistinctVolumes

=============================================================================
