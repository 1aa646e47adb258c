------------------------------ MODULE MCCluster -----------------------------
(***************************************************************************)
(* Instances of Cluster for TLC: one volume, a snapshot of it.             *)
(***************************************************************************)
EXTENDS Cluster, TLC

CONSTANTS v1, s1, f1, f2, c1, c2, n1, n2, a, b

MCVolumeIDs == {<<"ipfs-volume", n>> : n \in Names}
MCsanitizeVolumeID == [n \in Names |-> <<"ipfs-volume", n>>]
MCDefaultPath == [id \in VolumeIDs |-> <<"csi", id[2]>>]
MCPaths == {<<"csi", n>> : n \in Names} \cup {<<"csi">>}
MCBelow == [p \in Paths |-> IF p = <<"csi">> THEN Paths \ {p} ELSE {}]
MCClean == [p \in RawPaths |-> p]
MCSourceOf == [s \in Snaps |-> v1]

(***************************************************************************)
(* The volume is either snapshotted or restored from a snapshot.           *)
(***************************************************************************)
ReadWrite ==
  [cid |-> None, mfspath |-> None, pinning |-> TRUE, source |-> None]
Snapshotted == v1 :> ReadWrite
Restored == v1 :> [ReadWrite EXCEPT !.source = s1]
SnapshottedOrRestored == {Snapshotted, Restored}
SnapshottedOnly == {Snapshotted}

MCSnapshotContent == {f1, f2}
MCRemote == {MCSnapshotContent}

CallSymmetry == Permutations(ControllerCalls)

\* The patient and the hasty.
Both == {{}, Hastes}
DeleteEarly == {{"delete"}}

=============================================================================
