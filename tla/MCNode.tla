------------------------------- MODULE MCNode -------------------------------
(***************************************************************************)
(* Instances of NodeService for TLC: one volume at one MFS path.           *)
(***************************************************************************)
EXTENDS NodeService, TLC

CONSTANTS v1, f1, f2, a, b, c1, c2, path

MCsanitizeVolumeID == [n \in Names |-> <<"ipfs-volume", n>>]
MCVolumeIDs == {<<"ipfs-volume", n>> : n \in Names}
MCDefaultPath == [id \in VolumeIDs |-> path]
MCBelow == [p \in Paths |-> {}]
MCClean == [p \in RawPaths |-> p]

ReadWriteVolume ==
  [handle |-> <<"ipfs-volume", v1>>, cid |-> None, mfspath |-> path,
   readonly |-> FALSE, pinning |-> TRUE]
ReadOnlyVolume ==
  [ReadWriteVolume EXCEPT !.cid = {f1, f2}, !.mfspath = None, !.readonly = TRUE]

ReadWriteOnly == {ReadWriteVolume}
BothKinds == {ReadWriteVolume, ReadOnlyVolume}

FirstContent == {f1}

(***************************************************************************)
(* The freedoms the properties survive.  A volume by CID is written by     *)
(* nobody, so it survives abandoned unstages, restarts and stale caches.   *)
(***************************************************************************)
Failures == {"ipfs_error", "mount_error", "publish_timeout"}
DataFreedoms ==
  (ReadWriteVolume :> Failures)
  @@ (ReadOnlyVolume :> Failures \cup {"unstage_timeout", "plugin_restart", "stale_pv"})

\* These are what the proofs about the data ask for.
ASSUME DataAssumption == AllowFor = DataFreedoms => KeepsData /\ OneNodeAtATime

\* The freedoms under which calls still come to an end.
RetryFreedoms ==
  ReadWriteVolume :> Failures \cup {"rm_error", "stage_timeout", "kubelet_restart"}

OnlyKubeletRestart == ReadWriteVolume :> {"kubelet_restart"}

\* Nodes and handler slots are interchangeable.
NodeSymmetry == Permutations(Nodes) \cup Permutations(Calls)

=============================================================================
