------------------------------ MODULE CsiTypes ------------------------------
(***************************************************************************)
(* The data shared by every part of csi-driver-ipfs: content identifiers,  *)
(* MFS paths, the volume attributes that travel through the                *)
(* PersistentVolume, and the two conversions the controller applies to     *)
(* names and paths.                                                        *)
(***************************************************************************)
EXTENDS Naturals, Sequences, FiniteSets

CONSTANTS
  Names,            \* CSI volume names, one per PVC (and per PV object)
  Snaps,            \* CSI snapshot names, one per VolumeSnapshotContent
  VolumeIDs,        \* the volume IDs (PV volumeHandles) names are turned into
  Files,            \* the files a volume's tree can hold
  Paths,            \* MFS paths in clean form
  RawPaths,         \* MFS paths as a StorageClass may spell them
  Below,            \* [Paths -> SUBSET Paths], what lies inside a directory
  UnderRoot,        \* the clean paths accepted: the configured MFS root and
                    \* what is below it (for the root "/", only itself)
  Clean,            \* path.Clean plus the leading slash, [RawPaths -> Paths]
  sanitizeVolumeID, \* [Names -> VolumeIDs]; lossy, so not one-to-one
  DefaultPath,      \* MFSRoot + "/" + sanitized name, [VolumeIDs -> Paths]
  None,             \* "", nil or an absent object
  Unsupported       \* a content source that is no snapshot

(***************************************************************************)
(* A CID names its content and nothing else, so it is the content: a       *)
(* directory is the set of files in it.  (Enumerated, so that TLC can      *)
(* compare its members with None.)                                         *)
(***************************************************************************)
CIDs == {d : d \in SUBSET Files}
EmptyDir == {}

ASSUME PathAssumption ==
  /\ Paths \subseteq RawPaths
  /\ UnderRoot \subseteq Paths
  /\ Clean \in [RawPaths -> Paths]
  /\ \A p \in Paths : Clean[p] = p
  /\ sanitizeVolumeID \in [Names -> VolumeIDs]
  /\ DefaultPath \in [VolumeIDs -> Paths]

\* A directory is not inside itself, and holds what the ones inside it hold.
ASSUME NestingAssumption ==
  /\ Below \in [Paths -> SUBSET Paths]
  /\ \A p \in Paths : p \notin Below[p]
  /\ \A p \in Paths : \A q \in Below[p] : Below[q] \subseteq Below[p]

\* Neither path is the other or inside it.
Apart(p, q) == p # q /\ p \notin Below[q] /\ q \notin Below[p]

ASSUME NoneAssumption ==
  /\ None \notin CIDs
  /\ None \notin RawPaths
  /\ None \notin VolumeIDs
  /\ Unsupported # None
  /\ Unsupported \notin CIDs

ASSUME ObjectAssumption ==
  /\ IsFiniteSet(Names)
  /\ IsFiniteSet(Snaps)
  /\ Names \cap Snaps = {}

\* Mutant: cleaned, but not checked.
normalizeMFSPath_unchecked(raw) == Clean[raw]

(***************************************************************************)
(* normalizeMFSPath: the clean form of a path, refused (None) when it is   *)
(* not the root itself or below it.                                        *)
(***************************************************************************)
normalizeMFSPath(raw) ==
  IF Clean[raw] \in UnderRoot THEN Clean[raw] ELSE None

(***************************************************************************)
(* What the driver's volume context says of a volume, as the PV's          *)
(* spec.csi holds it.                                                      *)
(***************************************************************************)
VolumeAttributes ==
  [handle   : VolumeIDs,
   cid      : CIDs \cup {None},
   mfspath  : RawPaths \cup {None},
   readonly : BOOLEAN,
   pinning  : BOOLEAN]

\* An absent object is not an object.
ASSUME AttributesAssumption == None \notin VolumeAttributes

=============================================================================
