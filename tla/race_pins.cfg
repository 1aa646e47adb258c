\* Overlapping calls: a reference check and an unpin with a create between.
CONSTANTS
  v1 = v1  v2 = v2  v3 = v3  s1 = s1  s2 = s2  f1 = f1  f2 = f2  c1 = c1  c2 = c2
  None = None
  Unsupported = Unsupported
  Names = {v1, v2}
  Snaps = {s1}
  Files = {f1}
  Calls = {c1, c2}
  Remote <- MCRemote
  VolumeIDs <- MCVolumeIDs
  sanitizeVolumeID <- MCsanitizeVolumeID
  DefaultPath <- MCDefaultPath
  UnderRoot <- MCUnderRoot
  Paths <- MCPaths
  RawPaths <- MCRawPaths
  Below <- MCBelow
  Clean <- MCClean
  SourceOf <- MCSourceOf
  ClaimSet <- RaceClaims
  PinFailurePolicy = "strict"
  SnapshotStore = TRUE
  Overlap = TRUE
  MaxFaults = 0
  MaxWrites = 1
SPECIFICATION Spec
SYMMETRY CallSymmetry
INVARIANTS
  PinSafety
CHECK_DEADLOCK FALSE
