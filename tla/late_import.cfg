\* The claim is deleted while a node still unstages the volume.
CONSTANTS
  v1 = v1  s1 = s1  f1 = f1  f2 = f2  c1 = c1  c2 = c2  n1 = n1  n2 = n2  a = a  b = b
  None = None
  Unsupported = Unsupported
  Names = {v1}
  Snaps = {s1}
  Files = {f1, f2}
  Remote <- MCRemote
  VolumeIDs <- MCVolumeIDs
  sanitizeVolumeID <- MCsanitizeVolumeID
  DefaultPath <- MCDefaultPath
  UnderRoot <- MCPaths
  Paths <- MCPaths
  RawPaths <- MCPaths
  Below <- MCBelow
  Clean <- MCClean
  Vol = v1
  SnapshotContent <- MCSnapshotContent
  SourceOf <- MCSourceOf
  ClaimSet <- SnapshottedOnly
  PinFailurePolicy = "strict"
  SnapshotStore = TRUE
  ControllerCalls = {c1, c2}
  NodeCalls = {n1}
  Nodes = {a}
  NodeAllow = {}
  HasteSet <- DeleteEarly
  MaxFaults = 0
  MaxWrites = 1
  MaxPods = 2
SPECIFICATION Spec
SYMMETRY CallSymmetry
INVARIANTS
  TreeRemoved
CHECK_DEADLOCK FALSE
