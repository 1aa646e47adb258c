\* A read-write volume, and one by CID; one node after the other.
CONSTANTS
  v1 = v1  f1 = f1  f2 = f2  a = a  b = b  c1 = c1  c2 = c2  path = path
  None = None
  Unsupported = Unsupported
  Names = {v1}
  Snaps = {}
  Files = {f1, f2}
  Remote = {}
  Paths = {path}
  RawPaths = {path}
  UnderRoot = {path}
  VolumeIDs <- MCVolumeIDs
  sanitizeVolumeID <- MCsanitizeVolumeID
  DefaultPath <- MCDefaultPath
  Below <- MCBelow
  Clean <- MCClean
  Nodes = {a, b}
  Calls = {c1, c2}
  VolumeSet <- BothKinds
  Content <- FirstContent
  Staging = TRUE
  AllowFor <- DataFreedoms
  MaxFaults = 3
  MaxWrites = 2
  MaxPods = 3
SPECIFICATION Spec
SYMMETRY NodeSymmetry
INVARIANTS
  TypeOK
  PodSeesData
  DataKept
PROPERTIES
  ImplementsRegister
CHECK_DEADLOCK FALSE
