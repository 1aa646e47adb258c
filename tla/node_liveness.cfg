\* Explicit failures, then progress.
CONSTANTS
  v1 = v1  f1 = f1  f2 = f2  a = a  b = b  c1 = c1  c2 = c2  path = path
  None = None
  Unsupported = Unsupported
  Names = {v1}
  Snaps = {}
  Files = {f1, f2}
  Remote = {}
  Paths = {path}
  RawPaths = {path}
  UnderRoot = {path}
  VolumeIDs <- MCVolumeIDs
  sanitizeVolumeID <- MCsanitizeVolumeID
  DefaultPath <- MCDefaultPath
  Below <- MCBelow
  Clean <- MCClean
  Nodes = {a}
  Calls = {c1, c2}
  VolumeSet <- ReadWriteOnly
  Content <- FirstContent
  Staging = TRUE
  AllowFor <- RetryFreedoms
  MaxFaults = 2
  MaxWrites = 1
  MaxPods = 2
SPECIFICATION FairSpec
PROPERTIES
  UnstageCompletes
  PodStarts
CHECK_DEADLOCK FALSE
