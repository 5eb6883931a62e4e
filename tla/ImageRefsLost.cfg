SPECIFICATION Spec
CONSTANTS
  Hash = {h1, h2}
  ZeroHash = zero
  Manifest = manifest
  Payload = {file}
  Hive = hive
  MaxFiles = 2
  MaxRefs = 4
INVARIANT
  EveryPlacementCounted
