SPECIFICATION EditSpec
CONSTANTS
  Hash = {h1, h2}
  ZeroHash = zero
  Manifest = manifest
  Payload = {folder}
  Hive = hive
  MaxFiles = 2
  MaxRefs = 4
  Blob = {a, b, nobytes}
  NoBytes = nobytes
  Refused = refused
  Rest = rest
  MaxImages = 2
  MaxEdits = 2
  MaxWrites = 2
INVARIANTS
  TableCoversTree
  NewBlobsReturned
  NeverUndercounts
  ReinstallKeepsCounts
  WritesTellTheTruth
PROPERTIES
  RemovalIsExact
CHECK_DEADLOCK FALSE
