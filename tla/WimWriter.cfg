SPECIFICATION FairSpec
CONSTANTS
  NumBlobs = 5
  Workers = {w1, w2}
  NumImages = 2
  BlobLen <- MCBlobLen
  MetaLen <- MCMetaLen
  ChunkLen = 2
INVARIANTS
  EveryBlobAccounted
  HeaderMeansComplete
  IntegrityVerifies
PROPERTIES
  ImplementsSerialLoop
  GrowsOnlyWhenQuiescent
  Returns
CHECK_DEADLOCK FALSE
