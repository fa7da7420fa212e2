CONSTANTS
  HashBits = 1
  ZoomBits = 1
  PosHash <- tile_hash
  CacheKey <- cache_key
  MaxParams = 2
  Servers = {s1, s2}
  Urls <- MCUrls
  OldTiles <- MCOldTiles
  MayFail <- MCMayFail
  RenderingEnabled = TRUE
  NumWorkers = 1
  MinBatch = 2
  CacheSize = 1
  MaxRequests = 3

SPECIFICATION FairSpec

INVARIANTS
  TypeOK
  AnswerMatchesRequest
  StoredIsServed
  ResultAwaited

PROPERTY
  RequestsAnswered
