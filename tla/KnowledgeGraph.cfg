SPECIFICATION KGSpec
CONSTANTS
  Terms <- SmallTerms
  Lower <- SmallLower
  Library <- SmallLibrary
  Catalog = {"love"}
  Cosine <- SmallCosine
  MinCount = 2
  Promoters = {p1, p2}
  MaxBatchFaults = 1
  MaxMonths = 1
  Payloads <- SmallPayloads
  Payload <- SmallPayload
  NoPayload = "none"
  Times = {1, 2}
  KwKinds <- SmallKwKinds
  Loaders = {l1, l2}
  PipelineLoaders = {l1}
  Workloads <- SmallWorkloads
INVARIANTS
  KGTypeOK
  StandardIsExplained
  PromotedIsDistinct
  RelationsAreUnion
  NoDanglingMovie
  RedeliveryIsIdempotent
  StubsAwaitTheirFeeds
  MoviesUseTheLibrary
  UnknownTermsSurvive
PROPERTY
  ReadyIsDecided
CHECK_DEADLOCK FALSE
