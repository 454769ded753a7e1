SPECIFICATION ServicesSpec
CONSTANTS
  Parts = {"hybrid"}
  UnknownField = "confidence"
  Verdictful = {"source_id", "themes", "keywords", "sentiment", "emotions"}
  EmbTexts = {t1, t2, t3}
  EmptyText = empty
  CacheSize = 2
  MaxCalls = 5
  Requests <- SmallRequests
  NoMapping = no_mapping
  Films = {"m1", "m2"}
  VecScore <- SmallVecScore
  Weightings <- SmallWeightings
  Anchors <- SmallAnchors
  MaxAsked = 2
  MaxWeight = 1
  Arms = {baseline, user_heavy}
  Baseline = baseline
  Contexts = {c1, c2}
  MaxPicks = 2
  MaxRewards = 2
  Writers = {w1, w2}
  Sessions = {s1}
  MaxMessages = 3
  MaxTime = 4
  Runners = {r1, r2}
  Samples = {g1, g2, g3}
  WithKeywords = {g1}
  DailySize = 2
  MaxRows = 3
  Operators = {o1, o2}
  Dims = {1024}
  MaxKills = 1
INVARIANT PreferencePersonalizes
CHECK_DEADLOCK FALSE
