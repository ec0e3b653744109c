SPECIFICATION IncomingSpec
CONSTANTS
  Daemons = {d1, d2, d3}
  Feeds = {f1}
  Unlicensed = {}
  None = None
  d1 = d1
  d2 = d2
  d3 = d3
  f1 = f1
  Batch = 2
  Lease = 2
  Interval = 2
  Retry = 2
  MaxVersions = 2
  MaxCrashes = 1
  MaxFaults = 1
  MaxRegistrations = 1
  Instruments = {"x"}
  Attempts = {1, 2}
  Callbacks = {1, 2}
  Overlays = {1}
  Nothing = Nothing
  Unknown = Unknown
  StateTtl = 1
  SubscriptionTtl = 1
  Fresh = 0
  Stale = 1
  Day = 2
  LastTick = 2
  MaxQuoteFaults = 1
  Uris = {"d1", "d2", "page", "bars"}
  Attachments = {"d1", "d2"}
  Pages = {"d1", "page"}
  Bars = "bars"
  Ingestors = {"i1", "i2"}
  Analyses = {"a1", "a2"}
  Scenes <- EvidenceScenes
  EventLimit = 1
  EnoughPages = 1
  MaxReadings = 1
  MaxKills = 1
SYMMETRY Symmetry
INVARIANTS
  FeedInv
  ValidatorIsIngested
  QuotesAreTrue
  EvidenceIsWhole
  ReportsAreOfOneVersion
CHECK_DEADLOCK FALSE
