SPECIFICATION CatalogSpec
CONSTANTS
  Uris = {"d1", "d2", "page", "bars"}
  Attachments = {"d1", "d2"}
  Pages = {"d1", "page"}
  Bars = "bars"
  Ingestors = {"i1", "i2"}
  Analyses = {"a1", "a2"}
  Scenes <- MCScenes
  EventLimit = 1
  EnoughPages = 1
  MaxReadings = 1
  MaxKills = 0
INVARIANTS
  AnalysesAreSaved
CHECK_DEADLOCK FALSE
