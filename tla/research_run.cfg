SPECIFICATION FairRunSpec
CONSTANTS
  Providers = {p1, p2}
  Jobs = {j1, j2}
  Agents = {entity, a1, b1, validator, synthesis}
  Route <- Routes
  Cost <- UnitCost
  Threshold = 2
  MaxCalls = 2
  MaxTokens = 2
  Nobody = Nobody
  Entity = entity
  Collection = {a1}
  Analysis = {b1}
  Validator = validator
  Synthesis = synthesis
  Enriched = {a1, b1}
  MaxConcurrency = 2
  p1 = p1
  p2 = p2
INVARIANTS
  RunTypeOK
  BlockedIffFailing
  OutageIsCheap
  ReportIsValidated
PROPERTY
  RunEnds
