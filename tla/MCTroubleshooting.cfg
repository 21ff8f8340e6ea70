SPECIFICATION Spec
CONSTANTS
  Texts <- MCTexts
  Similarity <- MCSimilarity
  Threshold = 9
  Margin = 3
  Pool = 4
  EfSearch = 4
  Scans = {"exact"}
  Results <- MCResults
  Deployments <- MCDeployments
  Handlers = {h1, h2}
  Raised = Raised
  MaxId = 2
  MaxHits = 1
SYMMETRY Slots
INVARIANTS TypeOK ServedIsAllowed CacheIsConsistent HitsMatchMetrics HitIsDecisive
CHECK_DEADLOCK FALSE
