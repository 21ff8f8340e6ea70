SPECIFICATION Spec
CONSTANTS
  Texts <- MCTexts
  Similarity <- MCSimilarity
  Threshold = 9
  Margin = 3
  Pool = 4
  EfSearch = 4
  Scans = {"index"}
  Results <- MCResults
  Deployments <- MCDeployments
  Handlers = {h1}
  Raised = Raised
  MaxId = 3
  MaxHits = 1
INVARIANTS HitIsDecisive
CHECK_DEADLOCK FALSE
