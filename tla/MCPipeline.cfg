SPECIFICATION Spec
CONSTANTS
  Models = 2
  MaxAttempts = 2
  Catalogs <- MCCatalogs
  Plans <- MCPlans
  Distinctive = {"wifi"}
  NoLink = NoLink
  NoRow = NoRow
  TopK = 2
  Fetch = 2
  RrfK = 60
  DenseWeight = 10
  SparseWeight = 8
  Scale = 3782
INVARIANTS TypeOK BuiltPlansBreakNoRule LinksNameTheScreen GivesUpOnlyAfterEveryTry
PROPERTIES MissedOnlyWhenOutranked RunEnds
CHECK_DEADLOCK FALSE
