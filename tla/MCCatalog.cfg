SPECIFICATION Spec
CONSTANTS
  Catalogs <- MCCatalogs
  Operators = {operator}
  Canonicals = {c1, c2}
  Requests = {r1}
  MaxLinks = 2
INVARIANTS TypeOK SnapshotIsOneCatalog HealthOkMeansServed
PROPERTIES HealthOkWasTrue StaleRowsShutNobodyOut
CHECK_DEADLOCK FALSE
