SPECIFICATION Spec
CONSTANTS
  Requests = {r1, r2}
  Probes = {p1}
  PoolSize = 2
  RetrievalOnLoop = FALSE
  Scripts = {"build_catalog", "reset_catalog"}
  Script = Script
  Free = Free
INVARIANTS NothingHeldByThinkers RebuildNeverDeadlocks
PROPERTIES EverybodyIsAnswered ScriptsEnd
