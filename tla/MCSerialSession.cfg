SPECIFICATION Spec
CONSTANTS
  Steps <- MCSteps
  Handlers = {h1}
  Tokens = {t1, Empty}
  NoToken = NoToken
  EmptyToken = Empty
  Readings = {"match", "mismatch", "undecided"}
  Asked = {"pending", "resolved", "unresolved", "inconclusive", "abandoned"}
  MaxAttempts = 2
INVARIANTS ReceiptNamesTheFix
PROPERTIES TerminalIsFinal KeepsThePromise
CHECK_DEADLOCK FALSE
