SPECIFICATION Spec
CONSTANTS
  Steps <- MCSteps
  Handlers = {h1, h2}
  Tokens = {t1}
  NoToken = NoToken
  EmptyToken = Empty
  Readings = {"match"}
  Asked = {"pending", "resolved"}
  MaxAttempts = 2
SYMMETRY Slots
INVARIANTS TypeOK StatusRestsOnEvidence OneAttemptPerToken CriticalIsAgreed NothingSkipped ResolvedActionConfirmed VerifiedMeansRead
CHECK_DEADLOCK FALSE
