SPECIFICATION Spec
CONSTANTS
  Steps <- MCSteps
  Handlers = {h1}
  Tokens = {t1}
  NoToken = NoToken
  EmptyToken = Empty
  Readings = {"match"}
  Asked = {"resolved"}
  MaxAttempts = 2
PROPERTY RecordOutlivesTheCache
CHECK_DEADLOCK FALSE
