SPECIFICATION Spec
CONSTANTS
  Steps <- MCSteps
  Handlers = {h1, h2}
  Tokens = {t1}
  NoToken = NoToken
  EmptyToken = Empty
  Readings = {"match"}
  Asked = {"resolved"}
  MaxAttempts = 1
PROPERTY TerminalIsFinal
CHECK_DEADLOCK FALSE
