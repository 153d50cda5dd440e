SPECIFICATION Spec
CONSTANTS
  Statements <- MCStatements
  WithParams <- MCWithParams
  WithFields <- MCWithFields
  MaxCommands = 3
INVARIANT NoEndAfterError
CHECK_DEADLOCK FALSE
