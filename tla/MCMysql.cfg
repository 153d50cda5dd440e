SPECIFICATION FairSpec
CONSTANTS
  Statements <- MCStatements
  WithParams <- MCWithParams
  WithFields <- MCWithFields
  MaxCommands = 4
INVARIANTS TypeOK Routed OneRequest ExecutesPrepared NoSilentFinish
PROPERTIES ImplementsSession EveryCommandFinishes
CHECK_DEADLOCK FALSE
