SPECIFICATION ServerSpec
CONSTANTS
  Servers = {"admin", "next", "branch"}
  Files <- MCFiles
  Failing = {"x"}
  ReaderRole = {"next", "branch"}
  MaxStarts <- MCStarts
  NoServer = NoServer
INVARIANTS
  ServingReady
  SchemaIsPrefix
  DriversReleased
CHECK_DEADLOCK FALSE
