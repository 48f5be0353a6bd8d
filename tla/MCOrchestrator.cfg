SPECIFICATION FairSpec
CONSTANTS
  Aliases <- MCAliases
  SharedJoinAliases <- MCShared
  ComponentId = "componentId"
  TransformOutputs <- MCTransformOutputs
  MaxAttempts = 2
  Numbers = {"58"}
  Question <- MCQuestion
  Readings <- MCReadings
  NamedNumbers <- MCNamed
  RouteDocs <- MCRouteDocs
INVARIANTS
  AcceptedComplete
  NumbersReachAgents
  NothingLeftRunning
PROPERTIES
  NoGuessedEntity
  RequestEnds
CHECK_DEADLOCK FALSE
