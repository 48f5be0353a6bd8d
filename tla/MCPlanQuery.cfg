SPECIFICATION FairSpec
CONSTANTS
  Aliases <- MCAliases
  SharedJoinAliases <- MCShared
  ComponentId = "componentId"
  TransformOutputs <- MCTransformOutputs
  RouteDrafts <- MCRouteDrafts
INVARIANTS
  PlanExecutable
  NeededOutputsPlanned
  AcceptedRouteSound
PROPERTY PlanningEnds
CHECK_DEADLOCK FALSE
