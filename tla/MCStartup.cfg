SPECIFICATION Spec
CONSTANTS
  Files <- MCFiles
  Environments <- MCEnvironments
  EnvRefs <- MCEnvRefs
  Requests <- MCRequests
  NameOrder <- MCNameOrder
INVARIANTS
  TypeOK
  ServingIsWired
  RoutingSound
  RoutesSurviveRestart
