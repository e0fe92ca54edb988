SPECIFICATION Spec
CONSTANTS
  Files <- ShippedPrice
  Environments <- MCEnvironments
  EnvRefs <- MCEnvRefs
  Requests <- MCRequests
  NameOrder <- MCNameOrder
INVARIANTS
  ConfiguredPriceUsed
