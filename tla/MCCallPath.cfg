SPECIFICATION Spec
CONSTANTS
  r1 = r1
  r2 = r2
  p1 = p1
  p2 = p2
  p3 = p3
  NoProvider = NoProvider
  Requests <- TwoRequests
  Providers <- ThreeProviders
  Registered <- TwoProviders
  Fallback = p2
  MaxAttempts <- MCMaxAttempts
  RetryOn5xx = {p1}
  RetryOnTimeout = {}
  PolicyOf <- MCPolicyOf
  FailureCap = 2
SYMMETRY RequestSymmetry
INVARIANTS
  TypeOK
  ProbeSlotHasOwner
  TrippedSheds
  BoundedCalls
  OpenHasFailedCall
PROPERTIES
  NoWastedCall
  ImplementsFailover
