SPECIFICATION RegistrySpec
CONSTANTS
  g1 = g1
  g2 = g2
  p1 = p1
  p2 = p2
  lenient = lenient
  strict = strict
  None = None
  Goroutines <- MCGoroutines
  Providers <- MCProviders
  Policies <- MCPolicies
  DefaultPolicy = lenient
  MaxBreakers = 4
SYMMETRY Symmetry
INVARIANTS
  CurrentPolicy
  OutcomeReachesGate
