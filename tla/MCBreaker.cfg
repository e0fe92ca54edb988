SPECIFICATION FairSpec
CONSTANTS
  c1 = c1
  c2 = c2
  c3 = c3
  Callers <- MCCallers
  Streaming <- MCStreaming
  Categories <- BothCategories
  TripOn <- BothCategories
  FailureThreshold = 2
  CooldownDuration = 2
  FailureCap = 4
INVARIANTS
  TypeOK
  StateConsistent
  LoadShed
  OneProbePerTrip
  SlotHasOwner
PROPERTIES
  ClosedByProbeOrStale
  ProbeResolves
  Recovery
