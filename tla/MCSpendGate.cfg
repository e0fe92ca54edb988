SPECIFICATION Spec
CONSTANTS
  r1 = r1
  r2 = r2
  Requests <- TwoRequests
  Kinds = {"chat", "media", "embedding"}
  TagSets <- AllTags
  Limit <- AllLimits
  Costs = {3}
  HasNotifier = TRUE
  HasLog = TRUE
  MaxMonth = 1
  MaxCrashes = 0
  MaxFaults = 0
SYMMETRY Symmetry
INVARIANTS
  TypeOK
  OvershootBounded
  AlertsAreTrue
