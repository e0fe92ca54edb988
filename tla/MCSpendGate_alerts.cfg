SPECIFICATION FairSpec
CONSTANTS
  r1 = r1
  r2 = r2
  Requests <- TwoRequests
  Kinds = {"chat"}
  TagSets <- Untagged
  Limit <- Small
  Costs = {4}
  HasNotifier = TRUE
  HasLog = TRUE
  MaxMonth = 0
  MaxCrashes = 1
  MaxFaults = 1
INVARIANTS
  MarkedWasDelivered
  DuplicatesBounded
PROPERTIES
  CrossingAnnounced
