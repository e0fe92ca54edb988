SPECIFICATION Spec
CONSTANTS
  k1 = k1
  k2 = k2
  k3 = k3
  t1 = t1
  t2 = t2
  body = body
  None = None
  Keys <- MCKeys
  Threads <- MCThreads
  Values <- MCValues
  TTL = 1
  MaxKeys = 2
  MaxTime = 4
SYMMETRY Symmetry
INVARIANTS
  TypeOK
  BoundedAndFresh
PROPERTIES
  LiveEntriesKept
  ImplementsTTLCache
