SPECIFICATION AccessSpec
CONSTANTS
  node = node
  workload = workload
  Setters = {s1}
  Lookups = {l1, l2}
  Facts <- MCFacts
  Level <- MCLevel
  MaxTier = 2
  Implemented = 2
  TokenCap = 1
  FirstTier = 1
  MaxChanges = 2
  MaxFailures = 2
INVARIANTS
  WithinGrant
  ConsentAgrees
PROPERTIES
  NarrowedInTheEnd
  CeilingIsKnown
