SPECIFICATION AccessSpec
CONSTANTS
  node = node
  workload = workload
  Setters = {s1, s2}
  Lookups = {l1}
  Facts <- MCFacts
  Level <- MCLevel
  MaxTier = 2
  Implemented = 2
  TokenCap = 2
  FirstTier = 2
  MaxChanges = 2
  MaxFailures = 0
PROPERTIES
  OnlyAdminWidens
