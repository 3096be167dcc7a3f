SPECIFICATION Spec
CONSTANTS
  Tokens = {t1, t2}
  AgentIds = {a1, a2}
  Clusters = {f1}
  Keys = {k1}
  Codes = {c1}
  Secrets = {s1}
  Approvers = {p1, p2}
  Requesters = {}
  Renewers = {}
  MaxApprovalAttempts = 1
  ImplementedTier = 1
  MaxTier = 1
  CountCap = 1
  None = None
SYMMETRY Symmetry
INVARIANTS
  OneApprovedPerCluster
  TokenSpentOnce
  TierWithinLimits
