SPECIFICATION Spec
CONSTANTS
  Tokens = {t1}
  AgentIds = {a1}
  Clusters = {f1}
  Keys = {k1, k2}
  Codes = {c1, c2}
  Secrets = {s1}
  Approvers = {p1, p2}
  Requesters = {r1}
  Renewers = {n1}
  MaxApprovalAttempts = 2
  ImplementedTier = 0
  MaxTier = 0
  CountCap = 3
  None = None
SYMMETRY Symmetry
INVARIANTS
  ComparisonsBounded
  ConfirmedByOwnCode
  LeafOnlyWhileApproved
PROPERTIES
  EndIsFinal
  ImplementsLifecycle
