SPECIFICATION AgentSpec
CONSTANTS
  Tokens = {t1}
  AgentIds = {a1}
  Clusters = {f1}
  Keys = {k1, k2, k3}
  Codes = {c1, c2}
  Secrets = {s1, s2}
  Approvers = {p1}
  Requesters = {r1}
  Renewers = {i1}
  MaxApprovalAttempts = 1
  ImplementedTier = 0
  MaxTier = 0
  CountCap = 1
  None = None
  Instances = {i1}
  GivenToken = t1
  Cluster = f1
  Strays = FALSE
  MaxFaults = 2
INVARIANTS
  KeyNotForgotten
  CodeIsShown
  CertFitsKey
  WaitingIsNotEnded
PROPERTIES
  ApprovalArrives
  EndArrives
