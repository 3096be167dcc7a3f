SPECIFICATION OperatorsSpec
CONSTANTS
  a1 = a1
  o1 = o1
  o2 = o2
  None = None
  Outside = Outside
  Ops = {o1, o2}
  Intents = {i1, i2}
  Agents = {a1}
  AgentOf <- MCAgentOf
  Existing = {o1}
  Callers = {c1, c2}
  MaxChain = 3
  Slots = 1
  MaxRequests = 3
  MaxFailures = 1
INVARIANTS
  NoOrphans
  OneActiveIntent
  CertsOfActive
  KeyForgotten
  NoCircle
PROPERTIES
  CallsReturn
CHECK_DEADLOCK FALSE
