SPECIFICATION LoopSpec
CHECK_DEADLOCK FALSE
CONSTANTS
  pods = pods
  None = None
  Ids = {p1}
  Deciders = {d1, d2}
  Advisors = {a1}
  Tiers = {0, 1}
  Overrides = {pods}
  Changes <- MCChanges
  FirstAccess <- MCFirst
  PendingLimit = 1
  MaxChanges = 2
  MaxFailures = 2
INVARIANTS
  OneDecides
PROPERTIES
  ImplementsProposalLife
  OutcomeArrives
