SPECIFICATION TenantsSpec
CONSTANTS
  Callers = {c1, c2, c3}
  None = None
INVARIANTS
  GoneIsNotWrittenBack
