SPECIFICATION ControllerSpec
CONSTANTS
  Names = {1, 2}
  Specs = {keeps, purges, beyond}
  Unreadable = {}
  Refused = {beyond}
  Purging = {purges}
  Tokens = {t}
  Charts = {v, w}
  None = None
  MaxChanges = 3
  MaxFailures = 1
INVARIANTS
  InstalledIsHeld
  NoneIsForgotten
PROPERTIES
  Converges
CHECK_DEADLOCK FALSE
