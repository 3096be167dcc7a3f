SPECIFICATION ChannelSpec
CONSTANTS
  Streams = {s1, s2}
  Pushers = {p1}
  Tiers = {1, 2}
  Rests = {0, 1}
  FirstWish <- First
  None = None
  Echoes = TRUE
  QueueLimit = 1
  WireLimit = 1
  MaxChanges = 1
  MaxFailures = 1
PROPERTIES
  TakesEffect
