SPECIFICATION SessionSpec
CONSTANTS
  Streams = {s1, s2, s3}
  None = None
INVARIANTS
  ShownIsThere
  OneSession
  RevokedIsEnding
PROPERTIES
  RevokedLeaves
