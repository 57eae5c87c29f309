SPECIFICATION Spec
CONSTANTS
  s1 = s1
  s2 = s2
  p1 = p1
  p2 = p2
  Guess = guess
  Empty = empty
  Stranger = stranger
  Slots = {s1}
  Password <- OnePassword
  Keys = {k1, k2}
  Wildcard = TRUE
  Calls = {c1, c2}
  Overlapping = FALSE
  CollisionCheck = FALSE
  AeadProtect = FALSE
  ConstantTime = TRUE
  AlgoAccepted = TRUE
  MaxTries = 1
INVARIANTS TypeOK RightSecretDecrypts PlainOnlyWithSecret
SYMMETRY Symmetry
CHECK_DEADLOCK FALSE
