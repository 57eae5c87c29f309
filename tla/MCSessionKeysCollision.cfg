SPECIFICATION Spec
CONSTANTS
  s1 = s1
  s2 = s2
  p1 = p1
  p2 = p2
  Guess = guess
  Empty = empty
  Stranger = stranger
  Slots = {s1, s2}
  Password <- TwoPasswords
  Keys = {k1}
  Wildcard = FALSE
  Calls = {c1}
  Overlapping = FALSE
  CollisionCheck = TRUE
  AeadProtect = FALSE
  ConstantTime = FALSE
  AlgoAccepted = TRUE
  MaxTries = 2
INVARIANTS EveryPasswordOpens
CHECK_DEADLOCK FALSE
