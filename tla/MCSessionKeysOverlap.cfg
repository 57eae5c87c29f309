SPECIFICATION FairSpec
CONSTANTS
  s1 = s1
  s2 = s2
  p1 = p1
  p2 = p2
  Guess = guess
  Empty = empty
  Stranger = stranger
  Slots = {s1}
  Password <- OnePassword
  Keys = {k1}
  Wildcard = FALSE
  Calls = {c1, c2}
  Overlapping = TRUE
  CollisionCheck = TRUE
  AeadProtect = FALSE
  ConstantTime = FALSE
  AlgoAccepted = TRUE
  MaxTries = 1
INVARIANTS DeliveredOnce
PROPERTIES PlainDelivered
CHECK_DEADLOCK FALSE
