CONSTANTS
  Pos = {k1}
  Primary = k1
  Pass = {p1, p2}
  NoPass = NoPass
  AeadProtect = TRUE
  Calls = {c1, c2}
  Original = Original
  Null = Null
SPECIFICATION FairSpec
PROPERTIES CallsSettle
CHECK_DEADLOCK FALSE
