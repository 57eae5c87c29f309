CONSTANTS
  Pos = {k1, k2}
  Primary = k1
  Pass = {p1}
  NoPass = NoPass
  AeadProtect = FALSE
  Calls = {c1, c2}
  Original = Original
  Null = Null
SPECIFICATION Spec
SYMMETRY Symmetry
INVARIANTS ParamsMatchFlag LockedKeyOpens
PROPERTIES SecretsKept InputUntouched
CHECK_DEADLOCK FALSE
