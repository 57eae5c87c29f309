SPECIFICATION Spec
CONSTANTS
  Unparseable = {"publicKey", "publicSubkey"}
  MaxPackets = 5
INVARIANTS RoundTrip FiledRight
CHECK_DEADLOCK FALSE
