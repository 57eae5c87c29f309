SPECIFICATION Spec
CONSTANTS
  Messages <- MCMessages
  Known = {"a", "b"}
INVARIANTS ClosedMeansWhole VerifiedRight ExpectSignedHolds
PROPERTIES ReadsSignedStream WellFormedVerifies AllSettle
CHECK_DEADLOCK FALSE
