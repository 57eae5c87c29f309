SPECIFICATION Spec
CONSTANTS
  Keys <- MCKeys
  Dates = {1, 2, 3, 4}
  Infinity = 9
  RevocationsExpire = FALSE
  RevocationDates = {3}
  MaxRevocations = 1
INVARIANTS SelectionRight HistoryIndependent RevocationHolds ExpirationTimeRight EncryptedStaysDecryptable
