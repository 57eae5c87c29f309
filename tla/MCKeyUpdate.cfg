SPECIFICATION FairSpec
CONSTANTS
  early = early
  late = late
  old = old
  other = other
  forged = forged
  Sigs = {early, late, old, other, forged}
  Expired = {old}
  Valid = {early, late}
  Cached = {}
  Foreign = {other}
  Age <- MCAge
  SrcUsers <- TwoAlices
  DstUsers <- Alice
  SrcSubkeys <- SubsAndNew
  DstSubkeys <- TwoSubs
  Focus <- OnEach
INVARIANTS NoDuplicates MergeComplete
PROPERTIES  UpdateSettles
CHECK_DEADLOCK FALSE
