CONSTANTS
  Address = {a1}
  Call = {k1, k2}
  Submission = {s1, s2}
  MaxHeight = 3
  Response <- MCResponse
  Limit = 2
  MaxFailures = 2
  NoAddress = NoAddress
  Lag = 0
  Word = 8
SPECIFICATION HeadSpec
SYMMETRY Symmetry
INVARIANTS HeadTypeOK HeadIsCovered
CHECK_DEADLOCK FALSE
