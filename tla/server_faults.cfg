CONSTANTS
  Address = {a1}
  Call = {k1, k2}
  Submission = {s1, s2}
  MaxHeight = 4
  Response <- MCResponse
  Limit = 2
  MaxFailures = 2
  NoAddress = NoAddress
SPECIFICATION FairSpec
INVARIANTS TypeOK NodeImpliesRow ImportIsNew QuietMeansEqual HeadsMeet
PROPERTIES ScanningResumes RescanRecovers NeedScanSettles
CHECK_DEADLOCK FALSE
