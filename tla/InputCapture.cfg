SPECIFICATION Spec
CONSTANTS
  Sessions = {s1, s2, s3}
  NoSession = none
  Bypassed = TRUE
  Strict = {TRUE, FALSE}
  MaxAsks = 4
  MaxLocks = 0
  MaxDeaths = 1
INVARIANTS
  TypeOK
  OneCapture
  CaptureIsKnown
  OffMeansOff
PROPERTIES
  DisplacedAsAgreed
SYMMETRY SessionSymmetry
CHECK_DEADLOCK FALSE
