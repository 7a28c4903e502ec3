SPECIFICATION Spec
CONSTANTS
  cfgA = cfgA
  cfgBad = cfgBad
  default = default
  Object <- MCObject
  Valid <- MCValid
  Default = default
  Empty = Empty
  Absent = Absent
  Proc = {p1, p2}
  MaxOps = 3
  MaxEdits = 1
  MaxFaults = 1
SYMMETRY MCSymmetry
INVARIANTS
  TypeOK
  AllOrNothing
  ResetFallsBackToBaseline
PROPERTIES
  CoarseGrain
