SPECIFICATION Spec
CONSTANTS
  Requests = {r1, r2, r3, r4}
  NoRequest = none
  MaxLocks = 1
INVARIANTS
  TypeOK
  AnsweredOnce
  AskedForSomeone
SYMMETRY RequestSymmetry
CHECK_DEADLOCK FALSE
