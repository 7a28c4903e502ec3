SPECIFICATION Spec
CONSTANTS
  Caller = {c1, c2}
  FailLimit = 2
  MaxLevel = 2
  Window = 3
  Lockout <- MCLockout
  MaxTime = 8
  MaxFaults = 1
SYMMETRY Symmetry
INVARIANTS
  TypeOK
  LockoutHonoured
  BurstStopped
  DecayIsExact
