SPECIFICATION LiveSpec
CONSTANTS
  MaxOps = 3
  MaxFaults = 1
  MaxDeaths = 2
INVARIANTS
  TypeOK
  CopiesAgree
  SaverAgrees
PROPERTIES
  SuspendLocks
  ForcedNeedsPam
  DeathLocks
