SPECIFICATION Spec
CONSTANTS
  default = default
  noShell = noShell
  noCompositor = noCompositor
  Object <- MCAll
  Valid <- MCAll
  Default = default
  Empty = Empty
  Absent = Absent
  NoSnapshot = NoSnapshot
  GoodCompositor <- MCCompositors
  GoodShell <- MCGood
  CrashLoopThreshold = 5
  MaxRestarts = 1
  Component = {shell}
  Critical = {shell}
  BurstThreshold = 1
  MaxAutoAttempts = 2
  Request = {"normal", "recovery"}
  Call <- NoCall
  MaxCalls = 0
  MaxEdits = 2
  MaxFaults = 2
  EditsInSession = TRUE
  InitialStore <- WithSafe
INVARIANTS
  TypeOK
  CrashLoopEscalates
  HealthyIsEarned
  FailedNotRepeated
  ConfirmedIsKept

PROPERTIES
  KeepsLedger
