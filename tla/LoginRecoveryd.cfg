SPECIFICATION Spec
CONSTANTS
  default = default
  noShell = noShell
  noCompositor = noCompositor
  Object <- MCAll
  Valid <- MCAll
  Default = default
  Empty = Empty
  Absent = Absent
  NoSnapshot = NoSnapshot
  GoodCompositor <- MCCompositors
  GoodShell <- MCGood
  CrashLoopThreshold = 5
  MaxRestarts = 1
  Component = {shell}
  Critical = {shell}
  BurstThreshold = 1
  MaxAutoAttempts = 2
  Request = {"normal"}
  Call <- AllCalls
  MaxCalls = 2
  MaxEdits = 0
  MaxFaults = 1
  EditsInSession = TRUE
  InitialStore <- BadTwice
INVARIANTS
  SafeModeSurvives
