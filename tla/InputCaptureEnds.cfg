SPECIFICATION Spec
CONSTANTS
  Sessions = {s1, s2}
  NoSession = none
  Bypassed = TRUE
  Strict = {FALSE}
  MaxAsks = 4
  MaxLocks = 1
  MaxDeaths = 0
PROPERTIES
  CallsEnd
CHECK_DEADLOCK FALSE
