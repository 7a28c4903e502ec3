SPECIFICATION Spec
CONSTANTS
  Requests = {r1}
  NoRequest = none
  MaxLocks = 0
PROPERTIES
  PendingTimesOut
CHECK_DEADLOCK FALSE
