SPECIFICATION Spec
CONSTANTS
  Requests = {r1, r2}
  NoRequest = none
  Chooser = chooser
  Lasting = {"create", "use"}
  MaxDeaths = 2
  MaxCloses = 1
  MaxChoosers = 1
INVARIANTS
  TypeOK
  AnswerIsTheUsers
  GrantsAreTheUsers
PROPERTIES
  EveryAskIsAnswered
CHECK_DEADLOCK FALSE
