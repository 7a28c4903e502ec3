SPECIFICATION Spec
CONSTANTS
  MaxLogins = 4
  MaxQuestions = 2
INVARIANTS
  TypeOK
  OwnConversation
PROPERTIES
  LoginEnds
CHECK_DEADLOCK FALSE
