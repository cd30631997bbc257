SPECIFICATION Spec
CONSTANTS
  Commands = {"c1", "c2", "c3"}
  Roster <- People
  Actor <- GivenBy
  Target <- About
  Key <- SentWith
  Kinds = {"policy", "role", "decide", "withdraw"}
INVARIANT TeamCommandsDoNotDeadlock
CHECK_DEADLOCK FALSE
