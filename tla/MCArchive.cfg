SPECIFICATION Spec
CONSTANTS
  Commands = {"c1", "c2", "c3"}
  Roster <- People
  Actor <- GivenBy
  Target <- About
  Key <- SentWith
  Kinds = {"proposal", "upload", "verify", "archive"}
PROPERTIES
  ArchivedTeamsAuthorizeNothing
CHECK_DEADLOCK FALSE
