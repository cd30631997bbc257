SPECIFICATION Spec
CONSTANTS
  Commands = {"c1", "c2", "c3"}
  Roster <- People
  Actor <- GivenBy
  Target <- About
  Key <- SentWith
  Kinds = {"challenge", "proposal", "upload", "archive", "role", "decide", "withdraw"}
INVARIANTS
  OneWinner
  SomeoneWins
  SentAgainIsHarmless
PROPERTIES
  LoserIsToldTheTruth
  EveryCommandAnswered
CHECK_DEADLOCK FALSE
