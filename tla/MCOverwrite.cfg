SPECIFICATION EditorsSpec
CONSTANTS
  one = one
  two = two
  Tabs <- BothTabs
  MaxChanges = 2
  MaxIncidents = 4
  MaxOfChallenge = 2
  Nothing = Nothing
PROPERTY NothingIsOverwritten
SYMMETRY TabSymmetry
CHECK_DEADLOCK FALSE
