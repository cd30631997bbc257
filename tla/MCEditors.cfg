SPECIFICATION EditorsSpec
CONSTANTS
  one = one
  two = two
  Tabs <- BothTabs
  MaxChanges = 2
  MaxIncidents = 4
  MaxOfChallenge = 2
  Nothing = Nothing
INVARIANTS
  SavedMeansStored
  TypedIsHandedIn
  NothingIsStuck
PROPERTIES
  UnstoredIsKept
  FormsOverwriteNothing
SYMMETRY TabSymmetry
CHECK_DEADLOCK FALSE
