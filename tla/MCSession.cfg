SPECIFICATION Spec
CONSTANTS
  left = left
  right = right
  Tabs <- BothTabs
  Authorizations = {granted}
  Assertions = {verified}
  Workspaces = {home, other}
  Home = home
  Unstable = {other}
  MaxVersion = 2
  MaxFaults = 1
PROPERTIES
  AuthorizedAtCommit
  ResendIsHarmless
  KeepsToFamily
SYMMETRY TabSymmetry
CHECK_DEADLOCK FALSE
