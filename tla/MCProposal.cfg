SPECIFICATION Spec
CONSTANTS
  Contents = {rough, full}
  Complete = {full}
  MaxTime = 2
  MaxSkew = 1
  MaxWait = 1
  GrantDuration = 1
  MaxPatches = 2
INVARIANTS
  HistoryIsChain
  NoLostUpdate
  GrantTracksHandedIn
  OpenRequestsCiteGranted
  EvidenceMatchesState
  HandedInOnTime
PROPERTY FollowsLifecycle
CHECK_DEADLOCK FALSE
