SPECIFICATION Spec
CONSTANTS
  ann = ann
  bob = bob
  cem = cem
  NoUser = NoUser
  Users <- People
  Emailed <- Invitable
  InvitationLife = 1
  RequestLife = 1
  MaxAsks = 2
  MaxTime = 1
INVARIANTS
  ConstraintsNeverRefuse
  MembershipsAreConsented
PROPERTIES
  CutOffStaysOut
SYMMETRY Alike
CHECK_DEADLOCK FALSE
