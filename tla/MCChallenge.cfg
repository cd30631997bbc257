SPECIFICATION Spec
CONSTANTS
  Users <- People
  RolesOf <- Positions
  Contents <- Drafts
  MaxTime = 1
  MaxSkew = 1
  MaxVersion = 9
  MaxSaves = 1
  MaxApprovals = 5
INVARIANTS
  ApprovedWhatWasRead
  GatesDecideOnSubmitted
  PublishedIsAccountable
  CatalogueIsCurrent
PROPERTIES
  EvidenceIsKept
  KeepsThePromise
CHECK_DEADLOCK FALSE
