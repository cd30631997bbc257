SPECIFICATION Spec
CONSTANTS
  Contents = {rough, full}
  Complete = {full}
  NoContent = NoContent
  MaxTime = 2
  MaxSkew = 1
  MaxOffers = 2
  MaxSaves = 1
INVARIANTS
  OffersAreCoherent
  SubmittedWhatWasRead
PROPERTY KeepsToOffer
CHECK_DEADLOCK FALSE
