SPECIFICATION FairSpec
CONSTANTS
  Events = {e1, poison}
  Poison = {poison}
  Silent = {}
  Users = {u1}
  Pollers = {p1, p2}
  NoEvent = NoEvent
  MaxAttempts = 2
  Limit = 2
  MaxFaults = 3
INVARIANTS
  ExactlyOneEffect
  GivenUpOnlyWhenExhausted
PROPERTIES
  ImplementsExactlyOnce
  EventuallyRetired
CHECK_DEADLOCK FALSE
