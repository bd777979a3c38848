CONSTANTS
  Slots = 3
  Apart = TRUE
  Events = {"dial", "book", "incoming", "home", "timeout", "regerror"}
  MaxEvents = 5
CHECK_DEADLOCK FALSE
SPECIFICATION Safety
INVARIANTS
  RingHasCall
  LiveCallIsKept
