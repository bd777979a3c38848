CONSTANTS
  Slots = 2
  Apart = FALSE
  Events = {"dial", "book", "incoming", "home", "ptt", "group", "timeout", "unregistered", "regerror", "reregister"}
  MaxEvents = 3
CHECK_DEADLOCK FALSE
SPECIFICATION Safety
INVARIANTS TypeOK RingKnown
