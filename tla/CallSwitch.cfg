CONSTANTS
  Slots = 2
  Apart = TRUE
  Events = {"incoming", "group"}
  MaxEvents = 2
CHECK_DEADLOCK FALSE
SPECIFICATION Safety
INVARIANTS EndedIsOver
