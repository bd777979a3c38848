CONSTANTS
  Slots = 2
  Apart = TRUE
  Events = {"incoming", "group", "timeout", "unregistered", "regerror", "reregister"}
  MaxEvents = 4
CHECK_DEADLOCK FALSE
SPECIFICATION Spec
PROPERTIES RingStops ScreenCloses
