CONSTANTS
  Threads = {t1}
  Slots = 1
  Tsx = {x1, x2}
  Kinds = {"ok", "special"}
  BadSettings = FALSE
  Reorder = TRUE
  Refreshing = TRUE
  Events = {"register", "call", "resume"}
  MaxEvents = 1
CHECK_DEADLOCK FALSE
SPECIFICATION Spec
PROPERTIES FinallyRegistered
