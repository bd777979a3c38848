CONSTANTS
  Threads = {t1, t2}
  Slots = 2
  Tsx = {x1, x2, x3}
  Kinds = {"ok", "refused", "temporary"}
  BadSettings = TRUE
  Reorder = FALSE
  Refreshing = TRUE
  Events = {"member", "register", "settings"}
  MaxEvents = 2
SYMMETRY Symmetric
CHECK_DEADLOCK FALSE
SPECIFICATION Safety
INVARIANTS
  TypeOK
  BusyHasTransaction
  RegisteringInProgress
  SlotAlwaysFree
  RegisteredIsBound
PROPERTIES
  ImplementsLogin
