CONSTANTS
  CallIds = {c0}
  FirstCall = c0
  NoCall = none
  RightResponses = {"FORBIDDEN"}
  RegReports = {"REG_ED", "REG_ERROR"}
  GroupLists <- Regrouping
  Screens = {"ptt"}
  OneLeg = TRUE
  MaxThreads = 1
  MaxInbox = 1
SPECIFICATION Spec
INVARIANTS FloorNaming
PROPERTIES ReleaseEndsSpeech
