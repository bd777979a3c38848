CONSTANTS
  CallIds = {c0}
  FirstCall = c0
  NoCall = none
  RightResponses = {"BUSY"}
  RegReports = {"REG_ED"}
  GroupLists <- OneList
  Screens = {"ptt", "other"}
  OneLeg = TRUE
  MaxThreads = 0
  MaxInbox = 1
SPECIFICATION Spec
PROPERTIES KeyInertOnlyInSingleCall
