CONSTANTS
  CallIds = {c0, c1}
  FirstCall = c0
  NoCall = none
  RightResponses = {"BUSY"}
  RegReports = {"REG_ED"}
  GroupLists <- OneList
  Screens = {"ptt"}
  OneLeg = FALSE
  MaxThreads = 0
  MaxInbox = 1
SPECIFICATION Spec
PROPERTIES InviteAnswered
