CONSTANTS
  CallIds = {c0, c1}
  FirstCall = c0
  NoCall = none
  RightResponses = {"BUSY", "CANCELED"}
  RegReports = {"REG_ED"}
  GroupLists <- OneList
  Screens = {"ptt"}
  OneLeg = TRUE
  MaxThreads = 0
  MaxInbox = 1
SPECIFICATION Spec
INVARIANTS
  TypeOK
  TalkingIsReal
  HangupReachesCall
  CurrentCallLive
