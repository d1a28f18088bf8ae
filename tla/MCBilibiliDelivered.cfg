CONSTANTS
  Output = {d1, d2}
  NoOutput = none
  MaxCheckVersion = 5
SPECIFICATION BiliSpec
INVARIANTS DeliveredNoticeReconciles
CHECK_DEADLOCK FALSE
