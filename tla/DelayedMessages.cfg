SPECIFICATION Spec
CONSTANTS
  c1 = c1
  Ids <- OneId
  MaxSent <- Messages
INVARIANT DelayedMessagesSent
CHECK_DEADLOCK FALSE
