SPECIFICATION FairSpec
CONSTANTS
  c1 = c1
  Ids <- OneId
  MaxSent <- Messages
INVARIANTS
  TypeOK
  HarmlessAlone
PROPERTIES
  ImplementsEvents
  ClosedTogether
CHECK_DEADLOCK FALSE
