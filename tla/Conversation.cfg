SPECIFICATION ConversationSpec
CONSTANTS
  c1 = c1
  c2 = c2
  d1 = d1
  Ids <- TwoIds
  Sides <- TwoSides
  MaxSent <- Messages
  Switches = {d1}
  SwitchOf <- OneSwitch
  MaxEvents = 1
INVARIANTS
  TypeOK
  RegistryAgrees
  FaultsExplained
  DelayedInOrder
SYMMETRY Ends
CHECK_DEADLOCK FALSE
