SPECIFICATION Spec
CONSTANTS
  m1 = m1
  m2 = m2
  m3 = m3
  m4 = m4
  x1 = x1
  x2 = x2
  Mods <- FourMods
  Tracked <- TrackedMods
  Xids <- XidSet
  XidOf <- SharedXids
  Saving = TRUE
  MaxEpochs = 3
INVARIANTS
  TypeOK
  PlannedBeforeRelease
  FaultsExplained
PROPERTIES
  LagNeverShrinks
  ImplementsChannel
  ImplementsWakeLoop
CHECK_DEADLOCK FALSE
