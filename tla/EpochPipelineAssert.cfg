SPECIFICATION Spec
CONSTANTS
  m1 = m1
  m2 = m2
  m3 = m3
  m4 = m4
  x1 = x1
  x2 = x2
  Mods <- ThreeMods
  Tracked <- ThreeMods
  Xids <- ThreeMods
  XidOf <- DistinctXids
  Saving = TRUE
  MaxEpochs = 3
INVARIANT DataFilled
CHECK_DEADLOCK FALSE
