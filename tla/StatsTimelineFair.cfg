SPECIFICATION FairSpec
CONSTANTS
  p1 = p1
  p2 = p2
  s1 = s1
  s2 = s2
  q1 = q1
  q2 = q2
  Paths <- TwoPaths
  Switches <- TwoSwitches
  SwitchOf <- OnOne
  Queries <- TwoQueries
  Lossy = FALSE
PROPERTY QueriesReplied
CHECK_DEADLOCK FALSE
