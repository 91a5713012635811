SPECIFICATION FlowSpec
CONSTANTS
  a1 = a1
  a2 = a2
  c1 = c1
  f1 = f1
  k1 = k1
  A = A
  C = C
  F = F
  K = K
  s1 = s1
  q1 = q1
  q2 = q2
  Paths <- SourceNodes
  Switches = {s1}
  SwitchOf <- OneSwitch
  Queries <- TwoQueries
  Lossy = FALSE
  Nodes <- AllNodes
  Sinks <- SinkNodes
  Parent <- Tree
  Rules <- AllRules
  RuleOf <- RuleMap
  RuleOfQuery <- Asks
INVARIANTS
  FlowTypeOK
  NodesKept
  MappingsKept
  FaultsExplained
CHECK_DEADLOCK FALSE
