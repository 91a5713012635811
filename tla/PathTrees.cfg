SPECIFICATION Spec
CONSTANTS
  s = s
  t = t
  p1 = p1
  p2 = p2
  p3 = p3
  p4 = p4
  a = a
  b = b
  c = c
  AnyPort = AnyPort
  NoPort = NoPort
  Ports = {p1, p2, p3, p4}
  Headers = {a, b, c}
  Switches = {s, t}
  Home <- MCHome
  Flows = {"low", "high", "ask", "far", "near"}
  Attr <- MCAttr
  Cables <- MCCables
  Deletions <- MCDeletions
  MaxTasks = 2
INVARIANTS TypeOK PathsFollowTables EdgesFollowTables TreesOfGraph
CHECK_DEADLOCK FALSE
