SPECIFICATION Spec
CONSTANTS
  Width = 5
  AnyPort = AnyPort
  NoPort = NoPort
  AnyValue = AnyValue
  Ports = {1, 2}
  Flows = {"ip", "door", "net", "web"}
  Attr <- MCAttr
  MaxTasks = 2
  MaxQueue = 1
  MaxPaths = 12
INVARIANTS TypeOK SwitchFollows EdgesTakeRight CountedByOwnPath
CHECK_DEADLOCK FALSE
