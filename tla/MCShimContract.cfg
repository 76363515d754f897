CONSTANTS
  Apps = {p1, p2}
  Pods = {p1, p2}
  Nodes = {n1}
  AppOf <- OwnApp
  Refused = {}
  FirstPods <- StartAny
  May = {"deletePod", "missDelete", "bindFails", "coldStore", "timeout", "registerFails", "askRejected", "nodesChange"}
  ChanCap = 3
  TickRoom = 1
  MaxRestarts = 1
  NoNode = NoNode
  NoPod = NoPod
SPECIFICATION ShimSpec
INVARIANTS PodsAccounted AskedOnce
PROPERTY KeepsContract
CHECK_DEADLOCK FALSE
