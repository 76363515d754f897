CONSTANTS
  Apps = {a1}
  Pods = {p1}
  Nodes = {n1}
  AppOf <- OneApp
  Refused = {}
  FirstPods <- StartEmpty
  May = {"deletePod"}
  ChanCap = 12
  TickRoom = 0
  MaxRestarts = 0
  NoNode = NoNode
  NoPod = NoPod
SPECIFICATION FairShimSpec
PROPERTY DeletedPodReleased
CHECK_DEADLOCK FALSE
