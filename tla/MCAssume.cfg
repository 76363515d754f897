CONSTANTS
  Pods = {p1}
  Nodes = {n1, n2}
  FirstPods = {"absent", "pending", "bound"}
  May = {"nodesChange", "refuse", "deletePod", "missEvents", "updatePod"}
  MaxTries = 3
  MaxEvents = 4
  NoNode = NoNode
SPECIFICATION FairSpec
INVARIANTS AssumeTypeOK PlacedPodsSeen CountsExact
PROPERTY NodesBecomeUsable
CHECK_DEADLOCK FALSE
