CONSTANTS
  Apps = {p1, p2}
  Pods = {p1, p2}
  Nodes = {n1}
  AppOf <- OwnApp
  Refused = {p2}
  FirstPods <- StartServed
  May = {"deletePod"}
  ChanCap = 12
  TickRoom = 1
  MaxRestarts = 0
  NoNode = NoNode
  NoPod = NoPod
SPECIFICATION FairShimSpec
INVARIANTS AllocationsOwned ReleasesNameOne
PROPERTIES PodServed BoundPodReleased
CHECK_DEADLOCK FALSE
