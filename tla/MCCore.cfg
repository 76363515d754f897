CONSTANTS
  Nodes = {n1}
  Apps = {1}
  Keys = {1}
  Uuids = {u1, u2, u3, u4, u5, u6}
  Queues <- MCQueues
  Root = "root"
  Leaves <- MCLeaves
  PathTo <- MCPathTo
  QueueMax <- MCQueueMax
  Sizes = {1}
  Capacities = {}
  MaxReports = 0
  MaxCharge = 100
  Placement = FALSE
  ReportsWait = FALSE
  ProposalsFit = FALSE
  ReportsOwn = FALSE
  NoQueue = NoQueue
  NoNode = NoNode
  NoLimit = NoLimit
  AppOf <- MCAppOf
  Feasible <- MCFeasible
  MaySubmit <- MCMaySubmit
  NodeCapacity <- MCTwoUnits
  BatchSize = 2
  Repeats = {1, 2}
  RmMay = {"askEarly", "askAgain", "releaseAsk", "releaseAlloc", "releaseAll", "removeApp", "submitAgain"}
  MaxUpdates = 4
  NoKey = NoKey
  AllKeys = AllKeys
  NoUuid = NoUuid
  AllUuids = AllUuids
SPECIFICATION CoreSpec
INVARIANTS CoreTypeOK PendingAccounting AppInOnePlace RmViewConsistent
PROPERTY CacheContractKept
