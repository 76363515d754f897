CONSTANTS
  Nodes = {n1, n2}
  Apps = {1, 2}
  Keys = {1, 2}
  Uuids = {u1, u2, u3, u4}
  Queues <- MCQueues
  Root = "root"
  Leaves <- MCLeaves
  PathTo <- MCPathTo
  QueueMax <- MCQueueMax
  Sizes = {1}
  Capacities = {}
  MaxReports = 0
  MaxCharge = 100
  Placement = FALSE
  ReportsWait = FALSE
  ProposalsFit = FALSE
  ReportsOwn = FALSE
  NoQueue = NoQueue
  NoNode = NoNode
  NoLimit = NoLimit
  AppOf <- MCAppOf
  Feasible <- MCFeasible
  MaySubmit <- MCMaySubmit
  NodeCapacity <- MCTwoUnits
  BatchSize = 2
  Repeats = {2}
  RmMay = {}
  MaxUpdates = 4
  NoKey = NoKey
  AllKeys = AllKeys
  NoUuid = NoUuid
  AllUuids = AllUuids
SPECIFICATION FairCoreSpec
INVARIANT AskConserved
PROPERTIES AppAnswered AsksServed
