CONSTANTS
  Nodes = {n1, n2}
  Apps = {a1, a2}
  Uuids = {u1, u2}
  Queues <- MCQueues
  Root = "root"
  Leaves <- MCLeaves
  PathTo <- MCPathTo
  QueueMax <- MCQueueMax
  Sizes = {1}
  Capacities = {1}
  MaxReports = 2
  MaxCharge = 2
  Placement = FALSE
  ReportsWait = TRUE
  ProposalsFit = TRUE
  ReportsOwn = TRUE
  NoQueue = NoQueue
  NoNode = NoNode
  NoLimit = NoLimit
SPECIFICATION Spec
SYMMETRY Symmetry
INVARIANTS TypeOK NodeAccounting AppAccounting UuidUnique NoOrphans QueueAccounting ReleaseNeverFails RootWithinTotal
CHECK_DEADLOCK FALSE
