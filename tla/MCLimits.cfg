CONSTANTS
  ResourceTypes = {"memory", "vcore"}
  QuantityLimit = 16
  NilResource = NilResource
  Queues <- MCQueues
  Root = "root"
  ParentOf <- MCParentOf
  Configs <- MCConfigs
  Total <- MCTotal
  Asks <- MCAsks
  MaxReloads = 1
  MaxProposals = 2
SPECIFICATION Spec
INVARIANTS UsedWithinTotal SelectionsAccepted
CHECK_DEADLOCK FALSE
