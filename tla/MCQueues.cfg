CONSTANTS
  Names <- MCNames
  Root = "root"
  ParentOf <- MCParentOf
  ShortName <- MCShortName
  Parents <- MCParents
  Configs <- MCConfigs
  Capitals = {}
  Apps = {a1, a2}
  Submitted = {"root.p.c"}
  Placed = {"root.p.c", "root.p.u"}
  Created = {"root.p.u"}
  May = {}
  MaxReloads = 2
  NoName = NoName
SPECIFICATION CleanedSpec
INVARIANTS QueueTypeOK AppsFindable ConfigApplied ChargesReturn
PROPERTY EmptyQueuesGo
CHECK_DEADLOCK FALSE
