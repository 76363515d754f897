CONSTANTS
  Names <- MCNames
  Root = "root"
  ParentOf <- MCParentOf
  ShortName <- MCShortName
  Parents <- MCParents
  Configs <- MCConfigs
  Capitals = {"root.p"}
  Apps = {a1}
  Submitted = {}
  Placed = {}
  Created = {}
  May = {}
  MaxReloads = 1
  NoName = NoName
SPECIFICATION Spec
INVARIANT ConfigApplied
CHECK_DEADLOCK FALSE
