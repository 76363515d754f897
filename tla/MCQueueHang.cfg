CONSTANTS
  Names <- MCNames
  Root = "root"
  ParentOf <- MCParentOf
  ShortName <- MCShortName
  Parents <- MCParents
  Configs <- MCConfigs
  Capitals = {}
  Apps = {a1}
  Submitted = {"root.p.c"}
  Placed = {}
  Created = {}
  May = {"submitUnknown"}
  MaxReloads = 0
  NoName = NoName
SPECIFICATION FairSpec
PROPERTY SubmissionsAnswered
CHECK_DEADLOCK FALSE
