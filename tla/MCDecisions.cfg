CONSTANTS
  ResourceTypes = {"memory", "vcore"}
  QuantityLimit = 32
  NilResource = NilResource
  ValidNames = {"alice", "bob.x", "dev", "staff"}
  ValidQueues = {"root", "alice", "bob_dot_x", "prod", "dev", "q", "x_dot_y"}
  Ledgers <- MCLedgers
  Amounts <- MCAmounts
  AmountLimit = 2
  Totals <- MCTotals
  AclTexts <- MCAclTexts
  Users <- MCUsers
  Trees <- MCTrees
  RuleLists <- MCRuleLists
  Submissions <- MCSubmissions
SPECIFICATION Spec
INVARIANTS AccountsReturn ComparisonsAgree SortedFairly AclAsWritten PlacedWithAccess PlacedAgain
CHECK_DEADLOCK FALSE
