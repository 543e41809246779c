SPECIFICATION Spec
CONSTANTS
  HostNames <- MCHosts
  UserGroups <- MCGroups
  Sources <- MCSources
  Limits <- MCLimits
  Patterns <- MCPatterns
  HostInfos <- MCHostInfos
  GroupInfos <- MCGroupInfos
  Unknown = Unknown
  Batches <- MCBatches
  MaxDynamic = 2
  MaxAsked = 2
INVARIANTS
  CachesFresh
  KnowsItsGroups
  ChildrenAreDeeper
  AnswersAreTrue
PROPERTY
  RefreshRestores
CHECK_DEADLOCK FALSE
