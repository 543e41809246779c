SPECIFICATION Spec
CONSTANTS
  HostNames <- MCHosts
  UserGroups <- MCGroups
  Sources <- OverUngrouped
  Limits <- MCLimits
  Patterns <- MCPatterns
  HostInfos <- MCHostInfos
  GroupInfos <- MCGroupInfos
  Unknown = Unknown
  Batches <- MCBatches
  MaxDynamic = 2
  MaxAsked = 2
INVARIANT
  KnowsItsGroups
CHECK_DEADLOCK FALSE
