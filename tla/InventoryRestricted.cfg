SPECIFICATION Spec
CONSTANTS
  HostNames <- MCHosts
  UserGroups <- MCGroups
  Sources <- MCSources
  Limits <- MCLimits
  Patterns <- ListedHosts
  HostInfos <- MCHostInfos
  GroupInfos <- MCGroupInfos
  Unknown = Unknown
  Batches <- MCBatches
  MaxDynamic = 2
  MaxAsked = 2
INVARIANT
  OnlyTheBatch
CHECK_DEADLOCK FALSE
