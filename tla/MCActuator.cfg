CONSTANTS
  default4 = default4
  default6 = default6
  passOld = passOld
  dropOld = dropOld
  passNew = passNew
  dropNew = dropNew
  foreign = foreign
  Filters <- MCFilters
  Defaults <- MCDefaults
  Packets <- MCPackets
  Matches <- MCMatches
  Priority <- MCPriority
  Passes <- MCPasses
  Emitted <- MCEmitted
  Targets <- MCTargets
  Found <- Anything
  MaxChanges = 2
  MaxAborts = 2

SPECIFICATION FairSpec

INVARIANTS
  TypeOK
  SuccessIsApplied
  StaysClosed
  KeepsVerdicts
  DefaultsComeFirst

PROPERTIES
  OnlyTowardsTarget
  EventuallyApplied
