CONSTANTS
  default4 = default4
  default6 = default6
  passOld = passOld
  dropOld = dropOld
  passNew = passNew
  dropNew = dropNew
  foreign = foreign
  Filters <- MCFilters
  Defaults <- MCDefaults
  Packets <- MCPackets
  Matches <- MCMatches
  Priority <- MCPriority
  Passes <- MCPasses
  Emitted <- MCEmitted
  Targets <- WithException
  Found <- DenyAll
  MaxChanges = 0
  MaxAborts = 1

SPECIFICATION Spec

INVARIANT AdmitsOldOrNew
