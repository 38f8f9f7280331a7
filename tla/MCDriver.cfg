CONSTANTS
  a4 = a4
  b4 = b4
  a6 = a6
  b6 = b6
  Addresses4 = {a4, b4}
  Addresses6 = {a6, b6}
  Numbers = {0, 80}
  Any = Any
  nilRules = nilRules
  NoRules <- MCNoRules
  Other = Other
  Whole <- MCWhole
  Targets <- MCTargets
  Found <- MCFound
  MaxChanges = 1
  MaxAborts = 1

SPECIFICATION FairSpec

INVARIANTS
  TypeOK
  OnlyKnownExceptions
  SuccessIsEnforced

PROPERTIES
  WantedFiltersStay
  ImplementsActuator
  EventuallyEnforced
