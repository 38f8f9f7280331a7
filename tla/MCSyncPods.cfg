CONSTANTS
  podA = podA
  podB = podB
  vf0 = vf0
  vf1 = vf1
  Nil = Nil
  Unprogrammed = Unprogrammed
  Partial = Partial
  Names = {podA, podB}
  Devices = {vf0, vf1}
  podRulesPath = TRUE
  MaxCreated = 3
  MaxUpdates = 1
  MaxFails = 1

SPECIFICATION FairSpec

INVARIANTS
  TypeOK
  EveryPodServed
  OnlyReplacedPodsAreStrangers
  QuietMeansProgrammed

PROPERTIES
  LiveRulesKept
  Converges
