CONSTANTS
  p1 = p1
  p2 = p2
  n1 = n1
  n2 = n2
  sriov = sriov
  bridge = bridge
  d1 = d1
  d2 = d2
  Nil = Nil
  Pods = {p1}
  Networks = {n1, n2}
  Types = {sriov, bridge}
  networkPlugins = {sriov}
  Specs <- AllSpecs
  MaxUID = 2
  MaxChanges = 1

SPECIFICATION Spec

INVARIANTS
  TypeOK
  PodsSeeDefinitions
  IdentityIsFresh

PROPERTIES
  ChangesRepair
  ImplementsSnapshotOfIdentities
