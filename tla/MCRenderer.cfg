CONSTANTS
  a1 = a1
  a2 = a2
  a3 = a3
  b1 = b1
  client = client
  server = server
  far = far
  Any = Any
  NoRules <- MCNoRules
  nilRules = nilRules
  Nil = Nil
  Malformed = Malformed
  Addresses4 <- MCAddresses4
  Addresses6 <- MCAddresses6
  Numbers <- MCNumbers
  Inputs <- Clusters

SPECIFICATION Spec

CHECK_DEADLOCK FALSE

INVARIANTS
  TypeOK
  EnforcesPolicies
  OrderFree
  PrioritiesDecide
  TagsDoNotMatter
