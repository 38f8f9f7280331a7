CONSTANTS
  namespace = namespace
  netdef = netdef
  policy = policy
  pod = pod
  otherPod = otherPod
  remotePod = remotePod
  c1 = c1
  c2 = c2
  Absent = Absent
  Unprogrammed = Unprogrammed
  Partial = Partial
  Objects = {policy, pod}
  Contents = {c1}
  KindOf <- MCKindOf
  Local <- MCLocal
  Attached <- MCAttached
  MaxChanges = 0
  MaxCrashes = 0
  MaxFails = 0

SPECIFICATION Spec

INVARIANT SyncedMeansDelivered
