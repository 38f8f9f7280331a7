CONSTANTS
  namespace = namespace
  netdef = netdef
  policy = policy
  pod = pod
  otherPod = otherPod
  remotePod = remotePod
  c1 = c1
  c2 = c2
  Absent = Absent
  Unprogrammed = Unprogrammed
  Partial = Partial
  Objects = {namespace, pod, otherPod}
  Contents = {c1, c2}
  KindOf <- MCKindOf
  Local <- MCLocal
  Attached <- MCAttached
  MaxChanges = 1
  MaxCrashes = 1
  MaxFails = 1

SPECIFICATION Spec

INVARIANTS
  MapsStaleIsOwed
  KernelStaleIsOwed
  StartupOrder
