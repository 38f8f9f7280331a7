CONSTANTS
  namespace = namespace
  netdef = netdef
  policy = policy
  pod = pod
  otherPod = otherPod
  remotePod = remotePod
  c1 = c1
  c2 = c2
  Absent = Absent
  Unprogrammed = Unprogrammed
  Partial = Partial
  Objects = {policy, pod, remotePod}
  Contents = {c1, c2}
  KindOf <- MCKindOf
  Local <- MCLocal
  Attached <- MCAttached
  MaxChanges = 1
  MaxCrashes = 1
  MaxFails = 1

SPECIFICATION FairSpec

INVARIANT TypeOK

PROPERTIES
  EventsConverge
  TimerConverges
