CONSTANTS
  k1 = k1
  k2 = k2
  a = a
  b = b
  broken = broken
  infoA = infoA
  infoB = infoB
  Nil = Nil
  Keys <- MCKeys
  Objects <- MCObjects
  Infos <- MCInfos
  InfoOf <- MCInfoOf

SPECIFICATION Spec

INVARIANTS
  TypeOK
  PendingIsDelivered
  ChangeStartsAtView

PROPERTY ImplementsSnapshot
