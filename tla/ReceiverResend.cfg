CONSTANTS
  a0 = a0
  a1 = a1
  a2 = a2
  b = b
  g = g
  r = r
  ida = ida
  idb = idb
  Message <- MCMessage
  NoMessage = NoMessage
  Id <- MCId
  IdOf <- MCIdOf
  ShapeOf <- MCShapeOf
  Traffic <- MCTraffic
  MaxFaults = 2
SPECIFICATION Spec
CHECK_DEADLOCK FALSE
INVARIANT TypeOK
INVARIANT AtMostOncePerLife
INVARIANT LossesNeedFaults
INVARIANT SettledIsAccounted
INVARIANT NackedIsDeadLettered
INVARIANT DuplicateOfTaken
SYMMETRY Copies
