CONSTANTS
  a0 = a0
  a1 = a1
  a2 = a2
  b = b
  g = g
  r = r
  ida = ida
  idb = idb
  Message <- TwoMessages
  NoMessage = NoMessage
  Id <- MCId
  IdOf <- MCIdOf
  ShapeOf <- MCShapeOf
  Traffic <- TwoTraffic
  MaxFaults = 1
SPECIFICATION Spec
CHECK_DEADLOCK FALSE
INVARIANT NothingLost
