CONSTANTS
  a0 = a0
  a1 = a1
  a2 = a2
  b = b
  g = g
  r = r
  ida = ida
  idb = idb
  Message <- BadMessage
  NoMessage = NoMessage
  Id <- MCId
  IdOf <- MCIdOf
  ShapeOf <- MCShapeOf
  Traffic <- BadTraffic
  MaxFaults = 0
SPECIFICATION FairSpec
CHECK_DEADLOCK FALSE
PROPERTY UnparseableIsDeadLettered
