CONSTANTS
  a0 = a0
  a1 = a1
  a2 = a2
  b = b
  g = g
  r = r
  ida = ida
  idb = idb
  Message <- TwoMessages
  NoMessage = NoMessage
  Id <- MCId
  IdOf <- MCIdOf
  ShapeOf <- MCShapeOf
  Traffic <- TwoTraffic
  MaxFaults = 2
SPECIFICATION FairSpec
CHECK_DEADLOCK FALSE
PROPERTY EveryMessageSettles
PROPERTY EveryEntryAlerted
PROPERTY ImplementsDelivery
