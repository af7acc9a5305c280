SPECIFICATION LpFairSpec
CONSTANTS
  long = long
  short = short
  Packet = {long, short}
  NFrags <- MCNFrags
  SeqSpace = 8
  StartSeq = 5
  maxRetx = 1
  seqNumLossThreshold = 1
  MaxAcks = 2
  MaxExpiries = 1
INVARIANTS
  NoAssertionFails
  WindowStartsAtOldest
  PacketsAndMapAgree
  CountedMeansDelivered
  DeliveredOnce
PROPERTIES
  PacketsSettle
CHECK_DEADLOCK FALSE
