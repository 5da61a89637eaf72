SPECIFICATION FairSpec
CONSTANTS
  Producers = {p1, p2}
  TimedConsumers = {t1}
  BlockingConsumers = {b1}
  MaxPush = 2
  p1 = p1
  p2 = p2
  t1 = t1
  b1 = b1
  Nobody = Nobody
  NoItem = NoItem
INVARIANTS
  TypeOK
  FifoDelivery
  FrontIsDefined
  NoLostWakeup
PROPERTIES
  TimedCallReturns
  ImplementsChannel
