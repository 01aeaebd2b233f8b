\* Two consumers that come and go, two workers, two delivery tasks for one
\* alert, one crash, outage or task repeated by the broker.
SPECIFICATION DeliverySpec
CONSTANTS
  RawId = {r1}
  AlertId = {n1}
  Consumer = {k1, k2}
  DeliveryId = {1, 2, 3}
  Deliverer = {w1, w2}
  None = None
  Slots = 2
  LongWait = {2}
  QueueCap = 1
  MaxChains = 2
  MaxFaults = 1
SYMMETRY Symmetry
INVARIANTS
  DeliveryTypeOK
  AttemptsChained
  GivingUpEndsTheChain
  SuccessWasReceived
  OneSuccessPerChain
CHECK_DEADLOCK FALSE
