\* One alert, one consumer that never answers, one worker, the schedule of the code
\* (five waits, the last two beyond the visibility timeout).
SPECIFICATION DeliverySpec
CONSTANTS
  RawId = {r1}
  AlertId = {n1}
  Consumer = {k1}
  DeliveryId = {1, 2, 3, 4, 5, 6}
  Deliverer = {w1}
  None = None
  Slots = 5
  LongWait = {4, 5}
  QueueCap = 1
  MaxChains = 1
  MaxFaults = 0
INVARIANT GivesUpAfterTheLastWait
CHECK_DEADLOCK FALSE
