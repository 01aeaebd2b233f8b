\* One mail through all stages: with one fault and no consumer, or without a fault to
\* a registered consumer.
SPECIFICATION PipelineFairSpec
CONSTANTS
  Mail = {m1}
  a1 = a1
  c1 = c1
  r1 = r1
  r2 = r2
  Address = {a1}
  Camera = {c1}
  RawId = {r1, r2}
  Session = {s1}
  None = None
  CameraOf <- OneAddress
  Oversized = {}
  RateLimit = 1
  AlertId = {1, 2}
  Worker = {w1}
  Malformed = {}
  Poison = {}
  MaxRetries = 0
  Consumer = {k1}
  DeliveryId = {1, 2}
  Deliverer = {v1}
  Slots = 2
  LongWait = {}
  QueueCap = 1
  MaxChains = 1
  MaxFaults = 1
ACTION_CONSTRAINT OneTrouble
INVARIANT BytesBehindAlert
PROPERTIES
  MailBecomesAlert
  MailConcluded
CHECK_DEADLOCK FALSE
