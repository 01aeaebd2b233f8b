\* Two workers on one message, camera deletion, outages and crashes: safety and
\* liveness.
SPECIFICATION ParseFairSpec
CONSTANTS
  Mail = {m1, m2, m3}
  RawId = {r1}
  AlertId = {1, 2, 3, 4, 5, 6}
  Camera = {c1}
  Worker = {w1, w2}
  None = None
  Malformed = {m2}
  Poison = {m3}
  MaxRetries = 1
  QueueCap = 1
  MaxFaults = 2
INVARIANTS
  ParseTypeOK
  ParsedHasAlert
  AlertOfItsCamera
PROPERTY MessageIsHandled
CHECK_DEADLOCK FALSE
