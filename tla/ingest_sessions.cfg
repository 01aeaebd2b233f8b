\* Two connections, two mails (one too large) for two addresses of a camera, one
\* outage, lost reply or crash.
SPECIFICATION Spec
CONSTANTS
  a1 = a1
  a2 = a2
  c1 = c1
  Mail = {m1, m2}
  Address = {a1, a2}
  Camera = {c1}
  RawId = {r1, r2}
  Session = {s1, s2}
  None = None
  CameraOf <- SharedCamera
  Oversized = {m2}
  RateLimit = 1
  MaxRetries = 0
  QueueCap = 1
  MaxFaults = 1
SYMMETRY SessionSymmetry
INVARIANTS
  IngestInv
  AckedIsDurable
  NoDuplicateWithoutFault
PROPERTY CustodyHolds
CHECK_DEADLOCK FALSE
