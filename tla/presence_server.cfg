\* Two PCs, two connections that register and send messages; a clock long
\* enough for a sweep, a missed pong and a tick after it, one database error or
\* restart.
SPECIFICATION PresenceSpec
CONSTANTS
  Pc = {p1, p2}
  Sid = {s1, s2}
  None = None
  Interval = 2
  PongTimeout = 1
  MaxTime = 3
  MaxSpawned = 1
  MaxFaults = 1
SYMMETRY Symmetry
INVARIANTS
  PresenceInv
  NewestRegistrationListed
  RoutedToItsPc
  SeenIsFresh
CHECK_DEADLOCK FALSE
