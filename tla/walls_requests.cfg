SPECIFICATION WallsSpec
CONSTANTS
  a1 = a1
  a2 = a2
  a3 = a3
  k1 = k1
  k2 = k2
  t1 = t1
  t2 = t2
  s1 = s1
  s2 = s2
  d1 = d1
  d2 = d2
  c1 = c1
  c2 = c2
  l1 = l1
  l2 = l2
  p1 = p1
  p2 = p2
  x1 = x1
  x2 = x2
  v1 = v1
  v2 = v2
  n1 = n1
  w1 = w1
  w2 = w2
  Team = {t1, t2}
  Site = {s1, s2}
  Category = {k1, k2}
  Device = {d1, d2}
  Camera = {c1, c2}
  Address = {a1, a2, a3}
  Layout = {l1, l2}
  Pc = {p1}
  Screen = {x1, x2}
  View = {v1, v2}
  Name = {n1}
  Worker = {w1, w2}
  None = None
  ScreenSide = 4
  ViewSide = 10
  MaxIndex = 2
  MaxMapping = 3
  Stored <- MCStored
  MaxRequests = 2
  LayoutBody = {t1, t2}
  ScreenBody <- MCScreenBody
  ViewBody <- MCViewBody
  SlotsBody <- MCSlotsBody
  MappingBody <- MCMappingBody
  SiteLayoutBody <- MCSiteLayoutBody
SYMMETRY Workers
INVARIANT TablesTypeOK
PROPERTIES
  PlacementsKeepTheTeam
  EditsStampTheWall
  ReplacedSlotsAreTheBody
  StraysComeFromViews
  OneActiveAddressKept
  SiteShowsItsCameras
  SiteLayoutsAgree
CHECK_DEADLOCK FALSE
