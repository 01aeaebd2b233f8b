SPECIFICATION FleetSpec
CONSTANTS
  t1 = t1
  t2 = t2
  s1 = s1
  s2 = s2
  d1 = d1
  d2 = d2
  c1 = c1
  c2 = c2
  l1 = l1
  l2 = l2
  p1 = p1
  p2 = p2
  x1 = x1
  v1 = v1
  n1 = n1
  n2 = n2
  w1 = w1
  w2 = w2
  Team = {t1, t2}
  Site = {s1, s2}
  Category = {}
  Device = {d1, d2}
  Camera = {c1, c2}
  Address = {}
  Layout = {l1, l2}
  Pc = {p1, p2}
  Screen = {x1}
  View = {v1}
  Name = {n1, n2}
  Worker = {w1, w2}
  None = None
  ScreenSide = 4
  ViewSide = 10
  MaxIndex = 2
  MaxMapping = 3
  Stored <- MCShared
  MaxRequests = 1
  LayoutBody = {t2}
  ScreenBody <- MCScreenBody
  ViewBody = {}
  SlotsBody = {}
  MappingBody = {}
  SiteLayoutBody = {}
  LayoutOf <- MCLayoutOf
  PcBody <- MCPcBody
  ConfigureBody <- MCConfigureBody
  ImportBody <- MCImportBody
  DefaultGrid <- MCDefaultGrid
  MaxTotalSlots = 10
  ViewsRequest <- MCViewsRequest
  TilesRequest <- MCTilesRequest
PROPERTY CopyKeepsSource
CHECK_DEADLOCK FALSE
