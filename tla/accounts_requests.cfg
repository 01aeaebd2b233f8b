SPECIFICATION AccountsSpec
CONSTANTS
  u1 = u1
  u2 = u2
  u3 = u3
  u4 = u4
  e1 = e1
  e2 = e2
  e3 = e3
  UserId = {u1, u2, u3, u4}
  Email = {e1, e2, e3}
  Token = {t1, t2}
  Worker = {w1, w2}
  None = None
  Founder <- TwoFounders
  InvitedRole = {"user", "super_admin"}
  UserUpdate <- Bodies
  MaxRequests = 3
  MaxFaults = 1
SYMMETRY Symmetry
INVARIANTS
  AccountsTypeOK
  UsedNamesItsAccount
  InvitersExist
  DeletionsLogged
PROPERTIES
  OnlyStandingInvitationsOpenAccounts
  LastSuperAdminFallsToTheFallen
CHECK_DEADLOCK FALSE
