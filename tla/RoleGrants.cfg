CONSTANTS
  u1 = u1
  u2 = u2
  s1 = s1
  s2 = s2
  super = super
  r1 = r1
  r2 = r2
  User = {u1, u2}
  Session = {s1, s2}
  Owner <- MCOwner
  Role = {super, r1, r2}
  Super = super
  Perm <- MCPerm
  Requires <- MCRequires
  RoleWrite = "role:write"
  RolePermissionWrite = "role:permissions:write"
  UserRoleWrite = "user:roles:write"
  SuperGrant = "user:super_admin:grant"
  Start <- MCStart
  Offers <- MCOffers
  RoleLists <- MCRoleLists
  Token = {t1, t2}
  Request = {p1, p2}
  None = None
SPECIFICATION Spec
SYMMETRY Symmetry
INVARIANTS TypeOK NoEscalation DependenciesHold TokenBacksOne
CHECK_DEADLOCK FALSE
