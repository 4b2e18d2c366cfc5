SPECIFICATION Spec
CONSTANTS
  Role = {admin, member}
  Permission = {create, read, audit}
  Versions <- MCVersions
  RoleLists <- MCRoleLists
  AllRoles <- MCAllRoles
  SeedAdmin = {create}
  SeedSuperAdmin = {audit}
  Admin = admin
  SuperAdmin = admin
  Proc = {p1, p2}
  MaxRequests = 3
  Faults = TRUE
  None = None
  admin = admin
  member = member
  create = create
  read = read
  audit = audit
  p1 = p1
  p2 = p2
SYMMETRY Symmetry
INVARIANTS TypeOK NeverInvented NeverMissing OneVersionEach
