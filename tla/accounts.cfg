SPECIFICATION Spec
CONSTANTS
  Email = {a, m, n}
  Role = {"ADMIN", "MEMBER"}
  RoleIds = {{"ADMIN"}}
  Managing = {"ADMIN"}
  SeedGroups <- MCSeedGroups
  InitAccounts <- MCInitAccounts
  Proc = {p1, p2}
  MaxRequests = 3
  Faults = TRUE
  None = None
  a = a
  m = m
  n = n
  p1 = p1
  p2 = p2
SYMMETRY Symmetry
INVARIANTS TypeOK EmailsUnique NoEntryAfterDeletion
PROPERTIES DeletedAccountsFrozen ChangesAuthorized
CHECK_DEADLOCK FALSE
