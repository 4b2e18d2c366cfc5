SPECIFICATION Spec
CONSTANTS
  Name = {a, home}
  Country = {home, away}
  SeedRows <- MCSeedRows
  SeedMenu <- MCSeedMenu
  InitRows <- MCInitRows
  Texts = {home}
  Pages <- MCPages
  Proc = {p1, p2}
  MaxRequests = 3
  Faults = TRUE
  None = None
  a = a
  home = home
  away = away
  p1 = p1
  p2 = p2
SYMMETRY Symmetry
INVARIANTS TypeOK NamesBounded PicturesOwned TotalsAgree CountryKept
PROPERTIES DeletedFrozen
CHECK_DEADLOCK FALSE
