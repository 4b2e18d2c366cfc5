SPECIFICATION Spec
CONSTANTS
  User = {ana, ben}
  MenuItem = {naan}
  Quantity = {1}
  Proc = {p1}
  Operations = {"addItem", "shareCart", "removeSharedUser"}
  MaxRequests = 5
  Faults = FALSE
  None = None
  ana = ana
  ben = ben
  naan = naan
  p1 = p1
PROPERTY ContributorsStay
