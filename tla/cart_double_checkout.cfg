SPECIFICATION Spec
CONSTANTS
  User = {ana, ben}
  MenuItem = {naan}
  Quantity = {1}
  Proc = {p1, p2}
  Operations = {"addItem", "checkoutCart"}
  MaxRequests = 3
  Faults = FALSE
  None = None
  ana = ana
  ben = ben
  naan = naan
  p1 = p1
  p2 = p2
PROPERTY CheckoutNeedsItems
