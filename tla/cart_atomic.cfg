SPECIFICATION FewEditsOverlap
CONSTANTS
  User = {ana, ben}
  MenuItem = {naan}
  Quantity = {1, 2}
  Proc = {p1, p2}
  Operations = {"addItem", "updateItemQuantity", "deleteItem", "getCartItems", "shareCart", "removeSharedUser", "checkoutCart", "createOrder"}
  MaxRequests = 4
  Faults = TRUE
  None = None
  ana = ana
  ben = ben
  naan = naan
  p1 = p1
  p2 = p2
SYMMETRY Symmetry
PROPERTY ImplementsAtomicCart
