SPECIFICATION EmptyOrFilledSpec
CONSTANTS
  User = {ana, ben}
  MenuItem = {naan, rice}
  Quantity = {1}
  Proc = {p1, p2}
  Operations = {"addItem", "updateItemQuantity", "deleteItem", "getCartItems", "shareCart", "removeSharedUser", "checkoutCart", "createOrder"}
  MaxRequests = 4
  Faults = TRUE
  None = None
  ana = ana
  ben = ben
  naan = naan
  rice = rice
  p1 = p1
  p2 = p2
SYMMETRY NamedSymmetry
INVARIANTS TypeOK OrderedItemsLeaveCart OnlyMembers OrdersFromOneCart UniqueKeys OrdersPerItem
