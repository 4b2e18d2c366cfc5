SPECIFICATION OneCartFairSpec
CONSTANTS
  User = {ana, ben, cyd}
  MenuItem = {naan, rice}
  Quantity = {1}
  Proc = {p1, p2}
  Operations = {"addItem", "shareCart", "checkoutCart", "createOrder"}
  MaxRequests = 3
  Faults = FALSE
  PoolSizes = {2}
  None = None
  ana = ana
  ben = ben
  cyd = cyd
  naan = naan
  rice = rice
  p1 = p1
  p2 = p2
INVARIANTS WaitersHoldNoLocks SomeoneCanGoOn CirclesOfOneKind
PROPERTY EveryRequestAnswered
