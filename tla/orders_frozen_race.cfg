SPECIFICATION Spec
CONSTANTS
  MenuItem = {naan, dosa}
  Restaurant = {north, south}
  RestaurantOf <- MCRestaurantOf
  Bodies <- MCBodies
  Callers <- MCCallers
  Proc = {p1, p2}
  MaxOrders = 1
  MaxRequests = 2
  None = None
  naan = naan
  dosa = dosa
  north = north
  south = south
  p1 = p1
  p2 = p2
PROPERTY FinalOrdersFrozen
