SPECIFICATION Spec
CONSTANTS
  User = {ana, ben}
  Device = {phone}
  Proc = {p1, p2}
  MaxRequests = 4
  Faults = TRUE
  Scheduled = TRUE
  None = None
  ana = ana
  ben = ben
  phone = phone
  p1 = p1
  p2 = p2
SYMMETRY Symmetry
INVARIANTS TypeOK ExchangedOnce OneTokenPerSession TokensEndWithSession SessionsPerDevice SessionsRenewable
