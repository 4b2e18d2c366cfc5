SPECIFICATION FairSpec
CONSTANTS
  User = {ana}
  Device = {phone}
  Proc = {p1}
  MaxRequests = 2
  Faults = FALSE
  Scheduled = FALSE
  None = None
  ana = ana
  phone = phone
  p1 = p1
PROPERTY ExpiredSessionsEnd
CHECK_DEADLOCK FALSE
