CONSTANTS
  u1 = u1  u2 = u2  u3 = u3
  Users <- ThreeUsers
  Counts = {1, 2}
  Prices = {1}
  MaxRequests = 3
  MaxInt = 3
  QueryLimit = 1
  NoLot = NoLot
SPECIFICATION SSpec
INVARIANTS
  ReadsSeeCommitted
  DealsAreDated
PROPERTIES
  BookSpec
  HandlerTerminates
