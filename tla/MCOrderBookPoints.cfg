CONSTANTS
  u1 = u1  u2 = u2  u3 = u3
  Users <- ThreeUsers
  Counts = {1, 2}
  Prices = {1, 2}
  MaxRequests = 3
  MaxInt = 1000
  QueryLimit = 2
  HistoryLimit = 2
  NoLot = NoLot
SPECIFICATION Spec
SYMMETRY UserSymmetry
INVARIANT PointsAreDeals
