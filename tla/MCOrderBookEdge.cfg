CONSTANTS
  u1 = u1  u2 = u2  u3 = u3
  Users <- ThreeUsers
  Counts <- EdgeCounts
  Prices = {3}
  MaxRequests = 3
  MaxInt = 3
  QueryLimit = 1
  HistoryLimit = 2
  NoLot = NoLot
SPECIFICATION Spec
SYMMETRY UserSymmetry
INVARIANTS
  TypeOK
  BalancesExplained
  FillAccounting
  NoMissedMatch
