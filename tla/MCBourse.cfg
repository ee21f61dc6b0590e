CONSTANTS
  s1 = s1  s2 = s2  s3 = s3
  u1 = u1  u2 = u2
  Users <- TwoUsers
  Counts = {1, 2}
  Prices = {2}
  MaxRequests = 3
  MaxInt = 3
  QueryLimit = 2
  NoLot = NoLot
  Sessions <- ThreeSessions
  MaxMessages = 5
  MaxMatches = 0
  NoSession = NoSession
SPECIFICATION BSpec
CHECK_DEADLOCK FALSE
SYMMETRY SessionUserSymmetry
INVARIANTS
  DealsReportedOnce
  AckBeforeReport
  ReadsBounded
