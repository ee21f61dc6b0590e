CONSTANTS
  s1 = s1  s2 = s2
  a = a  b = b
  Sessions <- TwoSessions
  Users <- TwoUsers
  MaxMessages = 5
  MaxMatches = 2
SPECIFICATION FairSessionSpec
CHECK_DEADLOCK FALSE
INVARIANTS
  SessionTypeOK
  NeverDeaf
  OneWriteAtATime
  RegistryExact
  LoginsSurvive
PROPERTIES
  ResponsesLeave
  ClosedIsDestroyed
