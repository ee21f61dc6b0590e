CONSTANTS
  Counts = {1}
  FirstId = 11
  MaxLots = 3
  MaxReports = 2
  MaxInFlight = 2
SPECIFICATION Spec
CHECK_DEADLOCK FALSE
INVARIANTS
  TypeOK
  WindowKnowsItsLots
  PatientSurvives
  PatientRowsExact
