SPECIFICATION Spec
CONSTANTS
  m1 = m1
  m2 = m2
  Malformed = Malformed
  Nobody = Nobody
  Requests = {r1, r2}
  Matriculas <- One
  CSVs <- SingleFile
CHECK_DEADLOCK FALSE
INVARIANTS
  RacesAreRecovered
