SPECIFICATION Spec
CONSTANTS
  m1 = m1
  m2 = m2
  Malformed = Malformed
  Nobody = Nobody
  Requests = {r1, r2, r3}
  Matriculas <- MCMatriculas
  CSVs <- MCFiles
SYMMETRY Symmetry
CHECK_DEADLOCK FALSE
INVARIANTS
  ReceiptsAreTrue
  ClosersLeaveNoneOpen
  DeadlocksAreOfBatches
  OnlyWaitsStop
PROPERTIES
  ImplementsPadron
