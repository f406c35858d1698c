SPECIFICATION Spec
CONSTANTS
  alumna = alumna
  staff = staff
  f1 = f1
  NoThread = NoThread
  Requests = {p1, p2}
  Readers = {g1}
  Threads = {w1, w2}
  MAX_FILES_PER_BATCH = 2
  Folios <- MCFolios
  Users <- MCUsers
  Owner <- MCOwner
  RolesOf <- MCRolesOf
  CatalogueRoles <- MCCatalogueRoles
  Payloads <- MCPayloads
SYMMETRY Symmetry
INVARIANTS
  AnswersFollowATake
  OutcomeIsTrue
  SolicitanteReadsAfterFinal
  MissingIsExplained
PROPERTIES
  ImplementsArchivos
