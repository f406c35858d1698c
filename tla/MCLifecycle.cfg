SPECIFICATION Spec
CONSTANTS
  alumna = alumna
  docente = docente
  staff = staff
  f1 = f1
  t1 = t1
  NoRequest = NoRequest
  Requests = {r1, r2, r3}
  Folios <- MCFolios
  Tipos <- MCTipos
  TipoOf <- MCTipoOf
  Users <- MCUsers
  Owner <- MCOwner
  RolesOf <- MCRolesOf
  CatalogueRoles <- MCCatalogueRoles
SYMMETRY Symmetry
INVARIANTS
  EntryContinuesASeenOne
  SerialFolioObeysTheMachine
  ResponseIsExplained
