SPECIFICATION FairSpec
CONSTANTS
  alumna = alumna
  docente = docente
  staff = staff
  f1 = f1
  t1 = t1
  NoRequest = NoRequest
  Requests = {r1, r2}
  Folios <- MCFolios
  Tipos <- MCTipos
  TipoOf <- MCTipoOf
  Users <- DeskUsers
  Owner <- DeskOwner
  RolesOf <- DeskRolesOf
  CatalogueRoles <- MCCatalogueRoles
PROPERTIES
  ImplementsLedger
  ImplementsHistoriales
  RequestsEnd
