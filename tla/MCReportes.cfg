SPECIFICATION ReportesSpec
CONSTANTS
  docente = docente
  staff = staff
  f1 = f1
  f2 = f2
  f3 = f3
  t1 = t1
  Nobody = Nobody
  Readers = {d1}
  Folios <- MCFolios
  Tipos <- MCTipos
  TipoOf <- MCTipoOf
  Users <- MCUsers
  Owner <- MCOwner
  CatalogueRoles <- MCCatalogueRoles
  Queries <- MCQueries
  NewestFirst <- MCNewestFirst
  FiledOn <- MCFiledOn
  Today <- MCToday
  PageSize = 1
  RowCap = 1
  MaxRows = 4
CONSTRAINT SomeoneReads
CHECK_DEADLOCK FALSE
INVARIANTS
  RowsAreCommittedStates
  WalksAreExplained
  FiguresDifferByMoves
