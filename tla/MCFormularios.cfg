SPECIFICATION Spec
CONSTANTS
  yo = yo
  valor = valor
  opcion = opcion
  Vacio = Vacio
  Blanco = Blanco
  Yo = yo
  Requests = {r1}
  FieldIds = {f1, f2}
  Matriculas <- MCMatriculas
  Campos <- MCCampos
  Valores = {valor}
  Options = {opcion}
  Largo = Largo
  Numero = Numero
  Fecha = Fecha
  Cuenta = Cuenta
  Archivos <- MCArchivos
  EditorRows <- MCEditorRows
  MaxEdits = 2
SYMMETRY Symmetry
CHECK_DEADLOCK FALSE
INVARIANTS
  EditPageKeepsTheTipo
  ValoresAreExplained
  OneFormIsComplete
  RefusalWasAnnounced
