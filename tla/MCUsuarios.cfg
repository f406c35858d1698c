SPECIFICATION Spec
CONSTANTS
  ana = ana
  beto = beto
  e1 = e1
  e2 = e2
  e3 = e3
  v = v
  Vacio = Vacio
  Nobody = Nobody
  Requests = {r1, r2}
  Matriculas <- MCMatriculas
  Campos <- MCCampos
  Valores = {v}
  Tokens <- MCTokens
  Answers <- MCAnswers
  Required <- MCRequired
  Presets <- MCPresets
SYMMETRY Symmetry
CONSTRAINT OneExpires
CHECK_DEADLOCK FALSE
INVARIANTS
  IdentityIsOneTokens
  PreviewIsKept
  AloneIsJudgedByItself
PROPERTIES
  ImplementsPerfil
