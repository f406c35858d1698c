SPECIFICATION Spec
CONSTANTS
  oficio = oficio
  acta = acta
  campo = campo
  unpacks = unpacks
  divides = divides
  shows = shows
  s = s
  c = c
  html = html
  raises = raises
  bad = bad
  f1 = f1
  f2 = f2
  f3 = f3
  logo = logo
  sello = sello
  None = None
  Requests = {r1, r2, r3}
  Ids = {oficio, acta}
  Old = {logo, sello}
  Slugs = {s}
  LargeSlug = LargeSlug
  NoSlug = NoSlug
  Paths = {f1, f2, f3}
  Htmls = {html, raises, unpacks, divides, shows, bad}
  Csss = {c}
  Malformed = {bad}
  RaisesOn <- MCRaisesOn
  Syntactic = {divides, shows}
  Campos <- MCCampos
  OldRow <- MCOldRow
  OldPlantilla <- MCOldPlantilla
  Jobs <- MCJobs
SYMMETRY Symmetry
CHECK_DEADLOCK FALSE
INVARIANTS
  FilesAreExplained
  RendersShowWhatTheyListed
  RenderErrorsComeOfTheData
