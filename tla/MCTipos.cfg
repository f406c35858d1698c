SPECIFICATION Spec
CONSTANTS
  Requests = {r1, r2, r3}
  Slugs <- MCSlugs
  Candidates <- MCCandidates
  Seed = seed
  SeedSlug = "carta"
  SeedSize = 2
  New = New
  MaxFields = 2
  Offset = 3
SYMMETRY Symmetry
CHECK_DEADLOCK FALSE
INVARIANTS
  OrdersNeverCollide
PROPERTIES
  ResubmittedIdsSurvive
  ImplementsCatalogue
