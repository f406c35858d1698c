SPECIFICATION Spec
CONSTANTS
  NoRequest = NoRequest
  NoThread = NoThread
  Requests = {q1, q2}
  Users = {ana}
  Sender <- OnePerson
  Threads = {w1, w2}
  Versions <- MCVersions
  Years <- MCYears
  UploadSets <- MCUploads
SYMMETRY Symmetry
CONSTRAINT FilesAlone
INVARIANTS
  FoliosAreGapless
  MailsNameTheNextFolio
  MissingFilesAreNoticed
  ComprobanteMatchesDebt
  DeadlocksAreOfOnePerson
  OnlyLocksStop
PROPERTIES
  ImplementsArchivos
