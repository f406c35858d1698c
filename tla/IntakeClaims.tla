---------------------------- MODULE IntakeClaims ----------------------------
(***************************************************************************)
(* What the repository says of filing a solicitud and the code does not    *)
(* keep.  TLC finds the state that breaks each claim (README, section 6).  *)
(***************************************************************************)
EXTENDS Intake

\* RF-INT-07: "After successful persistence, intake must fire ...
\* notify_creation": who is mailed a folio can read it.
AnnouncedAreFiled ==
  \A a \in announced : \E row \in solicitudes[a[1]] : row.n = a[2] /\ row.req = a[3]

\* RF-07: "Al crear solicitud: correo al responsable": there is no solicitud that
\* nobody was told about.
FiledAreAnnounced ==
  \A y \in Years : \A row \in solicitudes[y] : <<y, row.n, row.req>> \in announced

\* IntakeService.create: "any admin edit between form render and submit is
\* irrelevant - the row records what the user actually saw".
RowRecordsWhatWasSeen ==
  \A y \in Years : \A row \in solicitudes[y] : row.snapshot = row.seen

\* RF-INT-06: after a failure "partially-written files on disk must be cleaned
\* up": of a request that ended alive no partial stays without a log line.
NoPartialIsForgotten ==
  \A x \in partial : pc[x[1]] = "ended" => x \in logged

\* LocalFileStorage.save: a failed rename is logged with its paths "so ops can
\* reconcile": the missing file of a committed row is named and still there.
MissingFilesCanBeReconciled ==
  \A y \in Years : \A row \in solicitudes[y] :
    pc[row.req] = "ended" =>
      \A a \in row.archivos : a[1] \in final \/ a[1] \in logged \cap partial

\* CreateSolicitudView.post: cleanup_pending is "safe to call on success too ... this
\* becomes a no-op": no sweep takes a file of a committed solicitud that the log does
\* not know about.
SweepsSpareWhatIsFiled ==
  \A row \in Filed : FilesOf(row) \subseteq partial \cup final \/ FilesOf(row) \cap logged # {}

\* lifecycle/design.md: "One row per year; select_for_update serializes allocation":
\* filings would queue for one row, and no two of them ever wait for each other.
FilingsNeverCross == \A u, v \in Requests : ~CrossedFilings(u, v)
=============================================================================
