------------------------------ MODULE MCReportes ------------------------------
(***************************************************************************)
(* Three folios, one tipo that may change hands, two people who act on     *)
(* them and one who browses.                                               *)
(***************************************************************************)
EXTENDS ReportesClaims, TLC

CONSTANTS docente, staff, f1, f2, f3, t1

MCFolios  == {f1, f2, f3}
MCTipos   == {t1}
MCTipoOf  == [f \in MCFolios |-> t1]
MCUsers   == {docente, staff}
MCOwner   == [f \in MCFolios |-> docente]
MCCatalogueRoles == {"CONTROL_ESCOLAR", "DOCENTE"}

\* f1 is filed on the first day the chart of today covers, the others today.
MCNewestFirst == <<f3, f2, f1>>
MCToday   == MkDate(2026, 3, 15)
MCFiledOn == (f1 :> MkDate(2025, 4, 1)) @@ (f2 :> MkDate(2026, 3, 15)) @@ (f3 :> MkDate(2026, 3, 15))

Plain == [estado |-> Absent, role |-> Absent, text |-> MCFolios,
          from |-> NoDate, to |-> NoDate]
Get(view, actor, role, params) ==
  [view |-> view, actor |-> actor, role |-> role, params |-> params, folio |-> f1]

MCQueries ==
  { Get("dashboard", staff, "ADMIN", Plain),
    Get("dashboard", staff, "ADMIN", [Plain EXCEPT !.estado = "EN_PROCESO", !.role = Malformed]),
    Get("pdf", staff, "ADMIN", [Plain EXCEPT !.role = "CONTROL_ESCOLAR",
                                             !.from = MCFiledOn[f2], !.to = MCFiledOn[f1]]),
    Get("csv", staff, "ADMIN", [Plain EXCEPT !.from = MCFiledOn[f2], !.to = BadDate]),
    Get("list", staff, "ADMIN", [Plain EXCEPT !.estado = "CREADA"]),
    Get("queue", staff, "CONTROL_ESCOLAR", [Plain EXCEPT !.estado = "CREADA"]),
    Get("queue", staff, "CONTROL_ESCOLAR", [Plain EXCEPT !.estado = Malformed]),
    Get("mis", docente, "DOCENTE", Plain),
    Get("detail", docente, "DOCENTE", Plain),
    Get("revision", staff, "CONTROL_ESCOLAR", Plain) }

\* Bound: nothing commits after the last page has been read.
SomeoneReads == \E d \in Readers : at[d] \notin {"done", "truncated", "refused"}
=============================================================================
