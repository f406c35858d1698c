---------------------------- MODULE ReportesClaims ----------------------------
(***************************************************************************)
(* What comments of the code say of the pages and the code does not do.    *)
(***************************************************************************)
EXTENDS Reportes

\* specs/planning/004-solicitud-lifecycle/plan.md, on the queue: "filtered list +
\* pagination", and on mis/: "with filters (estado, tipo, fecha, folio); pagination
\* works".  Yet "Siguiente" drops the filter: what a later page shows was not asked for.
PagesKeepTheFilter ==
  \A d \in Readers : query[d].view \in Lists => OneFilter(d)

\* parse_report_filter swallows an inverted range "so a stale bookmark renders
\* an empty result instead of a 400": such a report shows no rows.
InvertedRangesShowNothing ==
  \A d \in Readers :
    LET p == query[d].params IN
    at[d] = "done" /\ query[d].view \in Reports
      /\ ~({p.from, p.to} \cap {NoDate, BadDate} # {}) /\ p.from > p.to
      => rows[d] = <<>> /\ total[d] = 0

\* _base_queryset: "The state machine only allows one such transition" -- one
\* CREADA -> EN_PROCESO in the historial of a folio.
OneTakePerFolio ==
  \A f \in Folios : \A i, j \in DOMAIN historial[f] :
    historial[f][i].nuevo = "EN_PROCESO" /\ historial[f][j].nuevo = "EN_PROCESO" => i = j
=============================================================================
