------------------------------- MODULE Reportes -------------------------------
(***************************************************************************)
(* The pages that only read, next to the components that write: the admin  *)
(* dashboard, list and exports, the revision queue, "mis solicitudes" and  *)
(* the two detail pages.                                                   *)
(*                                                                         *)
(* No GET opens a transaction, so each of its queries sees what is         *)
(* committed when it runs: a dashboard is three such readings, a page of a *)
(* list two (COUNT, then the slice), a PDF four, a detail two, and a CSV   *)
(* one, because its rows come from one cursor.                             *)
(*                                                                         *)
(* What commits meanwhile are the steps of Historiales, which Lifecycle    *)
(* implements.                                                             *)
(*                                                                         *)
(* stayed, entered and left are history variables: no guard reads them.    *)
(***************************************************************************)
EXTENDS Historiales, FiniteSets

CONSTANTS
  TipoOf,      \* TipoOf[f]: the tipo f is filed under
  MaxRows,     \* bound: rows of all the historiales together
  Readers,     \* the people who browse, one identifier each
  Queries,     \* the GETs they may issue
  NewestFirst, \* the folios in the order of -created_at
  FiledOn,     \* FiledOn[f]: the local date of created_at
  Today,       \* date.today()
  PageSize,    \* 25 in the report list, 20 elsewhere
  RowCap,      \* _PDF_ROW_CAP
  Nobody       \* no handler

Rank(f) == CHOOSE i \in DOMAIN NewestFirst : NewestFirst[i] = f

ASSUME OrderAssumption ==
  /\ NewestFirst \in Seq(Folios)
  /\ \A f \in Folios : \E i \in DOMAIN NewestFirst : NewestFirst[i] = f
  /\ \A i, j \in DOMAIN NewestFirst : NewestFirst[i] = NewestFirst[j] => i = j
  /\ \A f, g \in Folios : FiledOn[f] < FiledOn[g] => Rank(g) < Rank(f)
ASSUME RowAssumption    == Owner \in [Folios -> Users] /\ TipoOf \in [Folios -> Tipos]
ASSUME PageAssumption   == PageSize \in Nat \ {0} /\ RowCap \in Nat
ASSUME NobodyAssumption == Nobody \notin Users

VARIABLES
  at,      \* at[d]: how far the GET of d is
  query,   \* query[d]: the GET
  page,    \* page[d]: the page asked for
  total,   \* total[d]: Page.total, or DashboardData.total
  counts,  \* counts[d]: what by_tipo and by_month add up to
  rows,    \* rows[d]: the rows shown so far, with the page each was on
  stayed,  \* folios that matched at every instant since the first query
  entered, \* folios that came to match since then
  left     \* folios that ceased to match since then

readers == <<at, query, page, total, counts, rows, stayed, entered, left>>
reportesVars == <<tables, readers>>

Written   == Cardinality({ fi \in Folios \X (1 .. MaxRows) : fi[2] \in DOMAIN historial[fi[1]] })
Last(s)   == s[Len(s)]
\* The column and the newest row commit together (EstadoIsLastEntry).
estado(f) == Last(historial[f]).nuevo

(***************************************************************************)
(* Dates and parameters.                                                   *)
(***************************************************************************)
MkDate(y, m, d) == 372 * y + 31 * (m - 1) + (d - 1)
Year(date)      == date \div 372
Month(date)     == (date % 372) \div 31 + 1

\* datetime.date has no year 0.
ASSUME DateAssumption ==
  /\ Today \in Nat /\ Today >= MkDate(2, 1, 1)
  /\ FiledOn \in [Folios -> Nat]

Absent    == "absent"
Malformed == "malformed"
NoDate    == 0     \* the parameter is absent
BadDate   == 1     \* it is there and is no ISO date

\* Mutant: the window covers eleven months.
ElevenMonthWindow(today) ==
  LET m == Month(today) - 10 IN
  <<IF m <= 0 THEN MkDate(Year(today) - 1, m + 12, 1) ELSE MkDate(Year(today), m, 1), today>>

\* _default_month_window: from the first day of the month eleven months ago.
DefaultMonthWindow(today) ==
  LET m == Month(today) - 11 IN
  <<IF m <= 0 THEN MkDate(Year(today) - 1, m + 12, 1) ELSE MkDate(Year(today), m, 1), today>>

\* parse_report_filter: what cannot be parsed is no filter, and an inverted
\* range loses both ends.
ParseReportFilter(p) ==
  LET kept(x)  == IF x = Malformed THEN Absent ELSE x
      bound(x) == IF x = BadDate THEN NoDate ELSE x
      inverted == bound(p.from) # NoDate /\ bound(p.to) # NoDate /\ p.from > p.to
  IN  [estado |-> kept(p.estado), role |-> kept(p.role), text |-> Folios,
       from |-> IF inverted THEN NoDate ELSE bound(p.from),
       to   |-> IF inverted THEN NoDate ELSE bound(p.to)]

\* _read_filters of the queue and of "mis solicitudes" raises ValueError on a
\* parameter it cannot parse and keeps an inverted range; "text" stands for the
\* folios whose folio or solicitante contains what was typed.
Unreadable(p) == p.estado = Malformed \/ BadDate \in {p.from, p.to}

ReadFilters(p) == [estado |-> p.estado, role |-> Absent, text |-> p.text,
                   from |-> p.from, to |-> p.to]

Reports == {"dashboard", "pdf", "csv", "list"}
Lists   == {"list", "queue", "mis"}
Details == {"detail", "revision"}

\* A GET: its view, who asks in which role, its parameters, the folio of a detail.
Params == [estado : Estados \cup {Absent, Malformed}, role : ResponsibleRoles \cup {Absent, Malformed},
           text : SUBSET Folios, from : Nat, to : Nat]
Query  == [view : Reports \cup Lists \cup Details, actor : Users, role : Roles,
           params : Params, folio : Folios]
ASSUME QueryAssumption == Queries # {} /\ Queries \subseteq Query

\* The mixins: which roles reach a view at all.
Admits(q) ==
  CASE q.view \in Reports             -> q.role = "ADMIN"
    [] q.view \in {"queue", "revision"} -> q.role \in ReviewerRoles
    [] q.view = "mis"                 -> q.role \in CreatorRoles
    [] q.view = "detail"              -> TRUE

Filter(q) == IF q.view \in Reports THEN ParseReportFilter(q.params)
                                   ELSE ReadFilters(q.params)

NoParams == [estado |-> Absent, role |-> Absent, text |-> Folios, from |-> NoDate, to |-> NoDate]

\* querystring_for: the filter as it was understood.
QuerystringFor(filter) ==
  [NoParams EXCEPT !.estado = filter.estado, !.role = filter.role,
                   !.from = filter.from, !.to = filter.to]

\* What page p of a list asks for.  The links of the report list repeat its filter;
\* those of the queue and of "mis solicitudes" hold the page number and nothing else.
PageQuery(q, p) ==
  IF p = 1 THEN q
  ELSE [q EXCEPT !.params = IF q.view = "list" THEN QuerystringFor(Filter(q)) ELSE NoParams]

\* _apply_filters.
Passes(f, filters) ==
  /\ filters.estado # Absent => estado(f) = filters.estado
  /\ f \in filters.text
  /\ filters.from # NoDate => FiledOn[f] >= filters.from
  /\ filters.to # NoDate => FiledOn[f] <= filters.to
  /\ filters.role # Absent => responsible[TipoOf[f]] = filters.role

\* list_for_personal, list_for_solicitante and list_all: whose rows at all.
InScope(q, f) ==
  CASE q.view = "mis"   -> Owner[f] = q.actor
    [] q.view = "queue" -> q.role = "ADMIN" \/ responsible[TipoOf[f]] = q.role
    [] OTHER            -> TRUE

Matching(q) == { f \in Filed : InScope(q, f) /\ Passes(f, Filter(q)) }

(***************************************************************************)
(* What one query returns.                                                 *)
(***************************************************************************)
\* Mutant: the minus of -created_at is lost.
FirstTaker(h) ==
  LET takes == { i \in DOMAIN h : h[i].nuevo = "EN_PROCESO" } IN
  IF takes = {} THEN Nobody
  ELSE h[CHOOSE i \in takes : \A j \in takes : i <= j].actor

\* The subquery of _base_queryset and _derive_handler: the actor of the newest
\* EN_PROCESO row.
Handler(h) ==
  LET takes == { i \in DOMAIN h : h[i].nuevo = "EN_PROCESO" } IN
  IF takes = {} THEN Nobody
  ELSE h[CHOOSE i \in takes : \A j \in takes : j <= i].actor

SolicitudRow == [folio : Folios, estado : Estados, handler : Users \cup {Nobody}, page : Nat]

\* _to_row: one statement reads the column and the subquery.
ToRow(f, p) == [folio |-> f, estado |-> estado(f), handler |-> Handler(historial[f]), page |-> p]

\* ORDER BY -created_at: the place of f among fs, and the folio at each place.
Newer(f)        == { g \in Folios : Rank(g) < Rank(f) }
Position(f, fs) == Cardinality(fs \cap Newer(f)) + 1
Ordered(fs)     == [i \in 1 .. Cardinality(fs) |-> CHOOSE f \in fs : Position(f, fs) = i]

\* qs[offset : offset + page_size].
Slice(fs, p) ==
  LET s  == Ordered(fs)
      lo == (p - 1) * PageSize
      hi == IF lo + PageSize < Len(s) THEN lo + PageSize ELSE Len(s)
  IN  [i \in 1 .. (IF hi > lo THEN hi - lo ELSE 0) |-> ToRow(s[lo + i], p)]

\* Mutant: pages counted from zero.
NextFromZero(p, n) == p + 1 < (n + PageSize - 1) \div PageSize

HasNext(p, n) == p < (n + PageSize - 1) \div PageSize

\* The sums of aggregate_by_tipo and aggregate_by_month: GROUP BY loses nothing.
MonthFilter(q) ==
  LET fl == Filter(q)
      w  == DefaultMonthWindow(Today)
  IN  IF fl.from = NoDate /\ fl.to = NoDate THEN [fl EXCEPT !.from = w[1], !.to = w[2]] ELSE fl

InMonths(q) == { f \in Filed : Passes(f, MonthFilter(q)) }
-----------------------------------------------------------------------------
NoCounts == [byTipo |-> 0, byMonth |-> 0]

ReportesInit ==
  /\ TablesInit
  /\ at = [d \in Readers |-> "idle"]
  /\ query = [d \in Readers |-> CHOOSE q \in Queries : TRUE]
  /\ page = [d \in Readers |-> 1]
  /\ total = [d \in Readers |-> 0]
  /\ counts = [d \in Readers |-> NoCounts]
  /\ rows = [d \in Readers |-> <<>>]
  /\ stayed = [d \in Readers |-> {}]
  /\ entered = [d \in Readers |-> {}]
  /\ left = [d \in Readers |-> {}]

\* The first query of a GET that passes the mixin and whose parameters parse.
Opens(d, q, view) ==
  /\ at[d] = "idle"
  /\ q.view \in view /\ Admits(q)
  /\ q.view \in {"queue", "mis"} => ~Unreadable(q.params)
  /\ query' = [query EXCEPT ![d] = q]
  /\ stayed' = [stayed EXCEPT ![d] = Matching(q)]
  /\ UNCHANGED <<entered, left>>

SameWatch == UNCHANGED <<query, stayed, entered, left>>

\* 403 from the mixin, or the ValueError of _read_filters as a 500.
Refuse(d) ==
  /\ at[d] = "idle"
  /\ \E q \in Queries : /\ ~Admits(q) \/ (q.view \in {"queue", "mis"} /\ Unreadable(q.params))
                        /\ query' = [query EXCEPT ![d] = q]
  /\ at' = [at EXCEPT ![d] = "refused"]
  /\ UNCHANGED <<page, total, counts, rows, stayed, entered, left>>

\* _paginate: COUNT ...
CountFirst(d) ==
  \E q \in Queries :
    /\ Opens(d, q, Lists)
    /\ total' = [total EXCEPT ![d] = Cardinality(Matching(q))]
    /\ at' = [at EXCEPT ![d] = "counted"]
    /\ UNCHANGED <<page, counts, rows>>

\* ... then the slice.
SlicePage(d) ==
  /\ at[d] = "counted"
  /\ rows' = [rows EXCEPT ![d] = @ \o Slice(Matching(PageQuery(query[d], page[d])), page[d])]
  /\ at' = [at EXCEPT ![d] = IF HasNext(page[d], total[d]) THEN "paged" ELSE "done"]
  /\ SameWatch /\ UNCHANGED <<page, total, counts>>

\* "Siguiente": another GET.
CountNext(d) ==
  /\ at[d] = "paged"
  /\ page' = [page EXCEPT ![d] = @ + 1]
  /\ total' = [total EXCEPT ![d] = Cardinality(Matching(PageQuery(query[d], page[d] + 1)))]
  /\ at' = [at EXCEPT ![d] = "counted"]
  /\ SameWatch /\ UNCHANGED <<counts, rows>>

\* dashboard: the total is the sum of the first of three queries.
ByEstado(d) ==
  \E q \in Queries :
    /\ Opens(d, q, {"dashboard", "pdf"})
    /\ total' = [total EXCEPT ![d] = Cardinality(Matching(q))]
    /\ at' = [at EXCEPT ![d] = "estado"]
    /\ UNCHANGED <<page, counts, rows>>

ByTipo(d) ==
  /\ at[d] = "estado"
  /\ counts' = [counts EXCEPT ![d].byTipo = Cardinality(Matching(query[d]))]
  /\ at' = [at EXCEPT ![d] = "tipo"]
  /\ SameWatch /\ UNCHANGED <<page, total, rows>>

ByMonth(d) ==
  /\ at[d] = "tipo"
  /\ counts' = [counts EXCEPT ![d].byMonth = Cardinality(InMonths(query[d]))]
  /\ at' = [at EXCEPT ![d] = IF query[d].view = "pdf" THEN "month" ELSE "done"]
  /\ SameWatch /\ UNCHANGED <<page, total, rows>>

\* The rows of iter_for_admin, all of one statement.
AllRows(q) == LET s == Ordered(Matching(q)) IN [i \in DOMAIN s |-> ToRow(s[i], 1)]

\* The PDF shows them up to the cap, and none beyond it.
PdfRows(d) ==
  /\ at[d] = "month"
  /\ \/ /\ Cardinality(Matching(query[d])) <= RowCap
        /\ rows' = [rows EXCEPT ![d] = AllRows(query[d])]
        /\ at' = [at EXCEPT ![d] = "done"]
     \/ /\ Cardinality(Matching(query[d])) > RowCap
        /\ at' = [at EXCEPT ![d] = "truncated"]
        /\ UNCHANGED rows
  /\ SameWatch /\ UNCHANGED <<page, total, counts>>

Csv(d) ==
  \E q \in Queries :
    /\ Opens(d, q, {"csv"})
    /\ rows' = [rows EXCEPT ![d] = AllRows(q)]
    /\ at' = [at EXCEPT ![d] = "done"]
    /\ UNCHANGED <<page, total, counts>>

\* SolicitudDetailView, and get_detail_for_personal.
OwnDetailOpens(q, role)    == q.actor = Owner[q.folio] \/ q.role = role \/ q.role = "ADMIN"
ReviewDetailOpens(q, role) == q.role = role \/ q.role = "ADMIN"

\* get_by_folio: the row and its tipo ...
DetailRow(d) ==
  \E q \in Queries :
    /\ Opens(d, q, Details) /\ q.folio \in Filed
    /\ rows' = [rows EXCEPT ![d] = <<[folio |-> q.folio, estado |-> estado(q.folio),
                                      handler |-> Nobody, page |-> 1]>>]
    /\ at' = [at EXCEPT ![d] =
         IF IF q.view = "detail" THEN OwnDetailOpens(q, responsible[TipoOf[q.folio]])
                                 ELSE ReviewDetailOpens(q, responsible[TipoOf[q.folio]])
         THEN "row" ELSE "refused"]
    /\ UNCHANGED <<page, total, counts>>

\* _to_detail: the row as it was read, and the handler derived from the entries.
ToDetail(row, h) == [row EXCEPT !.handler = Handler(h)]

\* ... then its historial.
DetailHistorial(d) ==
  /\ at[d] = "row"
  /\ rows' = [rows EXCEPT ![d][1] = ToDetail(@, historial[query[d].folio])]
  /\ at' = [at EXCEPT ![d] = "done"]
  /\ SameWatch /\ UNCHANGED <<page, total, counts>>

Read(d) ==
  \/ Refuse(d) \/ CountFirst(d) \/ SlicePage(d) \/ CountNext(d)
  \/ ByEstado(d) \/ ByTipo(d) \/ ByMonth(d) \/ PdfRows(d) \/ Csv(d)
  \/ DetailRow(d) \/ DetailHistorial(d)

\* History: which folios ceased or came to match while a GET was under way.
Watching(d) == at[d] \notin {"idle", "done", "truncated", "refused"}

Sees(d) == Matching(query[d])

Watch ==
  LET gone(d) == Sees(d) \ Sees(d)'
      new(d)  == Sees(d)' \ Sees(d)
  IN  /\ stayed'  = [d \in Readers |-> IF Watching(d) THEN stayed[d] \ gone(d) ELSE stayed[d]]
      /\ left'    = [d \in Readers |-> IF Watching(d) THEN left[d] \cup gone(d) ELSE left[d]]
      /\ entered' = [d \in Readers |-> IF Watching(d) THEN entered[d] \cup new(d) ELSE entered[d]]

\* A commit, as the readers under way notice it.
Meanwhile ==
  /\ \/ \E f \in Folios : File(f) \/ (Written < MaxRows /\ Transition(f))
     \/ \E t \in Tipos : EditTipo(t)
  /\ UNCHANGED <<at, query, page, total, counts, rows>>
  /\ Watch

ReportesNext == Meanwhile \/ \E d \in Readers : Read(d) /\ UNCHANGED tables

ReportesSpec == ReportesInit /\ [][ReportesNext]_reportesVars
-----------------------------------------------------------------------------
ReportesTypeOK ==
  /\ historial \in [Folios -> Seq(HistorialEntry)]
  /\ responsible \in [Tipos -> CatalogueRoles]
  /\ at \in [Readers -> {"idle", "counted", "paged", "estado", "tipo", "month", "row",
                         "done", "truncated", "refused"}]
  /\ query \in [Readers -> Queries]
  /\ page \in [Readers -> Nat \ {0}]
  /\ total \in [Readers -> Nat]
  /\ counts \in [Readers -> [byTipo: Nat, byMonth: Nat]]
  /\ rows \in [Readers -> Seq(SolicitudRow)]
  /\ stayed \in [Readers -> SUBSET Folios]
  /\ entered \in [Readers -> SUBSET Folios]
  /\ left \in [Readers -> SUBSET Folios]

\* The "Atendida por" of a row that shows n entries of the historial of f: who
\* took it last among them.
TookLast(f, n, who) ==
  IF \E i \in 1 .. n : historial[f][i].nuevo = "EN_PROCESO"
  THEN \E i \in 1 .. n :
         /\ historial[f][i].nuevo = "EN_PROCESO" /\ historial[f][i].actor = who
         /\ \A j \in i + 1 .. n : historial[f][j].nuevo # "EN_PROCESO"
  ELSE who = Nobody

\* A row of a list or an export is one committed state of its folio, estado and
\* handler together, also when two people took it at once; a detail is two
\* readings, and its handler is never older than its estado: a folio shown as
\* taken or finished always says by whom.
RowsAreCommittedStates ==
  \A d \in Readers : at[d] \in {"paged", "done"} =>
    \A k \in DOMAIN rows[d] :
      LET row == rows[d][k] IN
      \E m, n \in DOMAIN historial[row.folio] :
        /\ row.estado = historial[row.folio][m].nuevo
        /\ TookLast(row.folio, n, row.handler)
        /\ IF query[d].view \in Details THEN m <= n ELSE m = n
        /\ row.estado \in {"EN_PROCESO", "FINALIZADA"} => row.handler # Nobody

Shown(d) == { rows[d][k].folio : k \in DOMAIN rows[d] }

\* Every page of the walk had the filter of the first one.
OneFilter(d) ==
  \A p \in 1 .. page[d] : Filter(PageQuery(query[d], p)) = Filter(query[d])

\* Offset pages of a list that moves: somebody who walks to the last page with one
\* filter misses a folio that matched all along only if a newer one left or came in
\* meanwhile, and sees one twice only if a newer one came in.  A walk through the
\* report list always has one filter.
WalksAreExplained ==
  \A d \in Readers : query[d].view = "list" \/ (query[d].view \in Lists /\ OneFilter(d)) =>
    /\ at[d] = "done" =>
         \A f \in stayed[d] \ Shown(d) : Newer(f) \cap (left[d] \cup entered[d]) # {}
    /\ \A i, j \in DOMAIN rows[d] :
         i < j /\ rows[d][i].folio = rows[d][j].folio
           => Newer(rows[d][i].folio) \cap entered[d] # {}

\* Filed by today, in the present month or in one of the eleven before it.
Recent(f) ==
  /\ FiledOn[f] <= Today
  /\ 12 * (Year(Today) - Year(FiledOn[f])) + Month(Today) - Month(FiledOn[f]) <= 11

\* The folios the chart counts: those in its window unless dates were asked for.
Open(q)        == Filter(q).from = NoDate /\ Filter(q).to = NoDate
Charted(q, fs) == IF Open(q) THEN { f \in fs : Recent(f) } ELSE fs

\* What matched at some time since the first query.
Some(d) == stayed[d] \cup entered[d] \cup left[d]

\* The figures of one dashboard are separate readings: each counts whatever
\* matched all along and nothing that never matched, so total, table and chart
\* differ by what moved meanwhile and by what is outside the chart; the same
\* holds for the rows printed under the figures of a PDF.
FiguresDifferByMoves ==
  \A d \in Readers : at[d] \in {"done", "truncated"} /\ query[d].view \in {"dashboard", "pdf"} =>
    /\ total[d] \in Cardinality(stayed[d]) .. Cardinality(Some(d))
    /\ counts[d].byTipo \in Cardinality(stayed[d]) .. Cardinality(Some(d))
    /\ counts[d].byMonth \in Cardinality(Charted(query[d], stayed[d]))
                            .. Cardinality(Charted(query[d], Some(d)))
    /\ at[d] = "done" /\ query[d].view = "pdf" =>
         /\ stayed[d] \subseteq Shown(d) /\ Shown(d) \subseteq Some(d)
         /\ Len(rows[d]) <= RowCap
    /\ at[d] = "truncated" => Cardinality(Some(d)) > RowCap

-----------------------------------------------------------------------------
(***************************************************************************)
(* The inductive strengthening.                                            *)
(***************************************************************************)
\* A historial shows FINALIZADA only below a row of EN_PROCESO.
TakenBeforeFinished ==
  \A f \in Folios : \A i \in DOMAIN historial[f] :
    historial[f][i].nuevo = "FINALIZADA"
      => \E j \in 1 .. i - 1 : historial[f][j].nuevo = "EN_PROCESO"

\* Each stage belongs to one kind of view; nothing is shown before the first query.
Stages(d) ==
  /\ at[d] \in {"counted", "paged"} => query[d].view \in Lists
  /\ at[d] \in {"estado", "tipo"} => query[d].view \in {"dashboard", "pdf"}
  /\ at[d] \in {"month", "truncated"} => query[d].view = "pdf"
  /\ at[d] = "row" => query[d].view \in Details
  /\ at[d] \in {"idle", "estado", "tipo", "month"} => rows[d] = <<>>
  /\ at[d] = "idle" => page[d] = 1 /\ entered[d] = {} /\ left[d] = {}

\* A row that shows the first m entries of its historial, its handler the first n.
FromEntries(row, m, n) ==
  /\ row.estado = historial[row.folio][m].nuevo
  /\ TookLast(row.folio, n, row.handler)

RowsFromEntries(d) ==
  /\ at[d] \in {"counted", "paged", "done"} =>
       \A k \in DOMAIN rows[d] : \E m, n \in DOMAIN historial[rows[d][k].folio] :
         /\ FromEntries(rows[d][k], m, n)
         /\ IF query[d].view \in Details THEN m <= n ELSE m = n
  /\ at[d] = "row" =>
       \E m \in DOMAIN historial[query[d].folio] :
         rows[d] = <<[folio |-> query[d].folio, estado |-> historial[query[d].folio][m].nuevo,
                      handler |-> Nobody, page |-> 1]>>

\* What matches now matched all along or moved.
Moves(d) == Watching(d) => stayed[d] \subseteq Sees(d) /\ Sees(d) \subseteq Some(d)

\* The pages a walk has shown so far, and the place of f in the list as it is now.
Pages(d)    == IF at[d] = "counted" THEN page[d] - 1 ELSE page[d]
Place(f, d) == Position(f, Sees(d))
OneWalk(d)  == query[d].view = "list" \/ (query[d].view \in Lists /\ OneFilter(d))

ShownOnce(d) ==
  \A i, j \in DOMAIN rows[d] :
    i < j /\ rows[d][i].folio = rows[d][j].folio => Newer(rows[d][i].folio) \cap entered[d] # {}

\* A folio nothing newer than which moved keeps its place: it was shown or is still
\* to come, within the total.
NothingMissed(d) ==
  \A f \in stayed[d] : Newer(f) \cap (left[d] \cup entered[d]) = {} =>
    /\ Place(f, d) <= total[d]
    /\ f \in Shown(d) \/ Pages(d) * PageSize < Place(f, d)

\* A folio that was shown does not move behind the pages shown unless a newer one came in.
NothingAgain(d) ==
  \A f \in Shown(d) : Newer(f) \cap entered[d] = {} => Place(f, d) <= Pages(d) * PageSize

Walk(d) ==
  OneWalk(d) =>
    /\ ShownOnce(d)
    /\ at[d] \in {"counted", "paged"} => NothingMissed(d) /\ NothingAgain(d)
    /\ at[d] = "done" => \A f \in stayed[d] \ Shown(d) : Newer(f) \cap (left[d] \cup entered[d]) # {}

Figures(d) ==
  query[d].view \in {"dashboard", "pdf"} =>
    /\ at[d] \in {"estado", "tipo", "month", "done", "truncated"} =>
         total[d] \in Cardinality(stayed[d]) .. Cardinality(Some(d))
    /\ at[d] \in {"tipo", "month", "done", "truncated"} =>
         counts[d].byTipo \in Cardinality(stayed[d]) .. Cardinality(Some(d))
    /\ at[d] \in {"month", "done", "truncated"} =>
         counts[d].byMonth \in Cardinality(Charted(query[d], stayed[d]))
                                 .. Cardinality(Charted(query[d], Some(d)))
    /\ at[d] = "done" /\ query[d].view = "pdf" =>
         stayed[d] \subseteq Shown(d) /\ Shown(d) \subseteq Some(d) /\ Len(rows[d]) <= RowCap
    /\ at[d] = "truncated" => Cardinality(Some(d)) > RowCap

Reading(d) == Stages(d) /\ RowsFromEntries(d) /\ Moves(d) /\ Walk(d) /\ Figures(d)

ReportesIInv == ReportesTypeOK /\ TakenBeforeFinished /\ \A d \in Readers : Reading(d)
=============================================================================
