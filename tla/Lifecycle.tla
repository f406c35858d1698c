------------------------------ MODULE Lifecycle ------------------------------
(***************************************************************************)
(* LifecycleService.transition as the database sees it: requests of many   *)
(* threads take, finalize and cancel the same solicitudes.                 *)
(*                                                                         *)
(* A request reads the row and checks it OUTSIDE the transaction, then     *)
(* writes the new estado and appends the historial row inside one          *)
(* transaction, and only after the commit sends the mail and reads the     *)
(* detail back for the response.  Transactions are READ COMMITTED: a       *)
(* statement sees what is committed when it runs, and the UPDATE of a row  *)
(* waits for the transaction that has updated it.                          *)
(*                                                                         *)
(* parent, basis and mine are history variables: no guard reads them.      *)
(***************************************************************************)
EXTENDS LifecycleRules, Naturals, Sequences

CONSTANTS
  Requests,    \* the POSTs to the transition views, one identifier each
  Folios,      \* the solicitudes, already filed
  Users,       \* matriculas
  Tipos,       \* rows of the tipo catalogue
  Owner,       \* Owner[f]: the solicitante of f
  TipoOf,      \* TipoOf[f]: the tipo f was filed under
  CatalogueRoles, \* the responsible roles the catalogue uses
  RolesOf,     \* RolesOf[u]: the roles u's tokens may carry over time
  NoRequest    \* not a request: the owner of a free row lock

ASSUME FoliosAssumption == Folios # {}
ASSUME OwnerAssumption  == Owner \in [Folios -> Users]
ASSUME TipoAssumption   == TipoOf \in [Folios -> Tipos]
ASSUME CatalogueAssumption == CatalogueRoles \subseteq ResponsibleRoles
ASSUME RolesAssumption  == RolesOf \in [Users -> SUBSET Roles]
ASSUME NoReqAssumption  == NoRequest \notin Requests

VARIABLES
  estado,       \* estado[f]: the committed column Solicitud.estado
  historial,    \* historial[f]: the committed HistorialEstado rows, oldest first
  rowLock,      \* rowLock[f]: the request whose open transaction updated row f
  responsible,  \* responsible[t]: TipoSolicitud.responsible_role
  mails,        \* mails[f]: estado_cambiado mails handed to the SMTP relay
  pc,           \* pc[r]: how far the request is
  op,           \* op[r]: what it asks: action, folio, actor, role
  seen,         \* seen[r]: the local detail.estado
  shown,        \* shown[r]: the detail of the response: estado and rows read
  basis,        \* basis[r]: rows of the historial when seen[r] was read
  mine,         \* mine[r]: index of the historial row r committed
  parent        \* parent[f][i]: the row whose estado the writer of row i saw

db   == <<estado, historial, parent>>
vars == <<estado, historial, rowLock, responsible, mails, pc, op, seen, shown,
          basis, mine, parent>>

Entry   == [anterior: Estados \cup {NoEstado}, nuevo: Estados,
            actor: Users, role: Roles]
Mail    == [entry: Nat, destino: Estados]
Request == [action: Actions, folio: Folios, actor: Users, role: Roles]
Steps   == {"idle", "authorized", "updated", "committed",
            "notified", "rereading", "done", "rejected", "failed"}
Ended   == {"done", "rejected", "failed"}

Last(s)    == s[Len(s)]
Destino(r) == TRANSITIONS[<<seen[r], op[r].action>>]

\* An idle thread holds no request: any value does.
NoOp == CHOOSE o \in Request : TRUE
NothingShown == [estado |-> "CREADA", rows |-> 0]

Init ==
  /\ estado = [f \in Folios |-> "CREADA"]
  /\ historial \in [Folios -> { <<e>> : e \in [anterior: {NoEstado}, nuevo: {"CREADA"},
                                               actor: Users, role: CreatorRoles] }]
  /\ \A f \in Folios : /\ historial[f][1].actor = Owner[f]
                       /\ historial[f][1].role \in RolesOf[Owner[f]]
  /\ rowLock = [f \in Folios |-> NoRequest]
  /\ responsible \in [Tipos -> CatalogueRoles]
  /\ mails = [f \in Folios |-> <<>>]
  /\ pc = [r \in Requests |-> "idle"]
  /\ op = [r \in Requests |-> NoOp]
  /\ seen = [r \in Requests |-> "CREADA"]
  /\ shown = [r \in Requests |-> NothingShown]
  /\ basis = [r \in Requests |-> 0]
  /\ mine = [r \in Requests |-> 0]
  /\ parent = [f \in Folios |-> <<0>>]

(***************************************************************************)
(* The steps of one request.                                               *)
(***************************************************************************)
\* The views, each with the role its mixin lets through and its one verb.
TakeView(o)             == o.role \in ReviewerRoles /\ o.action = "atender"
FinalizeView(o)         == o.role \in ReviewerRoles /\ o.action = "finalizar"
CancelByPersonalView(o) == o.role \in ReviewerRoles /\ o.action = "cancelar"
CancelOwnView(o)        == o.role \in CreatorRoles /\ o.action = "cancelar"

\* A POST that some role of the actor gets past a view.
Arrives(o) ==
  /\ o.role \in RolesOf[o.actor]
  /\ TakeView(o) \/ FinalizeView(o) \/ CancelByPersonalView(o) \/ CancelOwnView(o)

\* _authorize and the TRANSITIONS lookup, on the row and the tipo one query read.
Admits(o) ==
  LET f == o.folio IN
  /\ Authorized(o.action, estado[f], o.role, responsible[TipoOf[f]], o.actor = Owner[f])
  /\ <<estado[f], o.action>> \in DOMAIN TRANSITIONS

\* The view hands the request to transition, which reads the detail outside any
\* transaction; from here on detail.estado is a local of the thread.
ReadDetail(r) ==
  /\ pc[r] = "idle"
  /\ \E o \in Request :
       /\ Arrives(o) /\ Admits(o)
       /\ op' = [op EXCEPT ![r] = o]
       /\ seen' = [seen EXCEPT ![r] = estado[o.folio]]
       /\ basis' = [basis EXCEPT ![r] = Len(historial[o.folio])]
  /\ pc' = [pc EXCEPT ![r] = "authorized"]
  /\ UNCHANGED <<db, rowLock, responsible, mails, shown, mine>>

\* Unauthorized or InvalidStateTransition: the view flashes it, nothing changes.
Reject(r) ==
  /\ pc[r] = "idle"
  /\ \E o \in Request : Arrives(o) /\ ~Admits(o)
  /\ pc' = [pc EXCEPT ![r] = "rejected"]
  /\ UNCHANGED <<db, rowLock, responsible, mails, op, seen, shown, basis, mine>>

\* Mutant: no transaction, the new estado shows before its historial row.
UpdateEstadoAlone(r) ==
  /\ pc[r] = "authorized" /\ rowLock[op[r].folio] = NoRequest
  /\ rowLock' = [rowLock EXCEPT ![op[r].folio] = r]
  /\ estado' = [estado EXCEPT ![op[r].folio] = Destino(r)]
  /\ pc' = [pc EXCEPT ![r] = "updated"]
  /\ UNCHANGED <<historial, parent, responsible, mails, op, seen, shown, basis, mine>>

\* update_estado: an unconditional UPDATE, which waits for the row and whose
\* value nobody else sees before the commit.
UpdateEstado(r) ==
  /\ pc[r] = "authorized"
  /\ rowLock[op[r].folio] = NoRequest
  /\ rowLock' = [rowLock EXCEPT ![op[r].folio] = r]
  /\ pc' = [pc EXCEPT ![r] = "updated"]
  /\ UNCHANGED <<db, responsible, mails, op, seen, shown, basis, mine>>

\* Mutant: estado_anterior is read again when the row is written.
EntryOfReread(r) == [anterior |-> estado[op[r].folio], nuevo |-> Destino(r),
                     actor |-> op[r].actor, role |-> op[r].role]

\* The historial row: both estados are the locals of transition.
NewEntry(r) == [anterior |-> seen[r], nuevo |-> Destino(r),
                actor |-> op[r].actor, role |-> op[r].role]

\* Mutant: the newest historial row is written over.
OverwriteAndCommit(r) ==
  LET f == op[r].folio IN
  /\ pc[r] = "updated"
  /\ estado' = [estado EXCEPT ![f] = Destino(r)]
  /\ historial' = [historial EXCEPT ![f][Len(historial[f])] = NewEntry(r)]
  /\ mine' = [mine EXCEPT ![r] = Len(historial[f])]
  /\ rowLock' = [rowLock EXCEPT ![f] = NoRequest]
  /\ pc' = [pc EXCEPT ![r] = "committed"]
  /\ UNCHANGED <<parent, responsible, mails, op, seen, shown, basis>>

\* historial.append and COMMIT: both writes become visible, the row is free.
AppendAndCommit(r) ==
  LET f == op[r].folio IN
  /\ pc[r] = "updated"
  /\ estado' = [estado EXCEPT ![f] = Destino(r)]
  /\ historial' = [historial EXCEPT ![f] = Append(@, NewEntry(r))]
  /\ parent' = [parent EXCEPT ![f] = Append(@, basis[r])]
  /\ mine' = [mine EXCEPT ![r] = Len(historial[f]) + 1]
  /\ rowLock' = [rowLock EXCEPT ![f] = NoRequest]
  /\ pc' = [pc EXCEPT ![r] = "committed"]
  /\ UNCHANGED <<responsible, mails, op, seen, shown, basis>>

\* Mutant: called inside the transaction.
NotifyInTransaction(r) ==
  LET f == op[r].folio IN
  /\ pc[r] = "updated"
  /\ mails' = [mails EXCEPT ![f] =
                 Append(@, [entry |-> Len(historial[f]) + 1, destino |-> Destino(r)])]
  /\ UNCHANGED <<db, rowLock, responsible, pc, op, seen, shown, basis, mine>>

\* notify_state_change: one mail to the solicitante with the destino of THIS
\* request; an EmailDeliveryError is logged and swallowed.
Notify(r) ==
  /\ pc[r] = "committed"
  /\ \/ mails' = [mails EXCEPT ![op[r].folio] =
                    Append(@, [entry |-> mine[r], destino |-> Destino(r)])]
     \/ UNCHANGED mails
  /\ pc' = [pc EXCEPT ![r] = "notified"]
  /\ UNCHANGED <<db, rowLock, responsible, op, seen, shown, basis, mine>>

\* Mutant: the response shows the detail read at the start.
RereadNothing(r) ==
  /\ pc[r] = "notified"
  /\ shown' = [shown EXCEPT ![r] = [estado |-> seen[r], rows |-> 0]]
  /\ pc' = [pc EXCEPT ![r] = "rereading"]
  /\ UNCHANGED <<db, rowLock, responsible, mails, op, seen, basis, mine>>

\* The closing get_by_folio is two queries: first the row ...
RereadRow(r) ==
  /\ pc[r] = "notified"
  /\ shown' = [shown EXCEPT ![r] = [estado |-> estado[op[r].folio], rows |-> 0]]
  /\ pc' = [pc EXCEPT ![r] = "rereading"]
  /\ UNCHANGED <<db, rowLock, responsible, mails, op, seen, basis, mine>>

\* ... then its historial.
RereadHistorial(r) ==
  /\ pc[r] = "rereading"
  /\ shown' = [shown EXCEPT ![r] = [@ EXCEPT !.rows = Len(historial[op[r].folio])]]
  /\ pc' = [pc EXCEPT ![r] = "done"]
  /\ UNCHANGED <<db, rowLock, responsible, mails, op, seen, basis, mine>>

\* Mutant: the transaction of a dead request stays open.
KeepRows(r) == UNCHANGED rowLock

\* ROLLBACK: whatever row r has updated is free.
ReleaseRows(r) ==
  rowLock' = [f \in Folios |-> IF rowLock[f] = r THEN NoRequest ELSE rowLock[f]]

\* The worker dies or the database errs: an open transaction is rolled back and
\* the locals of the thread are gone.
Fail(r) ==
  /\ pc[r] \notin Ended \cup {"idle"}
  /\ ReleaseRows(r)
  /\ pc' = [pc EXCEPT ![r] = "failed"]
  /\ op' = [op EXCEPT ![r] = NoOp]
  /\ seen' = [seen EXCEPT ![r] = "CREADA"]
  /\ shown' = [shown EXCEPT ![r] = NothingShown]
  /\ basis' = [basis EXCEPT ![r] = 0]
  /\ mine' = [mine EXCEPT ![r] = 0]
  /\ UNCHANGED <<db, responsible, mails>>

\* An administrator edits the tipo: the detail reads the live row.
EditTipo(t) ==
  /\ \E role \in CatalogueRoles \ {responsible[t]} :
       responsible' = [responsible EXCEPT ![t] = role]
  /\ UNCHANGED <<db, rowLock, mails, pc, op, seen, shown, basis, mine>>

\* What the thread that serves r does once it has read the detail.
Step(r) ==
  \/ UpdateEstado(r) \/ AppendAndCommit(r)
  \/ Notify(r) \/ RereadRow(r) \/ RereadHistorial(r)

Next ==
  \/ \E r \in Requests : ReadDetail(r) \/ Reject(r) \/ Step(r) \/ Fail(r)
  \/ \E t \in Tipos : EditTipo(t)

Spec == Init /\ [][Next]_vars

\* A thread that has a request runs it: the scheduler never abandons it.  Nobody
\* owes us a request, a failure or an edit of the catalogue.
Fairness == \A r \in Requests : WF_vars(Step(r))

FairSpec == Spec /\ Fairness
-----------------------------------------------------------------------------
TypeOK ==
  /\ estado \in [Folios -> Estados]
  /\ historial \in [Folios -> Seq(Entry)]
  /\ rowLock \in [Folios -> Requests \cup {NoRequest}]
  /\ responsible \in [Tipos -> CatalogueRoles]
  /\ mails \in [Folios -> Seq(Mail)]
  /\ pc \in [Requests -> Steps]
  /\ op \in [Requests -> Request]
  /\ seen \in [Requests -> Estados]
  /\ shown \in [Requests -> [estado: Estados, rows: Nat]]
  /\ basis \in [Requests -> Nat]
  /\ mine \in [Requests -> Nat]
  /\ parent \in [Folios -> Seq(Nat)]

\* RF-LIF-03: the estado and its historial row commit together.  At every
\* instant the column equals estado_nuevo of the newest row, whatever requests
\* are half way.
EstadoIsLastEntry ==
  \A f \in Folios : historial[f] # <<>> /\ estado[f] = Last(historial[f]).nuevo

\* The matrix of RF-LIF-01, written out from the requirement.
LegalChange == { <<"CREADA", "EN_PROCESO">>, <<"EN_PROCESO", "FINALIZADA">>,
                 <<"CREADA", "CANCELADA">>, <<"EN_PROCESO", "CANCELADA">> }

\* What the stale read leaves of RF-LIF-02: each row continues a row its writer
\* really saw, by a change of the matrix.  The historial is a tree, not a chain.
EntryContinuesASeenOne ==
  \A f \in Folios : \A i \in DOMAIN historial[f] :
    i > 1 => LET e == historial[f][i]
                 p == parent[f][i] IN
             /\ p \in 1 .. i - 1
             /\ e.anterior = historial[f][p].nuevo
             /\ <<e.anterior, e.nuevo>> \in LegalChange

\* RF-LIF-05 as the authorization sees it: somebody who is no reviewer appears
\* in a historial only as the owner who cancels what was CREADA when read.
SolicitanteOnlyCancelsOwn ==
  \A f \in Folios : \A i \in DOMAIN historial[f] :
    LET e == historial[f][i] IN
    i > 1 /\ e.role \notin ReviewerRoles =>
      /\ e.actor = Owner[f]
      /\ e.anterior = "CREADA"
      /\ e.nuevo = "CANCELADA"

\* A folio whose writers never overlapped: each saw the newest row.
Serial(f) == \A i \in DOMAIN parent[f] : parent[f][i] = i - 1

\* Without overlap the documented machine is what runs: at most two
\* transitions, one take, one closing row and nothing after it.
SerialFolioObeysTheMachine ==
  \A f \in Folios : Serial(f) =>
    /\ Len(historial[f]) <= 3
    /\ \A i \in DOMAIN historial[f] :
         historial[f][i].nuevo \in TERMINAL => i = Len(historial[f])

\* "Notifications fire after commit": every mail announces the estado_nuevo of
\* a committed row, and no row is announced twice.
MailsAnnounceCommits ==
  \A f \in Folios : \A i \in DOMAIN mails[f] :
    LET m == mails[f][i] IN
    /\ m.entry \in 2 .. Len(historial[f])
    /\ m.destino = historial[f][m.entry].nuevo
    /\ \A j \in DOMAIN mails[f] : mails[f][j].entry = m.entry => j = i

\* RF-LIF-06: the response is read in two queries, so it may be newer than the
\* request's own write, but the estado it shows is always explained by one of
\* the rows it shows, and the request's own row is among them.
Explained(r, rows) ==
  \E i \in mine[r] .. rows : historial[op[r].folio][i].nuevo = shown[r].estado

ResponseIsExplained ==
  \A r \in Requests : pc[r] = "done" =>
    /\ shown[r].rows \in mine[r] .. Len(historial[op[r].folio])
    /\ Explained(r, shown[r].rows)

\* Every admitted request ends, also the one that waits for a row another
\* request has updated: it answers or it dies.
RequestsEnd == \A r \in Requests : pc[r] = "authorized" ~> pc[r] \in Ended

(***************************************************************************)
(* The inductive strengthening: what is true of a request between its      *)
(* stale read and its end, whatever the other requests do meanwhile.       *)
(***************************************************************************)
Live   == {"authorized", "updated"}                          \* read, not committed
Posted == {"committed", "notified", "rereading", "done"}     \* committed

FolioShape ==
  \A f \in Folios :
    /\ Len(historial[f]) >= 1
    /\ Len(parent[f]) = Len(historial[f])
    /\ historial[f][1].nuevo = "CREADA"

\* What was read stays readable: rows are never changed nor removed.
HoldsItsBasis(r) ==
  LET f == op[r].folio IN
  /\ basis[r] \in 1 .. Len(historial[f])
  /\ seen[r] = historial[f][basis[r]].nuevo
  /\ <<seen[r], op[r].action>> \in DOMAIN TRANSITIONS
  /\ \/ op[r].role \in ReviewerRoles
     \/ op[r].actor = Owner[f] /\ op[r].action = "cancelar" /\ seen[r] = "CREADA"

OwnsItsRow(r) ==
  LET f == op[r].folio IN
  /\ mine[r] \in 2 .. Len(historial[f])
  /\ historial[f][mine[r]].nuevo = Destino(r)

LiveRequestsHoldTheirBasis == \A r \in Requests : pc[r] \in Live => HoldsItsBasis(r)

PostedRequestsOwnTheirRow == \A r \in Requests : pc[r] \in Posted => OwnsItsRow(r)

RowsHaveOneOwner ==
  \A r, s \in Requests :
    pc[r] \in Posted /\ pc[s] \in Posted /\ op[r].folio = op[s].folio /\ mine[r] = mine[s]
      => r = s

UnannouncedUntilNotified ==
  \A r \in Requests : pc[r] = "committed" =>
    \A i \in DOMAIN mails[op[r].folio] : mails[op[r].folio][i].entry # mine[r]

RereadIsExplained ==
  \A r \in Requests : pc[r] = "rereading" =>
    Explained(r, Len(historial[op[r].folio]))

IInv ==
  /\ TypeOK
  /\ FolioShape
  /\ EstadoIsLastEntry
  /\ EntryContinuesASeenOne
  /\ SolicitanteOnlyCancelsOwn
  /\ LiveRequestsHoldTheirBasis
  /\ PostedRequestsOwnTheirRow
  /\ RowsHaveOneOwner
  /\ UnannouncedUntilNotified
  /\ MailsAnnounceCommits
  /\ RereadIsExplained
  /\ ResponseIsExplained

\* The tables implement the Ledger: hiding requests and locks, every step is a
\* recorded change, an announcement, or nothing.
Promise == INSTANCE Ledger
ImplementsLedger == Promise!Contract

\* Seen from the column alone: it moves along the matrix from some estado it has
\* had.  That is all the components beside the lifecycle rely on.
View == INSTANCE EstadoColumn
          WITH past <- [f \in Folios |-> { historial[f][i].nuevo : i \in DOMAIN historial[f] }]
ImplementsColumn == View!ColumnSpec

\* Seen by who reads the tables: a historial is only added to, along the matrix, and
\* tipos change hands.  That is all the lists, exports and details rely on.
Shown(e) == [nuevo |-> e.nuevo, actor |-> e.actor]
Tables == INSTANCE Historiales
            WITH historial <- [f \in Folios |-> [i \in DOMAIN historial[f] |-> Shown(historial[f][i])]]
ImplementsHistoriales == Tables!TablesSpec
=============================================================================
