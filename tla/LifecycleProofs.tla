--------------------------- MODULE LifecycleProofs ---------------------------
(***************************************************************************)
(* Lifecycle, proved for every set of requests, folios, users and tipos.   *)
(*                                                                         *)
(* IInv is inductive.  The one step that writes the tables is              *)
(* AppendAndCommit; its two facts are that rows are only added behind the  *)
(* existing ones (so what a request read or wrote is still at its index)   *)
(* and that the index of the new row is fresh.                             *)
(***************************************************************************)
EXTENDS Lifecycle, TLAPS

USE DEF db

\* Append keeps every element at its index and adds one behind them.
LEMMA AppendFacts ==
  ASSUME NEW S, NEW s \in Seq(S), NEW e \in S
  PROVE  /\ Append(s, e) \in Seq(S)
         /\ Len(s) \in Nat
         /\ Len(Append(s, e)) = Len(s) + 1
         /\ \A i \in 1 .. Len(s) : Append(s, e)[i] = s[i]
         /\ Append(s, e)[Len(s) + 1] = e
         /\ DOMAIN s = 1 .. Len(s)
         /\ DOMAIN Append(s, e) = 1 .. Len(s) + 1
  OBVIOUS

\* The table only holds changes of the documented matrix, and only a cancel
\* leads to CANCELADA.
LEMMA TransitionFacts ==
  ASSUME NEW est \in Estados, NEW a \in Actions, <<est, a>> \in DOMAIN TRANSITIONS
  PROVE  /\ TRANSITIONS[<<est, a>>] \in Estados
         /\ <<est, TRANSITIONS[<<est, a>>]>> \in LegalChange
         /\ a = "cancelar" => TRANSITIONS[<<est, a>>] = "CANCELADA"
  BY DEF TRANSITIONS, LegalChange, Estados, Actions

\* There is a request value, so an idle thread's local is one.
LEMMA NoOpIsARequest == NoOp \in Request
<1>1. PICK f \in Folios : TRUE
  BY FoliosAssumption
<1>2. [action |-> "atender", folio |-> f, actor |-> Owner[f], role |-> "ADMIN"] \in Request
  BY OwnerAssumption DEF Request, Actions, Roles
<1> QED
  BY <1>2 DEF NoOp

\* The initial states satisfy the invariant.
LEMMA InitHolds == Init => IInv
<1> SUFFICES ASSUME Init PROVE IInv
  OBVIOUS
<1> USE DEF Init
<1>1. /\ \A f \in Folios : /\ historial[f] \in Seq(Entry)
                           /\ Len(historial[f]) = 1
                           /\ historial[f][1].nuevo = "CREADA"
      /\ historial \in [Folios -> Seq(Entry)]
  <2> DEFINE First == { <<e>> : e \in [anterior: {NoEstado}, nuevo: {"CREADA"},
                                       actor: Users, role: CreatorRoles] }
  <2>1. First \subseteq Seq(Entry)
    <3> SUFFICES ASSUME NEW e \in [anterior: {NoEstado}, nuevo: {"CREADA"},
                                  actor: Users, role: CreatorRoles]
                 PROVE  <<e>> \in Seq(Entry)
      OBVIOUS
    <3>1. e \in Entry
      BY DEF Entry, CreatorRoles, Roles, Estados
    <3> QED
      BY <3>1
  <2>2. \A s \in First : Len(s) = 1 /\ s[1].nuevo = "CREADA"
    OBVIOUS
  <2>3. historial \in [Folios -> First]
    OBVIOUS
  <2> QED
    BY <2>1, <2>2, <2>3
<1>2. TypeOK
  BY <1>1, NoOpIsARequest, CatalogueAssumption
  DEF TypeOK, Estados, Steps, NothingShown, Mail
<1>3. FolioShape /\ EstadoIsLastEntry
  BY <1>1 DEF FolioShape, EstadoIsLastEntry, Last
<1>4. EntryContinuesASeenOne /\ SolicitanteOnlyCancelsOwn
  BY <1>1, <1>2 DEF EntryContinuesASeenOne, SolicitanteOnlyCancelsOwn, TypeOK
<1>5. /\ LiveRequestsHoldTheirBasis
      /\ PostedRequestsOwnTheirRow
      /\ RowsHaveOneOwner
      /\ UnannouncedUntilNotified
      /\ MailsAnnounceCommits
      /\ RereadIsExplained
      /\ ResponseIsExplained
  BY DEF LiveRequestsHoldTheirBasis, PostedRequestsOwnTheirRow, RowsHaveOneOwner,
         UnannouncedUntilNotified, MailsAnnounceCommits, RereadIsExplained, ResponseIsExplained, Live, Posted
<1> QED
  BY <1>2, <1>3, <1>4, <1>5 DEF IInv

\* The tables only grow behind what they hold.
Grows ==
  \A f \in Folios :
    /\ Len(historial'[f]) \in Nat
    /\ Len(historial[f]) <= Len(historial'[f])
    /\ \A i \in 1 .. Len(historial[f]) : historial'[f][i] = historial[f][i]

\* The locals of request s stay.
SameLocals(s) ==
  /\ pc'[s] = pc[s] /\ op'[s] = op[s] /\ seen'[s] = seen[s]
  /\ shown'[s] = shown[s] /\ basis'[s] = basis[s] /\ mine'[s] = mine[s]

\* What the invariant says of a single request.
RequestOK(s) ==
  /\ pc[s] \in Live => HoldsItsBasis(s)
  /\ pc[s] \in Posted => OwnsItsRow(s)
  /\ pc[s] = "rereading" => Explained(s, Len(historial[op[s].folio]))
  /\ pc[s] = "done" => /\ shown[s].rows \in mine[s] .. Len(historial[op[s].folio])
                       /\ Explained(s, shown[s].rows)

\* The per-request facts are the conjuncts of IInv about requests.
LEMMA RequestsOK ==
  (\A s \in Requests : RequestOK(s)) <=> /\ LiveRequestsHoldTheirBasis
                                        /\ PostedRequestsOwnTheirRow
                                        /\ RereadIsExplained
                                        /\ ResponseIsExplained
  BY DEF RequestOK, LiveRequestsHoldTheirBasis, PostedRequestsOwnTheirRow,
         RereadIsExplained, ResponseIsExplained

\* A request nobody touches keeps its facts while the tables grow.
LEMMA OthersKeepTheirs ==
  ASSUME TypeOK, Grows, NEW s \in Requests, RequestOK(s), SameLocals(s)
  PROVE  RequestOK(s)'
<1> DEFINE f == op[s].folio
<1>1. f \in Folios /\ Len(historial[f]) \in Nat
  BY DEF TypeOK, Request
<1>2. basis[s] \in Nat /\ mine[s] \in Nat /\ shown[s].rows \in Nat
  BY DEF TypeOK
<1>3. pc[s] \in Live => HoldsItsBasis(s)'
  BY <1>1, <1>2 DEF RequestOK, HoldsItsBasis, Grows, SameLocals
<1>4. pc[s] \in Posted => OwnsItsRow(s)'
  BY <1>1, <1>2, SMTT(20) DEF RequestOK, OwnsItsRow, Destino, Grows, SameLocals
<1>5. pc[s] = "rereading" => Explained(s, Len(historial[f]))'
  <2> SUFFICES ASSUME pc[s] = "rereading"
               PROVE  Explained(s, Len(historial[f]))'
    OBVIOUS
  <2>1. PICK i \in mine[s] .. Len(historial[f]) : historial[f][i].nuevo = shown[s].estado
    BY DEF RequestOK, Explained
  <2>2. i \in 1 .. Len(historial[f]) /\ i \in mine[s] .. Len(historial'[f])
    BY <1>1, <1>2, <2>1 DEF RequestOK, OwnsItsRow, Posted, Grows
  <2> QED
    BY <1>1, <2>1, <2>2 DEF Explained, Grows, SameLocals
<1>6. pc[s] = "done" => /\ shown[s].rows \in mine[s] .. Len(historial'[f])
                       /\ Explained(s, shown[s].rows)'
  <2> SUFFICES ASSUME pc[s] = "done"
               PROVE  /\ shown[s].rows \in mine[s] .. Len(historial'[f])
                      /\ Explained(s, shown[s].rows)'
    OBVIOUS
  <2>1. PICK i \in mine[s] .. shown[s].rows : historial[f][i].nuevo = shown[s].estado
    BY DEF RequestOK, Explained
  <2>2. shown[s].rows \in mine[s] .. Len(historial[f]) /\ mine[s] >= 2
    BY DEF RequestOK, OwnsItsRow, Posted
  <2>3. i \in 1 .. Len(historial[f])
    BY <1>1, <1>2, <2>1, <2>2
  <2> QED
    BY <1>1, <1>2, <2>1, <2>2, <2>3, SMTT(20) DEF Explained, Grows, SameLocals
<1> QED
  BY <1>3, <1>4, <1>5, <1>6 DEF RequestOK, SameLocals

\* The facts about the tables alone survive a step that leaves them alone.
LEMMA TablesUntouched ==
  ASSUME IInv, UNCHANGED <<estado, historial, parent>>
  PROVE  /\ FolioShape'
         /\ EstadoIsLastEntry'
         /\ EntryContinuesASeenOne'
         /\ SolicitanteOnlyCancelsOwn'
  BY DEF IInv, FolioShape, EstadoIsLastEntry, Last, EntryContinuesASeenOne,
         SolicitanteOnlyCancelsOwn
\* Mails stay true while the tables grow.
LEMMA MailsKept ==
  ASSUME IInv, Grows, UNCHANGED mails
  PROVE  MailsAnnounceCommits'
<1> SUFFICES ASSUME NEW f \in Folios, NEW i \in DOMAIN mails[f]
             PROVE  /\ mails[f][i].entry \in 2 .. Len(historial'[f])
                    /\ mails[f][i].destino = historial'[f][mails[f][i].entry].nuevo
                    /\ \A j \in DOMAIN mails[f] :
                         mails[f][j].entry = mails[f][i].entry => j = i
  BY DEF MailsAnnounceCommits
<1>1. /\ mails[f][i].entry \in 2 .. Len(historial[f])
      /\ mails[f][i].destino = historial[f][mails[f][i].entry].nuevo
      /\ \A j \in DOMAIN mails[f] : mails[f][j].entry = mails[f][i].entry => j = i
  BY DEF IInv, MailsAnnounceCommits
<1>2. Len(historial[f]) \in Nat
  BY DEF IInv, TypeOK
<1> QED
  BY <1>1, <1>2 DEF Grows

\* A step of r that writes no table: what is left to show is about r itself.
LEMMA LocalStep ==
  ASSUME IInv, NEW r \in Requests, TypeOK',
         UNCHANGED <<estado, historial, parent, mails>>,
         \A s \in Requests \ {r} : SameLocals(s),
         RequestOK(r)',
         pc'[r] \in Posted => pc[r] \in Posted /\ op'[r] = op[r] /\ mine'[r] = mine[r],
         pc'[r] # "committed"
  PROVE  IInv'
<1>1. Grows
  BY DEF IInv, TypeOK, Grows
<1>2. /\ FolioShape' /\ EstadoIsLastEntry'
      /\ EntryContinuesASeenOne' /\ SolicitanteOnlyCancelsOwn'
  BY TablesUntouched
<1>3. \A s \in Requests : RequestOK(s)'
  <2>1. ASSUME NEW s \in Requests \ {r} PROVE RequestOK(s)'
    BY <1>1, OthersKeepTheirs, RequestsOK DEF IInv
  <2> QED
    BY <2>1
<1>4. /\ LiveRequestsHoldTheirBasis' /\ PostedRequestsOwnTheirRow'
      /\ RereadIsExplained' /\ ResponseIsExplained'
  BY <1>3 DEF RequestOK, LiveRequestsHoldTheirBasis, PostedRequestsOwnTheirRow,
              RereadIsExplained, ResponseIsExplained
<1>5. RowsHaveOneOwner'
  BY DEF IInv, RowsHaveOneOwner, SameLocals
<1>6. UnannouncedUntilNotified'
  BY DEF IInv, UnannouncedUntilNotified, SameLocals
<1>7. MailsAnnounceCommits'
  BY <1>1, MailsKept
<1> QED
  BY <1>2, <1>4, <1>5, <1>6, <1>7 DEF IInv

-----------------------------------------------------------------------------
(***************************************************************************)
(* One lemma per action.                                                   *)
(***************************************************************************)
\* The admission check leaves in the request's locals what authorizes it.
LEMMA ReadDetailStep ==
  ASSUME IInv, NEW r \in Requests, ReadDetail(r)
  PROVE  IInv'
<1> USE DEF ReadDetail
<1>1. PICK o \in Request : /\ Arrives(o) /\ Admits(o)
                           /\ op' = [op EXCEPT ![r] = o]
                           /\ seen' = [seen EXCEPT ![r] = estado[o.folio]]
                           /\ basis' = [basis EXCEPT ![r] = Len(historial[o.folio])]
  OBVIOUS
<1>2. /\ o.folio \in Folios /\ o.role \in Roles /\ o.action \in Actions
      /\ o.actor \in Users
  BY DEF Request
<1>3. /\ Len(historial[o.folio]) \in Nat
      /\ Len(historial[o.folio]) >= 1
      /\ estado[o.folio] \in Estados
      /\ estado[o.folio] = historial[o.folio][Len(historial[o.folio])].nuevo
      /\ responsible[TipoOf[o.folio]] \in ResponsibleRoles
  <2>1. Len(historial[o.folio]) \in Nat /\ estado[o.folio] \in Estados
    BY <1>2 DEF IInv, TypeOK
  <2>2. Len(historial[o.folio]) >= 1
    BY <1>2 DEF IInv, FolioShape
  <2>3. estado[o.folio] = historial[o.folio][Len(historial[o.folio])].nuevo
    BY <1>2 DEF IInv, EstadoIsLastEntry, Last
  <2>4. responsible[TipoOf[o.folio]] \in ResponsibleRoles
    BY <1>2, TipoAssumption, CatalogueAssumption DEF IInv, TypeOK
  <2> QED
    BY <2>1, <2>2, <2>3, <2>4
<1>4. TypeOK'
  BY <1>1, <1>2, <1>3 DEF IInv, TypeOK, Steps
<1>5. /\ op'[r] = o /\ seen'[r] = estado[o.folio] /\ basis'[r] = Len(historial[o.folio])
      /\ pc'[r] = "authorized"
  BY <1>1 DEF IInv, TypeOK
<1>6. HoldsItsBasis(r)'
  BY <1>1, <1>3, <1>5, SMTT(20) DEF HoldsItsBasis, Admits, Authorized, ReviewerRoles, ResponsibleRoles
<1>7. RequestOK(r)'
  BY <1>5, <1>6 DEF RequestOK, Live, Posted
<1>8. \A s \in Requests \ {r} : SameLocals(s)
  BY <1>1 DEF SameLocals, IInv, TypeOK
<1> QED
  BY <1>4, <1>5, <1>7, <1>8, LocalStep DEF Posted

\* A rejected request changes nothing else.
LEMMA RejectStep ==
  ASSUME IInv, NEW r \in Requests, Reject(r)
  PROVE  IInv'
<1> USE DEF Reject
<1>1. TypeOK'
  BY DEF IInv, TypeOK, Steps
<1>2. pc'[r] = "rejected" /\ \A s \in Requests \ {r} : SameLocals(s)
  BY DEF SameLocals, IInv, TypeOK
<1>3. RequestOK(r)'
  BY <1>2 DEF RequestOK, Live, Posted
<1> QED
  BY <1>1, <1>2, <1>3, LocalStep DEF Posted

\* Taking the row lock changes no table.
LEMMA UpdateEstadoStep ==
  ASSUME IInv, NEW r \in Requests, UpdateEstado(r)
  PROVE  IInv'
<1> USE DEF UpdateEstado
<1>1. TypeOK'
  BY DEF IInv, TypeOK, Steps
<1>2. /\ pc'[r] = "updated" /\ op'[r] = op[r] /\ seen'[r] = seen[r] /\ basis'[r] = basis[r]
      /\ \A s \in Requests \ {r} : SameLocals(s)
  BY DEF SameLocals, IInv, TypeOK
<1>3. HoldsItsBasis(r)'
  BY <1>2 DEF IInv, LiveRequestsHoldTheirBasis, HoldsItsBasis, Live
<1>4. RequestOK(r)'
  BY <1>2, <1>3 DEF RequestOK, Live, Posted
<1> QED
  BY <1>1, <1>2, <1>4, LocalStep DEF Posted

\* The row read back is explained by the rows that exist when it is read.
LEMMA RereadRowStep ==
  ASSUME IInv, NEW r \in Requests, RereadRow(r)
  PROVE  IInv'
<1> USE DEF RereadRow
<1> DEFINE f == op[r].folio
           n == Len(historial[f])
<1>1. TypeOK'
  BY DEF IInv, TypeOK, Steps, Request
<1>2. /\ pc'[r] = "rereading" /\ op'[r] = op[r] /\ seen'[r] = seen[r] /\ mine'[r] = mine[r]
      /\ shown'[r].estado = estado[f]
      /\ \A s \in Requests \ {r} : SameLocals(s)
  BY DEF SameLocals, IInv, TypeOK
<1>3. OwnsItsRow(r) /\ OwnsItsRow(r)'
  BY <1>2 DEF IInv, PostedRequestsOwnTheirRow, OwnsItsRow, Destino, Posted
<1>4. Explained(r, n)'
  <2>1. n \in Nat /\ mine[r] \in Nat /\ f \in Folios
    BY DEF IInv, TypeOK, Request
  <2>2. n \in mine[r] .. n /\ historial[f][n].nuevo = estado[f]
    BY <1>3, <2>1 DEF OwnsItsRow, IInv, EstadoIsLastEntry, Last
  <2> QED
    BY <1>2, <2>2 DEF Explained
<1>5. RequestOK(r)'
  BY <1>2, <1>3, <1>4 DEF RequestOK, Live
<1> QED
  BY <1>1, <1>2, <1>5, LocalStep DEF Posted

\* The rows read afterwards include those that explain the row.
LEMMA RereadHistorialStep ==
  ASSUME IInv, NEW r \in Requests, RereadHistorial(r)
  PROVE  IInv'
<1> USE DEF RereadHistorial
<1> DEFINE f == op[r].folio
           n == Len(historial[f])
<1>0. f \in Folios /\ n \in Nat /\ mine[r] \in Nat
  BY DEF IInv, TypeOK, Request
<1>1. TypeOK'
  BY <1>0 DEF IInv, TypeOK, Steps
<1>2. /\ pc'[r] = "done" /\ op'[r] = op[r] /\ seen'[r] = seen[r] /\ mine'[r] = mine[r]
      /\ shown'[r].estado = shown[r].estado
      /\ shown'[r].rows = n
      /\ \A s \in Requests \ {r} : SameLocals(s)
  BY DEF SameLocals, IInv, TypeOK
<1>3. OwnsItsRow(r) /\ OwnsItsRow(r)'
  BY <1>2 DEF IInv, PostedRequestsOwnTheirRow, OwnsItsRow, Destino, Posted
<1>4. Explained(r, n) /\ Explained(r, n)'
  BY <1>2 DEF IInv, RereadIsExplained, Explained
<1>5. n \in mine[r] .. n
  BY <1>0, <1>3 DEF OwnsItsRow
<1>6. RequestOK(r)'
  BY <1>2, <1>3, <1>4, <1>5 DEF RequestOK, Live, Explained
<1> QED
  BY <1>1, <1>2, <1>6, LocalStep DEF Posted

\* A request that dies frees its row and forgets its locals.
LEMMA FailStep ==
  ASSUME IInv, NEW r \in Requests, Fail(r)
  PROVE  IInv'
<1> USE DEF Fail, ReleaseRows
<1>1. TypeOK'
  BY NoOpIsARequest DEF IInv, TypeOK, Steps, Estados, NothingShown
<1>2. pc'[r] = "failed" /\ \A s \in Requests \ {r} : SameLocals(s)
  BY DEF SameLocals, IInv, TypeOK
<1>3. RequestOK(r)'
  BY <1>2 DEF RequestOK, Live, Posted
<1> QED
  BY <1>1, <1>2, <1>3, LocalStep DEF Posted

\* An edit of the catalogue touches no request: the locals of an admitted one
\* keep the authorization it was given.
LEMMA EditTipoStep ==
  ASSUME IInv, NEW t \in Tipos, EditTipo(t)
  PROVE  IInv'
<1> USE DEF EditTipo
<1>1. TypeOK'
  BY CatalogueAssumption DEF IInv, TypeOK
<1>2. /\ FolioShape' /\ EstadoIsLastEntry'
      /\ EntryContinuesASeenOne' /\ SolicitanteOnlyCancelsOwn'
  BY TablesUntouched
<1>3. Grows
  BY DEF IInv, TypeOK, Grows
<1>4. \A s \in Requests : RequestOK(s)'
  BY <1>3, OthersKeepTheirs, RequestsOK DEF IInv, SameLocals
<1>5. /\ LiveRequestsHoldTheirBasis' /\ PostedRequestsOwnTheirRow'
      /\ RereadIsExplained' /\ ResponseIsExplained'
  BY <1>4 DEF RequestOK, LiveRequestsHoldTheirBasis, PostedRequestsOwnTheirRow,
              RereadIsExplained, ResponseIsExplained
<1>6. RowsHaveOneOwner' /\ UnannouncedUntilNotified' /\ MailsAnnounceCommits'
  BY <1>3, MailsKept DEF IInv, RowsHaveOneOwner, UnannouncedUntilNotified
<1> QED
  BY <1>1, <1>2, <1>5, <1>6 DEF IInv

\* The mail announces the row the request committed, which nobody has
\* announced before: it is the only owner of that row.
LEMMA NotifyStep ==
  ASSUME IInv, NEW r \in Requests, Notify(r)
  PROVE  IInv'
<1> USE DEF Notify
<1> DEFINE f == op[r].folio
           m == [entry |-> mine[r], destino |-> Destino(r)]
<1>0. f \in Folios /\ mails \in [Folios -> Seq(Mail)] /\ mine[r] \in Nat
  BY DEF IInv, TypeOK, Request
<1>1. /\ pc'[r] = "notified" /\ op'[r] = op[r] /\ seen'[r] = seen[r] /\ mine'[r] = mine[r]
      /\ \A s \in Requests \ {r} : SameLocals(s)
  BY DEF SameLocals, IInv, TypeOK
<1>2. OwnsItsRow(r) /\ OwnsItsRow(r)'
  BY <1>1 DEF IInv, PostedRequestsOwnTheirRow, OwnsItsRow, Destino, Posted
<1>3. m \in Mail
  <2>1. mine[r] \in 2 .. Len(historial[f]) /\ Destino(r) = historial[f][mine[r]].nuevo
    BY <1>2 DEF OwnsItsRow
  <2>2. historial[f] \in Seq(Entry)
    BY <1>0 DEF IInv, TypeOK
  <2>3. historial[f][mine[r]] \in Entry
    BY <2>1, <2>2
  <2> QED
    BY <1>0, <2>1, <2>3 DEF Mail, Entry
<1>4. CASE UNCHANGED mails
  <2>1. TypeOK'
    BY <1>4 DEF IInv, TypeOK, Steps
  <2>2. RequestOK(r)'
    BY <1>1, <1>2 DEF RequestOK, Live
  <2> QED
    BY <1>1, <1>4, <2>1, <2>2, LocalStep DEF Posted
<1>5. CASE mails' = [mails EXCEPT ![f] = Append(@, m)]
  <2>1. /\ mails'[f] = Append(mails[f], m)
        /\ Append(mails[f], m) \in Seq(Mail)
        /\ \A g \in Folios \ {f} : mails'[g] = mails[g]
        /\ mails' \in [Folios -> Seq(Mail)]
    BY <1>0, <1>3, <1>5
  <2>2. TypeOK'
    BY <2>1 DEF IInv, TypeOK, Steps
  <2>3. Grows
    BY DEF IInv, TypeOK, Grows
  <2>4. /\ FolioShape' /\ EstadoIsLastEntry'
        /\ EntryContinuesASeenOne' /\ SolicitanteOnlyCancelsOwn'
    BY TablesUntouched
  <2>5. \A s \in Requests : RequestOK(s)'
    <3>1. ASSUME NEW s \in Requests \ {r} PROVE RequestOK(s)'
      BY <1>1, <2>3, OthersKeepTheirs, RequestsOK DEF IInv
    <3>2. RequestOK(r)'
      BY <1>1, <1>2 DEF RequestOK, Live
    <3> QED
      BY <3>1, <3>2
  <2>6. /\ LiveRequestsHoldTheirBasis' /\ PostedRequestsOwnTheirRow'
        /\ RereadIsExplained' /\ ResponseIsExplained'
    BY <2>5 DEF RequestOK, LiveRequestsHoldTheirBasis, PostedRequestsOwnTheirRow,
                RereadIsExplained, ResponseIsExplained
  <2>7. RowsHaveOneOwner'
    BY <1>1 DEF IInv, RowsHaveOneOwner, SameLocals, Posted
  <2>8. UnannouncedUntilNotified'
    <3> SUFFICES ASSUME NEW s \in Requests, pc'[s] = "committed",
                        NEW i \in DOMAIN mails'[op'[s].folio]
                 PROVE  mails'[op'[s].folio][i].entry # mine'[s]
      BY DEF UnannouncedUntilNotified
    <3>1. s # r /\ SameLocals(s) /\ pc[s] = "committed" /\ op[s].folio \in Folios
      BY <1>1 DEF SameLocals, IInv, TypeOK, Request
    <3>2. CASE op[s].folio # f
      BY <2>1, <3>1, <3>2 DEF SameLocals, IInv, UnannouncedUntilNotified
    <3>3. CASE op[s].folio = f
      <4>1. mine[s] # mine[r]
        BY <3>1, <3>3 DEF IInv, RowsHaveOneOwner, Posted
      <4>2. \A j \in DOMAIN mails[f] : mails[f][j].entry # mine[s]
        BY <3>1, <3>3 DEF IInv, UnannouncedUntilNotified
      <4>3. mails[f] \in Seq(Mail)
        BY <1>0
      <4>4. /\ i \in 1 .. Len(mails[f]) + 1 /\ DOMAIN mails[f] = 1 .. Len(mails[f])
            /\ Len(mails[f]) \in Nat
        BY <1>3, <2>1, <3>1, <3>3, <4>3, AppendFacts DEF SameLocals
      <4>5. CASE i \in 1 .. Len(mails[f])
        <5>1. mails'[f][i] = mails[f][i]
          BY <1>3, <2>1, <4>3, <4>5, AppendFacts
        <5>2. op'[s].folio = f /\ mine'[s] = mine[s]
          BY <3>1, <3>3 DEF SameLocals
        <5>3. mails[f][i].entry # mine[s]
          BY <4>2, <4>4, <4>5
        <5> QED
          BY <5>1, <5>2, <5>3
      <4>6. CASE i = Len(mails[f]) + 1
        BY <1>3, <2>1, <3>1, <3>3, <4>1, <4>3, <4>6, AppendFacts DEF SameLocals
      <4>7. i \in 1 .. Len(mails[f]) \/ i = Len(mails[f]) + 1
        BY <4>4
      <4> QED
        BY <4>5, <4>6, <4>7
    <3> QED
      BY <3>2, <3>3
  <2>9. MailsAnnounceCommits'
    <3> SUFFICES ASSUME NEW g \in Folios, NEW i \in DOMAIN mails'[g]
                 PROVE  /\ mails'[g][i].entry \in 2 .. Len(historial[g])
                        /\ mails'[g][i].destino = historial[g][mails'[g][i].entry].nuevo
                        /\ \A j \in DOMAIN mails'[g] :
                             mails'[g][j].entry = mails'[g][i].entry => j = i
      BY DEF MailsAnnounceCommits
    <3>1. CASE g # f
      <4>1. mails'[g] = mails[g] /\ i \in DOMAIN mails[g]
        BY <2>1, <3>1
      <4>2. MailsAnnounceCommits
        BY DEF IInv
      <4>3. /\ mails[g][i].entry \in 2 .. Len(historial[g])
            /\ mails[g][i].destino = historial[g][mails[g][i].entry].nuevo
            /\ \A j \in DOMAIN mails[g] : mails[g][j].entry = mails[g][i].entry => j = i
        BY <4>1, <4>2, Zenon DEF MailsAnnounceCommits
      <4> QED
        BY <4>1, <4>3
    <3>2. CASE g = f
      <4>1. mails[f] \in Seq(Mail) /\ mails'[g] = Append(mails[f], m)
        BY <1>0, <2>1, <3>2
      <4>2. /\ DOMAIN mails[f] = 1 .. Len(mails[f])
            /\ DOMAIN mails'[g] = 1 .. Len(mails[f]) + 1
            /\ Len(mails[f]) \in Nat
            /\ \A j \in 1 .. Len(mails[f]) : mails'[g][j] = mails[f][j]
            /\ mails'[g][Len(mails[f]) + 1] = m
        <5> HIDE DEF m, f
        <5> QED
          BY <1>3, <4>1, AppendFacts
      <4>3. \A j \in 1 .. Len(mails[f]) : mails[f][j].entry # mine[r]
        BY <4>2 DEF IInv, UnannouncedUntilNotified
      <4>4. \A j \in 1 .. Len(mails[f]) :
              /\ mails[f][j].entry \in 2 .. Len(historial[f])
              /\ mails[f][j].destino = historial[f][mails[f][j].entry].nuevo
              /\ \A k \in 1 .. Len(mails[f]) : mails[f][k].entry = mails[f][j].entry => k = j
        <5>1. MailsAnnounceCommits /\ f \in Folios
          BY <1>0 DEF IInv
        <5>2. \A j \in DOMAIN mails[f] :
                /\ mails[f][j].entry \in 2 .. Len(historial[f])
                /\ mails[f][j].destino = historial[f][mails[f][j].entry].nuevo
                /\ \A k \in DOMAIN mails[f] : mails[f][k].entry = mails[f][j].entry => k = j
          BY <5>1, Zenon DEF MailsAnnounceCommits
        <5> QED
          BY <4>2, <5>2
      <4>5. /\ m.entry = mine[r] /\ m.entry \in 2 .. Len(historial[f])
            /\ m.destino = historial[f][m.entry].nuevo
        BY <1>2 DEF OwnsItsRow
      <4>6. CASE i \in 1 .. Len(mails[f])
        <5>1. mails'[g][i] = mails[f][i]
          BY <4>2, <4>6
        <5>2. ASSUME NEW j \in DOMAIN mails'[g], mails'[g][j].entry = mails'[g][i].entry
              PROVE  j = i
          <6>1. j # Len(mails[f]) + 1
            BY <4>2, <4>3, <4>5, <4>6, <5>1, <5>2
          <6>2. j \in 1 .. Len(mails[f])
            BY <4>2, <6>1
          <6> QED
            BY <4>2, <4>4, <4>6, <5>1, <5>2, <6>2
        <5> QED
          BY <3>2, <4>4, <4>6, <5>1, <5>2
      <4>7. CASE i = Len(mails[f]) + 1
        <5>1. mails'[g][i] = m
          BY <4>2, <4>7
        <5>2. ASSUME NEW j \in DOMAIN mails'[g], mails'[g][j].entry = mails'[g][i].entry
              PROVE  j = i
          <6>1. mails'[g][j].entry = mine[r]
            BY <4>5, <5>1, <5>2
          <6>2. ASSUME j \in 1 .. Len(mails[f]) PROVE FALSE
            BY <4>2, <4>3, <6>1, <6>2
          <6> QED
            BY <4>2, <4>7, <6>2
        <5> QED
          BY <3>2, <4>5, <5>1, <5>2
      <4> HIDE DEF m, f
      <4> QED
        BY <4>2, <4>6, <4>7
    <3> QED
      BY <3>1, <3>2
  <2> QED
    BY <2>2, <2>4, <2>6, <2>7, <2>8, <2>9 DEF IInv
<1> QED
  BY <1>4, <1>5

\* The step that writes the tables: the new row continues the one the request
\* read, and it sits at an index nobody owns or has announced.
LEMMA AppendAndCommitStep ==
  ASSUME IInv, NEW r \in Requests, AppendAndCommit(r)
  PROVE  IInv'
<1> DEFINE f == op[r].folio
           n == Len(historial[f])
           e == [anterior |-> seen[r], nuevo |-> Destino(r),
                 actor |-> op[r].actor, role |-> op[r].role]
<1>0. /\ pc[r] = "updated"
      /\ estado' = [estado EXCEPT ![f] = Destino(r)]
      /\ historial' = [historial EXCEPT ![f] = Append(historial[f], e)]
      /\ parent' = [parent EXCEPT ![f] = Append(parent[f], basis[r])]
      /\ mine' = [mine EXCEPT ![r] = n + 1]
      /\ rowLock' = [rowLock EXCEPT ![f] = NoRequest]
      /\ pc' = [pc EXCEPT ![r] = "committed"]
      /\ UNCHANGED <<responsible, mails, op, seen, shown, basis>>
  BY DEF AppendAndCommit, NewEntry, IInv, TypeOK
<1>1. /\ f \in Folios /\ seen[r] \in Estados /\ op[r] \in Request
      /\ historial[f] \in Seq(Entry) /\ parent[f] \in Seq(Nat)
      /\ basis[r] \in Nat /\ mine[r] \in Nat /\ n \in Nat /\ n >= 1
      /\ Len(parent[f]) = n
  BY DEF IInv, TypeOK, FolioShape, Request
<1>2. HoldsItsBasis(r)
  BY <1>0 DEF IInv, LiveRequestsHoldTheirBasis, Live
<1>3. /\ Destino(r) \in Estados
      /\ <<seen[r], Destino(r)>> \in LegalChange
      /\ op[r].action = "cancelar" => Destino(r) = "CANCELADA"
      /\ basis[r] \in 1 .. n /\ seen[r] = historial[f][basis[r]].nuevo
  BY <1>1, <1>2, TransitionFacts DEF HoldsItsBasis, Destino, Request
<1>4. e \in Entry
  BY <1>1, <1>3 DEF Entry, Request
<1>5. /\ historial'[f] = Append(historial[f], e)
      /\ historial'[f] \in Seq(Entry)
      /\ Len(historial'[f]) = n + 1
      /\ \A i \in 1 .. n : historial'[f][i] = historial[f][i]
      /\ historial'[f][n + 1] = e
      /\ DOMAIN historial[f] = 1 .. n
      /\ DOMAIN historial'[f] = 1 .. n + 1
      /\ \A g \in Folios \ {f} : historial'[g] = historial[g]
  <2>1. historial'[f] = Append(historial[f], e)
    BY <1>0, <1>1 DEF IInv, TypeOK
  <2>2. \A g \in Folios \ {f} : historial'[g] = historial[g]
    BY <1>0 DEF IInv, TypeOK
  <2> HIDE DEF e
  <2> QED
    BY <1>1, <1>4, <2>1, <2>2, AppendFacts
<1>6. /\ parent'[f] \in Seq(Nat)
      /\ Len(parent'[f]) = n + 1
      /\ \A i \in 1 .. n : parent'[f][i] = parent[f][i]
      /\ parent'[f][n + 1] = basis[r]
      /\ \A g \in Folios \ {f} : parent'[g] = parent[g]
  <2>1. parent'[f] = Append(parent[f], basis[r])
    BY <1>0, <1>1 DEF IInv, TypeOK
  <2>2. \A g \in Folios \ {f} : parent'[g] = parent[g]
    BY <1>0 DEF IInv, TypeOK
  <2>3. parent[f] \in Seq(Nat) /\ basis[r] \in Nat /\ Len(parent[f]) = n
    BY <1>1
  <2> HIDE DEF f, n
  <2> QED
    BY <2>1, <2>2, <2>3, AppendFacts
<1>7. /\ estado'[f] = Destino(r)
      /\ \A g \in Folios \ {f} : estado'[g] = estado[g]
      /\ pc'[r] = "committed" /\ op'[r] = op[r] /\ seen'[r] = seen[r] /\ mine'[r] = n + 1
      /\ \A s \in Requests \ {r} : SameLocals(s)
  BY <1>0, <1>1 DEF SameLocals, IInv, TypeOK
<1>8. Grows
  <2>1. ASSUME NEW g \in Folios
        PROVE  /\ Len(historial'[g]) \in Nat
               /\ Len(historial[g]) <= Len(historial'[g])
               /\ \A i \in 1 .. Len(historial[g]) : historial'[g][i] = historial[g][i]
    <3>1. Len(historial[g]) \in Nat
      BY DEF IInv, TypeOK
    <3>2. CASE g = f
      <4>1. Len(historial'[f]) = n + 1 /\ \A i \in 1 .. n : historial'[f][i] = historial[f][i]
        BY <1>5
      <4>2. Len(historial[f]) = n /\ n \in Nat
        BY <1>1
      <4> HIDE DEF e, f, n
      <4> QED
        BY <3>2, <4>1, <4>2
    <3>3. CASE g # f
      BY <1>5, <3>1, <3>3
    <3> QED
      BY <3>2, <3>3
  <2> QED
    BY <2>1 DEF Grows
<1>e. /\ e.anterior = seen[r] /\ e.nuevo = Destino(r)
      /\ e.actor = op[r].actor /\ e.role = op[r].role
      /\ \/ e.role \in ReviewerRoles
         \/ /\ e.actor = Owner[f]
            /\ e.anterior = "CREADA"
            /\ e.nuevo = "CANCELADA"
  BY <1>2, <1>3 DEF HoldsItsBasis
<1> HIDE DEF e, f, n
<1>9. TypeOK'
  <2>1. historial' \in [Folios -> Seq(Entry)] /\ parent' \in [Folios -> Seq(Nat)]
    BY <1>0, <1>1, <1>5, <1>6 DEF IInv, TypeOK
  <2>2. /\ estado' \in [Folios -> Estados]
        /\ mine' \in [Requests -> Nat]
        /\ rowLock' \in [Folios -> Requests \cup {NoRequest}]
        /\ pc' \in [Requests -> Steps]
    BY <1>0, <1>1, <1>3 DEF IInv, TypeOK, Steps
  <2> QED
    BY <1>0, <2>1, <2>2 DEF IInv, TypeOK
<1>10. FolioShape' /\ EstadoIsLastEntry'
  <2>1. \A g \in Folios \ {f} :
          /\ Len(historial'[g]) >= 1 /\ Len(parent'[g]) = Len(historial'[g])
          /\ historial'[g][1].nuevo = "CREADA"
          /\ historial'[g] # <<>> /\ estado'[g] = Last(historial'[g]).nuevo
    BY <1>5, <1>6, <1>7 DEF IInv, FolioShape, EstadoIsLastEntry
  <2>2. /\ Len(historial'[f]) >= 1 /\ Len(parent'[f]) = Len(historial'[f])
        /\ historial'[f][1].nuevo = "CREADA"
    BY <1>1, <1>5, <1>6 DEF IInv, FolioShape
  <2>3. historial'[f] # <<>> /\ estado'[f] = Last(historial'[f]).nuevo
    BY <1>1, <1>5, <1>7 DEF Last, e
  <2> QED
    BY <2>1, <2>2, <2>3 DEF FolioShape, EstadoIsLastEntry
<1>11. EntryContinuesASeenOne'
  <2> SUFFICES ASSUME NEW g \in Folios, NEW i \in DOMAIN historial'[g], i > 1
               PROVE  /\ parent'[g][i] \in 1 .. i - 1
                      /\ historial'[g][i].anterior = historial'[g][parent'[g][i]].nuevo
                      /\ <<historial'[g][i].anterior, historial'[g][i].nuevo>> \in LegalChange
    BY DEF EntryContinuesASeenOne
  <2>1. CASE g # f
    BY <1>5, <1>6, <2>1 DEF IInv, EntryContinuesASeenOne
  <2>2. CASE g = f /\ i \in 1 .. n
    <3>1. /\ parent[f][i] \in 1 .. i - 1
          /\ historial[f][i].anterior = historial[f][parent[f][i]].nuevo
          /\ <<historial[f][i].anterior, historial[f][i].nuevo>> \in LegalChange
      BY <1>1, <1>5, <2>2 DEF IInv, EntryContinuesASeenOne
    <3>2. parent[f][i] \in 1 .. n
      BY <1>1, <2>2, <3>1
    <3>3. /\ historial'[f][i] = historial[f][i]
          /\ parent'[f][i] = parent[f][i]
          /\ historial'[f][parent[f][i]] = historial[f][parent[f][i]]
      BY <1>5, <1>6, <2>2, <3>2
    <3> QED
      BY <2>2, <3>1, <3>3
  <2>3. CASE g = f /\ i = n + 1
    <3>1. /\ historial'[f][i] = e
          /\ parent'[f][i] = basis[r]
          /\ historial'[f][basis[r]] = historial[f][basis[r]]
      BY <1>3, <1>5, <1>6, <2>3
    <3>2. basis[r] \in 1 .. i - 1
      BY <1>1, <1>3, <2>3
    <3> QED
      BY <1>3, <1>e, <2>3, <3>1, <3>2
  <2> QED
    BY <1>1, <1>5, <2>1, <2>2, <2>3
<1>12. SolicitanteOnlyCancelsOwn'
  <2> SUFFICES ASSUME NEW g \in Folios, NEW i \in DOMAIN historial'[g], i > 1,
                      historial'[g][i].role \notin ReviewerRoles
               PROVE  /\ historial'[g][i].actor = Owner[g]
                      /\ historial'[g][i].anterior = "CREADA"
                      /\ historial'[g][i].nuevo = "CANCELADA"
    BY DEF SolicitanteOnlyCancelsOwn
  <2>1. CASE g # f
    BY <1>5, <2>1 DEF IInv, SolicitanteOnlyCancelsOwn
  <2>2. CASE g = f /\ i \in 1 .. n
    <3>1. historial'[g][i] = historial[g][i] /\ i \in DOMAIN historial[g]
      BY <1>5, <2>2
    <3> QED
      BY <3>1 DEF IInv, SolicitanteOnlyCancelsOwn
  <2>3. CASE g = f /\ i = n + 1
    BY <1>e, <1>5, <2>3
  <2> QED
    BY <1>1, <1>5, <2>1, <2>2, <2>3
<1>13. \A s \in Requests : RequestOK(s)'
  <2>1. ASSUME NEW s \in Requests \ {r} PROVE RequestOK(s)'
    BY <1>7, <1>8, OthersKeepTheirs, RequestsOK DEF IInv
  <2>2. OwnsItsRow(r)'
    BY <1>1, <1>5, <1>7 DEF OwnsItsRow, Destino, e, f
  <2>3. RequestOK(r)'
    BY <1>7, <2>2 DEF RequestOK, Live, Posted
  <2> QED
    BY <2>1, <2>3
<1>14. /\ LiveRequestsHoldTheirBasis' /\ PostedRequestsOwnTheirRow'
       /\ RereadIsExplained' /\ ResponseIsExplained'
  BY <1>13 DEF RequestOK, LiveRequestsHoldTheirBasis, PostedRequestsOwnTheirRow,
               RereadIsExplained, ResponseIsExplained
<1>15. \A s \in Requests \ {r} : pc[s] \in Posted /\ op[s].folio = f => mine[s] # n + 1
  BY <1>1 DEF IInv, PostedRequestsOwnTheirRow, OwnsItsRow, n
<1>16. RowsHaveOneOwner'
  BY <1>7, <1>15 DEF IInv, RowsHaveOneOwner, SameLocals, f
<1>17. MailsAnnounceCommits'
  BY <1>0, <1>8, MailsKept
<1>18. UnannouncedUntilNotified'
  <2> SUFFICES ASSUME NEW s \in Requests, pc'[s] = "committed",
                      NEW i \in DOMAIN mails[op'[s].folio]
               PROVE  mails[op'[s].folio][i].entry # mine'[s]
    BY <1>0 DEF UnannouncedUntilNotified
  <2>1. CASE s # r
    BY <1>7, <2>1 DEF IInv, UnannouncedUntilNotified, SameLocals
  <2>2. CASE s = r
    <3>1. mails[f][i].entry \in 2 .. n
      BY <1>1, <1>7, <2>2 DEF IInv, MailsAnnounceCommits, f, n
    <3> QED
      BY <1>1, <1>7, <2>2, <3>1 DEF f
  <2> QED
    BY <2>1, <2>2
<1> QED
  BY <1>9, <1>10, <1>11, <1>12, <1>14, <1>16, <1>17, <1>18 DEF IInv
-----------------------------------------------------------------------------
\* A step that changes nothing.
LEMMA StutterStep ==
  ASSUME IInv, UNCHANGED vars
  PROVE  IInv'
<1> USE DEF vars
<1>1. TypeOK' /\ FolioShape' /\ EstadoIsLastEntry'
  BY DEF IInv, TypeOK, FolioShape, EstadoIsLastEntry, Last
<1>2. /\ EntryContinuesASeenOne' /\ SolicitanteOnlyCancelsOwn'
  BY TablesUntouched
<1>3. /\ LiveRequestsHoldTheirBasis' /\ PostedRequestsOwnTheirRow'
  BY DEF IInv, LiveRequestsHoldTheirBasis, HoldsItsBasis, PostedRequestsOwnTheirRow,
         OwnsItsRow, Destino
<1>4. RowsHaveOneOwner' /\ UnannouncedUntilNotified' /\ MailsAnnounceCommits'
  BY DEF IInv, RowsHaveOneOwner, UnannouncedUntilNotified, MailsAnnounceCommits
<1>5. RereadIsExplained' /\ ResponseIsExplained'
  BY DEF IInv, RereadIsExplained, ResponseIsExplained, Explained
<1> QED
  BY <1>1, <1>2, <1>3, <1>4, <1>5 DEF IInv

\* Every step of the program keeps the invariant.
LEMMA NextKeepsIInv == IInv /\ [Next]_vars => IInv'
<1> SUFFICES ASSUME IInv, [Next]_vars PROVE IInv'
  OBVIOUS
<1>1. ASSUME NEW r \in Requests, ReadDetail(r) PROVE IInv'
  BY <1>1, ReadDetailStep
<1>2. ASSUME NEW r \in Requests, Reject(r) PROVE IInv'
  BY <1>2, RejectStep
<1>3. ASSUME NEW r \in Requests, Step(r) PROVE IInv'
  BY <1>3, UpdateEstadoStep, AppendAndCommitStep, NotifyStep, RereadRowStep,
     RereadHistorialStep DEF Step
<1>4. ASSUME NEW r \in Requests, Fail(r) PROVE IInv'
  BY <1>4, FailStep
<1>5. ASSUME NEW t \in Tipos, EditTipo(t) PROVE IInv'
  BY <1>5, EditTipoStep
<1>6. CASE UNCHANGED vars
  BY <1>6, StutterStep
<1> QED
  BY <1>1, <1>2, <1>3, <1>4, <1>5, <1>6 DEF Next

\* The inductive invariant holds in every state of every run, whatever the
\* number of requests, folios, people and tipos.
THEOREM Invariance == Spec => []IInv
<1>1. Init => IInv
  BY InitHolds
<1>2. IInv /\ [Next]_vars => IInv'
  BY NextKeepsIInv
<1> QED
  BY <1>1, <1>2, PTL DEF Spec

\* Every column and local keeps its type: no transition writes an estado the
\* model class does not declare (transition, update_estado, append).
THEOREM TypeCorrect == Spec => []TypeOK
<1>1. IInv => TypeOK
  BY DEF IInv
<1> QED
  BY <1>1, Invariance, PTL

\* RF-LIF-03: Solicitud.estado and the newest historial row always agree, also
\* while any number of transitions overlap and any of them dies.
THEOREM EstadoAgrees == Spec => []EstadoIsLastEntry
<1>1. IInv => EstadoIsLastEntry
  BY DEF IInv
<1> QED
  BY <1>1, Invariance, PTL

\* A historial row always continues an earlier row of the same folio by a
\* change of the matrix: what overlap makes of RF-LIF-02.
THEOREM HistorialIsATree == Spec => []EntryContinuesASeenOne
<1>1. IInv => EntryContinuesASeenOne
  BY DEF IInv
<1> QED
  BY <1>1, Invariance, PTL

\* RF-LIF-05: _authorize keeps everybody who is no reviewer to cancelling an own
\* solicitud that was CREADA when it was read.
THEOREM CancelIsOwn == Spec => []SolicitanteOnlyCancelsOwn
<1>1. IInv => SolicitanteOnlyCancelsOwn
  BY DEF IInv
<1> QED
  BY <1>1, Invariance, PTL

\* notify_state_change never announces a change that did not commit, nor one
\* change twice.
THEOREM MailsAreTrue == Spec => []MailsAnnounceCommits
<1>1. IInv => MailsAnnounceCommits
  BY DEF IInv
<1> QED
  BY <1>1, Invariance, PTL

\* RF-LIF-06: a response shows the request's own row and an estado one of the
\* rows it shows explains, although it is read in two queries.
THEOREM ResponsesAreExplained == Spec => []ResponseIsExplained
<1>1. IInv => ResponseIsExplained
  BY DEF IInv
<1> QED
  BY <1>1, Invariance, PTL

\* On a folio whose transitions never overlap the documented machine runs: at
\* most two transitions and nothing after a terminal estado.
THEOREM SerialMachine == Spec => []SerialFolioObeysTheMachine
<1>1. IInv => SerialFolioObeysTheMachine
  <2> SUFFICES ASSUME IInv, NEW f \in Folios, Serial(f)
               PROVE  /\ Len(historial[f]) <= 3
                      /\ \A i \in DOMAIN historial[f] :
                           historial[f][i].nuevo \in TERMINAL => i = Len(historial[f])
    BY DEF SerialFolioObeysTheMachine
  <2> DEFINE n == Len(historial[f])
             e(i) == historial[f][i]
  <2>1. /\ n \in Nat /\ n >= 1 /\ DOMAIN historial[f] = 1 .. n
        /\ DOMAIN parent[f] = 1 .. n
        /\ e(1).nuevo = "CREADA"
    BY DEF IInv, TypeOK, FolioShape
  <2>2. ASSUME NEW i \in 1 .. n, i > 1
        PROVE  <<e(i - 1).nuevo, e(i).nuevo>> \in LegalChange
    <3>1. parent[f][i] = i - 1
      BY <2>1, <2>2 DEF Serial
    <3> QED
      BY <2>1, <2>2, <3>1 DEF IInv, EntryContinuesASeenOne
  <2> HIDE DEF e, n
  <2>3. ASSUME NEW i \in 1 .. n, e(i).nuevo \in TERMINAL PROVE i = n
    <3> SUFFICES ASSUME i # n PROVE FALSE
      OBVIOUS
    <3>1. i + 1 \in 1 .. n /\ i + 1 > 1 /\ (i + 1) - 1 = i
      BY <2>1
    <3>2. <<e(i).nuevo, e(i + 1).nuevo>> \in LegalChange
      BY <2>2, <3>1
    <3> QED
      BY <2>3, <3>2 DEF LegalChange, TERMINAL
  <2>4. n <= 3
    <3> SUFFICES ASSUME n > 3 PROVE FALSE
      BY <2>1
    <3>1. 2 \in 1 .. n /\ 3 \in 1 .. n
      BY <2>1
    <3>2. e(2).nuevo \notin TERMINAL /\ e(3).nuevo \notin TERMINAL
      BY <2>3, <3>1
    <3>3. <<e(1).nuevo, e(2).nuevo>> \in LegalChange
      BY <2>2, <3>1
    <3>4. <<e(2).nuevo, e(3).nuevo>> \in LegalChange
      BY <2>2, <3>1
    <3> QED
      BY <2>1, <3>2, <3>3, <3>4 DEF LegalChange, TERMINAL
  <2> QED
    BY <2>1, <2>3, <2>4 DEF e, n
<1> QED
  BY <1>1, Invariance, PTL
-----------------------------------------------------------------------------
(***************************************************************************)
(* Lifecycle implements the Ledger.                                        *)
(***************************************************************************)
\* A commit is one recorded change: it continues the row the request read.
LEMMA CommitRecords ==
  ASSUME IInv, NEW r \in Requests, AppendAndCommit(r)
  PROVE  Promise!Record(op[r].folio)
<1> DEFINE f == op[r].folio
           e == [anterior |-> seen[r], nuevo |-> Destino(r),
                 actor |-> op[r].actor, role |-> op[r].role]
<1>1. /\ f \in Folios /\ seen[r] \in Estados /\ op[r].action \in Actions
      /\ op[r].actor \in Users /\ op[r].role \in Roles
      /\ historial[f] \in Seq(Entry)
  BY DEF IInv, TypeOK, Request
<1>2. HoldsItsBasis(r)
  BY DEF AppendAndCommit, NewEntry, IInv, LiveRequestsHoldTheirBasis, Live
<1>3. /\ Destino(r) \in Estados
      /\ <<seen[r], Destino(r)>> \in LegalChange
      /\ op[r].action = "cancelar" => Destino(r) = "CANCELADA"
      /\ basis[r] \in DOMAIN historial[f] /\ seen[r] = historial[f][basis[r]].nuevo
  BY <1>1, <1>2, TransitionFacts DEF HoldsItsBasis, Destino
<1>4. e \in Promise!Entry
  BY <1>1, <1>3 DEF Promise!Entry, Promise!Changed, Promise!Personal, Estados, Roles, LegalChange
<1>5. Promise!Change(f, e.anterior, e.nuevo, e.actor, e.role)
  BY <1>1, <1>2, <1>3 DEF HoldsItsBasis, Promise!Change, Promise!Matrix, Promise!Personal,
     LegalChange, ReviewerRoles, ResponsibleRoles
<1>6. /\ historial' = [historial EXCEPT ![f] = Append(historial[f], e)]
      /\ estado' = [estado EXCEPT ![f] = e.nuevo]
      /\ UNCHANGED mails
  BY DEF AppendAndCommit, NewEntry
<1>7. e.anterior = historial[f][basis[r]].nuevo
  BY <1>3
<1> HIDE DEF e, f
<1>8. Promise!Record(f)
  BY <1>3, <1>4, <1>5, <1>6, <1>7 DEF Promise!Record
<1> QED
  BY <1>8 DEF f

\* A mail is one first announcement of a recorded change, or nothing.
LEMMA NotifyAnnounces ==
  ASSUME IInv, NEW r \in Requests, Notify(r)
  PROVE  Promise!Announce(op[r].folio) \/ UNCHANGED Promise!Vars
<1> DEFINE f == op[r].folio
<1>1. UNCHANGED <<estado, historial>> /\ f \in Folios
  BY DEF Notify, IInv, TypeOK, Request
<1>2. CASE UNCHANGED mails
  BY <1>1, <1>2 DEF Promise!Vars
<1>3. CASE mails' = [mails EXCEPT ![f] =
                       Append(mails[f], [entry |-> mine[r], destino |-> Destino(r)])]
  <2>1. /\ mine[r] \in 2 .. Len(historial[f])
        /\ Destino(r) = historial[f][mine[r]].nuevo
    BY DEF Notify, IInv, PostedRequestsOwnTheirRow, OwnsItsRow, Posted
  <2>2. \A j \in DOMAIN mails[f] : mails[f][j].entry # mine[r]
    BY DEF Notify, IInv, UnannouncedUntilNotified
  <2> QED
    BY <1>1, <1>3, <2>1, <2>2 DEF Promise!Announce
<1> QED
  BY <1>2, <1>3 DEF Notify

\* The whole program, seen through its three tables, keeps the contract of the
\* Ledger: recorded changes, first announcements, and nothing else.
THEOREM KeepsTheLedger == Spec => ImplementsLedger
<1>1. Init => Promise!Start
  <2> SUFFICES ASSUME Init, NEW f \in Folios
               PROVE  /\ Len(historial[f]) = 1
                      /\ historial[f][1].nuevo = "CREADA"
                      /\ historial[f][1].actor = Owner[f]
    BY DEF Init, Promise!Start
  <2>1. PICK e \in [anterior: {NoEstado}, nuevo: {"CREADA"}, actor: Users, role: CreatorRoles] :
          historial[f] = <<e>>
    BY DEF Init
  <2> QED
    BY <2>1 DEF Init
<1>2. IInv /\ [Next]_vars =>
        [\E f \in Folios : Promise!Record(f) \/ Promise!Announce(f)]_Promise!Vars
  <2> SUFFICES ASSUME IInv, [Next]_vars
               PROVE  \/ \E f \in Folios : Promise!Record(f) \/ Promise!Announce(f)
                      \/ UNCHANGED Promise!Vars
    OBVIOUS
  <2>1. \A r \in Requests : op[r].folio \in Folios
    BY DEF IInv, TypeOK, Request
  <2>2. ASSUME NEW r \in Requests, AppendAndCommit(r)
        PROVE  \E f \in Folios : Promise!Record(f)
    BY <2>1, <2>2, CommitRecords
  <2>3. ASSUME NEW r \in Requests, Notify(r)
        PROVE  (\E f \in Folios : Promise!Announce(f)) \/ UNCHANGED Promise!Vars
    BY <2>1, <2>3, NotifyAnnounces
  <2>4. ASSUME NEW r \in Requests,
               \/ ReadDetail(r) \/ Reject(r) \/ Fail(r)
               \/ UpdateEstado(r) \/ RereadRow(r) \/ RereadHistorial(r)
        PROVE  UNCHANGED Promise!Vars
    BY <2>4 DEF ReadDetail, Reject, Fail, ReleaseRows, UpdateEstado, RereadRow, RereadHistorial,
                Promise!Vars
  <2>5. ASSUME NEW t \in Tipos, EditTipo(t) PROVE UNCHANGED Promise!Vars
    BY <2>5 DEF EditTipo, Promise!Vars
  <2>6. CASE UNCHANGED vars
    BY <2>6 DEF vars, Promise!Vars
  <2> QED
    BY <2>2, <2>3, <2>4, <2>5, <2>6 DEF Next, Step
<1> QED
  BY <1>1, <1>2, Invariance, PTL DEF Spec, ImplementsLedger, Promise!Contract

\* A commit moves the column from an estado it has had.
LEMMA CommitMovesTheColumn ==
  ASSUME IInv, NEW r \in Requests, AppendAndCommit(r)
  PROVE  View!Move(op[r].folio)
<1> DEFINE f == op[r].folio
           t == <<seen[r], op[r].action>>
           had(g) == { historial[g][i].nuevo : i \in DOMAIN historial[g] }
<1>1. /\ f \in Folios /\ historial[f] \in Seq(Entry)
      /\ historial \in [Folios -> Seq(Entry)]
  BY DEF IInv, TypeOK, Request
<1>2. HoldsItsBasis(r)
  BY DEF AppendAndCommit, IInv, LiveRequestsHoldTheirBasis, Live
<1>3. /\ basis[r] \in DOMAIN historial[f] /\ seen[r] = historial[f][basis[r]].nuevo
      /\ t \in DOMAIN TRANSITIONS
  BY <1>1, <1>2 DEF HoldsItsBasis
<1>4. /\ estado' = [estado EXCEPT ![f] = TRANSITIONS[t]]
      /\ historial' = [historial EXCEPT ![f] = Append(historial[f], NewEntry(r))]
      /\ NewEntry(r).nuevo = TRANSITIONS[t]
  BY DEF AppendAndCommit, NewEntry, Destino
<1> DEFINE more == had(f) \cup {TRANSITIONS[t]}
<1>5. { historial'[f][i].nuevo : i \in DOMAIN historial'[f] } = more
  <2>1. historial'[f] = Append(historial[f], NewEntry(r))
    BY <1>1, <1>4
  <2>2. /\ DOMAIN historial[f] = 1 .. Len(historial[f]) /\ Len(historial[f]) \in Nat
        /\ DOMAIN historial'[f] = 1 .. Len(historial[f]) + 1
        /\ \A i \in 1 .. Len(historial[f]) : historial'[f][i] = historial[f][i]
        /\ historial'[f][Len(historial[f]) + 1] = NewEntry(r)
    BY <1>1, <2>1
  <2> QED
    BY <1>4, <2>2
<1>6. \A g \in Folios \ {f} : historial'[g] = historial[g]
  BY <1>1, <1>4
<1>7. [g \in Folios |-> { historial'[g][i].nuevo : i \in DOMAIN historial'[g] }]
        = [g \in Folios |-> IF g = f THEN more ELSE had(g)]
  BY <1>5, <1>6
<1> HIDE DEF more
<1>8. [g \in Folios |-> IF g = f THEN more ELSE had(g)]
        = [[g \in Folios |-> had(g)] EXCEPT ![f] = more]
  <2> HIDE DEF had
  <2> QED
    BY <1>1
<1>9. more = [g \in Folios |-> had(g)][f] \cup {TRANSITIONS[t]}
  BY <1>1 DEF more
<1>10. View!TRANSITIONS = TRANSITIONS
  BY DEF View!TRANSITIONS, TRANSITIONS
<1>11. TRANSITIONS[t] \in more /\ t[1] = seen[r] /\ seen[r] \in [g \in Folios |-> had(g)][f]
  BY <1>1, <1>3 DEF more
<1> HIDE DEF t
<1>12. \E u \in DOMAIN View!TRANSITIONS :
         /\ u[1] \in [g \in Folios |-> had(g)][f]
         /\ estado' = [estado EXCEPT ![f] = View!TRANSITIONS[u]]
         /\ [g \in Folios |-> { historial'[g][i].nuevo : i \in DOMAIN historial'[g] }]
              = [[g \in Folios |-> had(g)] EXCEPT ![f] =
                   [g \in Folios |-> had(g)][f] \cup {View!TRANSITIONS[u]}]
  BY <1>3, <1>4, <1>7, <1>8, <1>9, <1>10, <1>11, Zenon
<1> QED
  BY <1>12 DEF View!Move

\* The column, seen without its historial, moves along the matrix from an estado
\* it has had, and nothing but a commit of transition moves it.
THEOREM KeepsTheColumn == Spec => ImplementsColumn
<1>1. Init => View!ColumnInit
  <2> SUFFICES ASSUME Init PROVE View!ColumnInit
    OBVIOUS
  <2>1. ASSUME NEW f \in Folios
        PROVE  { historial[f][i].nuevo : i \in DOMAIN historial[f] } = {"CREADA"}
    <3>1. PICK e \in [anterior: {NoEstado}, nuevo: {"CREADA"}, actor: Users, role: CreatorRoles] :
            historial[f] = <<e>>
      BY DEF Init
    <3> QED
      BY <3>1
  <2> QED
    BY <2>1 DEF Init, View!ColumnInit
<1>2. IInv /\ [Next]_vars => [\E f \in Folios : View!Move(f)]_View!Column
  <2> SUFFICES ASSUME IInv, [Next]_vars
               PROVE  (\E f \in Folios : View!Move(f)) \/ UNCHANGED View!Column
    OBVIOUS
  <2>1. \A r \in Requests : op[r].folio \in Folios
    BY DEF IInv, TypeOK, Request
  <2>2. ASSUME NEW r \in Requests, AppendAndCommit(r)
        PROVE  \E f \in Folios : View!Move(f)
    BY <2>1, <2>2, CommitMovesTheColumn
  <2>3. ASSUME NEW r \in Requests,
               \/ ReadDetail(r) \/ Reject(r) \/ Fail(r) \/ Notify(r)
               \/ UpdateEstado(r) \/ RereadRow(r) \/ RereadHistorial(r)
        PROVE  UNCHANGED <<estado, historial>>
    BY <2>3 DEF ReadDetail, Reject, Fail, Notify, UpdateEstado, RereadRow, RereadHistorial
  <2>4. ASSUME NEW t \in Tipos, EditTipo(t) PROVE UNCHANGED <<estado, historial>>
    BY <2>4 DEF EditTipo
  <2>5. CASE UNCHANGED vars
    BY <2>5 DEF vars, View!Column
  <2>6. UNCHANGED <<estado, historial>> => UNCHANGED View!Column
    BY DEF View!Column
  <2> QED
    BY <2>2, <2>3, <2>4, <2>5, <2>6 DEF Next, Step
<1> QED
  BY <1>1, <1>2, Invariance, PTL DEF Spec, ImplementsColumn, View!ColumnSpec

-----------------------------------------------------------------------------
(***************************************************************************)
(* What the pages that only read assume of the tables.                     *)
(***************************************************************************)
\* A committed transition adds one row, as they see it.
LEMMA CommitAddsARow ==
  ASSUME IInv, NEW r \in Requests, AppendAndCommit(r), op[r].folio \in Folios
  PROVE  \E f \in Folios : Tables!Transition(f)
<1>1. PICK f, h, e : f = op[r].folio /\ h = historial[f] /\ e = NewEntry(r)
  OBVIOUS
<1>2. PICK t, u, row : /\ t = <<seen[r], op[r].action>> /\ u = op[r].actor
                       /\ row = [nuevo |-> TRANSITIONS[t], actor |-> u]
  OBVIOUS
<1>3. f \in Folios /\ h \in Seq(Entry) /\ Len(h) >= 1 /\ historial \in [Folios -> Seq(Entry)]
  BY <1>1 DEF IInv, TypeOK, FolioShape
<1>4. PICK b : b = basis[r] /\ b \in 1 .. Len(h) /\ h[b].nuevo = t[1] /\ t \in DOMAIN TRANSITIONS
  <2>1. HoldsItsBasis(r)
    BY DEF IInv, AppendAndCommit, LiveRequestsHoldTheirBasis, Live
  <2> QED
    BY <1>1, <1>2, <2>1 DEF HoldsItsBasis
<1>5. u \in Users
  BY <1>2 DEF IInv, TypeOK, Request
<1>6. Shown(e) = row
  BY <1>1, <1>2 DEF NewEntry, Destino, Shown
<1>7. PICK old, new : /\ old = [i \in 1 .. Len(h) |-> Shown(h[i])]
                      /\ new = [i \in 1 .. Len(h) + 1 |-> IF i = Len(h) + 1 THEN row ELSE Shown(h[i])]
  OBVIOUS
<1>8. Len(h) \in Nat /\ DOMAIN h = 1 .. Len(h)
  BY <1>3
<1>9. new = Append(old, row) /\ old # <<>> /\ DOMAIN old = 1 .. Len(h)
  <2>1. PICK m \in Nat : m = Len(h) /\ m >= 1
    BY <1>3, <1>8
  <2>2. PICK S : S = { Shown(x) : x \in Entry } \cup {row}
    OBVIOUS
  <2>3. \A i \in 1 .. m : old[i] \in S
    BY <1>3, <1>7, <2>1, <2>2
  <2>4. old = [i \in 1 .. m |-> old[i]] /\ DOMAIN old = 1 .. m
    BY <1>7, <2>1
  <2>5. old \in Seq(S) /\ Len(old) = m
    BY <2>1, <2>3, <2>4
  <2>6. PICK more : more = Append(old, row)
    OBVIOUS
  <2>7. /\ row \in S /\ more \in Seq(S) /\ Len(more) = m + 1
        /\ \A i \in 1 .. m + 1 : more[i] = IF i = m + 1 THEN row ELSE old[i]
    BY <2>1, <2>2, <2>5, <2>6
  <2>8. DOMAIN more = 1 .. m + 1 /\ more = [i \in 1 .. m + 1 |-> more[i]]
    BY <2>1, <2>7
  <2>9. more = new
    <3>1. new = [i \in 1 .. m + 1 |-> IF i = m + 1 THEN row ELSE Shown(h[i])]
      BY <1>7, <2>1
    <3>2. \A i \in 1 .. m : old[i] = Shown(h[i])
      BY <1>7, <2>1
    <3>3. \A i \in 1 .. m + 1 : more[i] = IF i = m + 1 THEN row ELSE Shown(h[i])
      BY <2>1, <2>7, <3>2
    <3> QED
      BY <2>8, <3>1, <3>3
  <2>10. old # <<>>
    BY <2>1, <2>5
  <2> QED
    BY <2>1, <2>4, <2>6, <2>9, <2>10
<1>10. old[b].nuevo = t[1]
  BY <1>4, <1>7 DEF Shown
<1>11. historial' = [historial EXCEPT ![f] = Append(h, e)] /\ UNCHANGED responsible
  BY <1>1 DEF AppendAndCommit
<1>12. PICK after : after = Append(h, e)
  OBVIOUS
<1>13. [i \in DOMAIN after |-> Shown(after[i])] = new
  <2>1. DOMAIN after = 1 .. Len(h) + 1 /\ \A i \in 1 .. Len(h) : after[i] = h[i]
    BY <1>3, <1>12
  <2>2. after[Len(h) + 1] = e
    BY <1>3, <1>12
  <2>3. \A i \in 1 .. Len(h) + 1 : i \in 1 .. Len(h) \/ i = Len(h) + 1
    BY <1>8
  <2>4. \A i \in 1 .. Len(h) + 1 : Shown(after[i]) = IF i = Len(h) + 1 THEN row ELSE Shown(h[i])
    BY <1>6, <2>1, <2>2, <2>3
  <2> QED
    BY <1>7, <2>1, <2>4
<1> DEFINE now  == [g \in Folios |-> [i \in DOMAIN historial[g] |-> Shown(historial[g][i])]]
           next == [g \in Folios |-> [i \in DOMAIN historial'[g] |-> Shown(historial'[g][i])]]
<1>14. now[f] = old
  BY <1>1, <1>3, <1>7, <1>8
<1>15. next = [now EXCEPT ![f] = new]
  <2>1. \A g \in Folios : historial'[g] = IF g = f THEN after ELSE historial[g]
    BY <1>3, <1>11, <1>12
  <2>2. next = [g \in Folios |-> IF g = f THEN new ELSE now[g]]
    BY <1>13, <2>1
  <2> HIDE DEF now, next
  <2>3. now = [g \in Folios |-> now[g]]
    BY DEF now
  <2> QED
    BY <2>2, <2>3
<1>16. Tables!TRANSITIONS = TRANSITIONS
  BY DEF TRANSITIONS, Tables!TRANSITIONS
<1>17. /\ f \in { g \in Folios : now[g] # <<>> } /\ UNCHANGED responsible
       /\ \E v \in DOMAIN Tables!TRANSITIONS, w \in Users :
            /\ \E i \in DOMAIN now[f] : now[f][i].nuevo = v[1]
            /\ next = [now EXCEPT ![f] = Append(now[f], [nuevo |-> Tables!TRANSITIONS[v], actor |-> w])]
  <2> HIDE DEF now, next
  <2> QED
    BY <1>2, <1>3, <1>4, <1>5, <1>9, <1>10, <1>11, <1>14, <1>15, <1>16
<1>18. Tables!Transition(f)
  BY <1>17, Zenon DEF Tables!Transition, Tables!Filed
<1> QED
  BY <1>3, <1>18

\* Lists, exports and details may assume that a historial is only added to, along the
\* matrix, next to tipos that change hands: transition and the editor do no more.
THEOREM KeepsTheHistoriales == Spec => ImplementsHistoriales
<1>1. Init => Tables!TablesInit
  <2> SUFFICES ASSUME Init PROVE Tables!TablesInit
    OBVIOUS
  <2>1. ASSUME NEW f \in Folios
        PROVE  [i \in DOMAIN historial[f] |-> Shown(historial[f][i])] = Tables!Filing(f)
    <3>1. PICK e \in [anterior: {NoEstado}, nuevo: {"CREADA"}, actor: Users, role: CreatorRoles] :
            historial[f] = <<e>>
      BY DEF Init
    <3>2. e.nuevo = "CREADA" /\ e.actor = Owner[f]
      BY <3>1 DEF Init
    <3> QED
      BY <3>1, <3>2 DEF Shown, Tables!Filing
  <2>2. [f \in Folios |-> [i \in DOMAIN historial[f] |-> Shown(historial[f][i])]]
          = [f \in Folios |-> IF f \in Folios THEN Tables!Filing(f) ELSE <<>>]
    BY <2>1
  <2> QED
    BY <2>2 DEF Init, Tables!TablesInit
<1>2. IInv /\ [Next]_vars => [Tables!TablesNext]_(Tables!tables)
  <2> SUFFICES ASSUME IInv, [Next]_vars
               PROVE  Tables!TablesNext \/ UNCHANGED Tables!tables
    OBVIOUS
  <2>1. ASSUME NEW r \in Requests, AppendAndCommit(r)
        PROVE  Tables!TablesNext
    <3>1. op[r].folio \in Folios
      BY DEF IInv, TypeOK, Request
    <3>2. \E f \in Folios : Tables!Transition(f)
      BY <2>1, <3>1, CommitAddsARow
    <3> QED
      BY <3>2 DEF Tables!TablesNext
  <2>2. ASSUME NEW r \in Requests,
               \/ ReadDetail(r) \/ Reject(r) \/ Fail(r) \/ Notify(r)
               \/ UpdateEstado(r) \/ RereadRow(r) \/ RereadHistorial(r)
        PROVE  UNCHANGED <<historial, responsible>>
    BY <2>2 DEF db, ReadDetail, Reject, Fail, Notify, UpdateEstado, RereadRow, RereadHistorial
  <2>3. ASSUME NEW t \in Tipos, EditTipo(t) PROVE Tables!TablesNext
    <3>1. Tables!EditTipo(t)
      BY <2>3 DEF EditTipo, Tables!EditTipo
    <3> QED
      BY <3>1 DEF Tables!TablesNext
  <2>4. CASE UNCHANGED vars
    BY <2>4 DEF vars, Tables!tables
  <2>5. UNCHANGED <<historial, responsible>> => UNCHANGED Tables!tables
    BY DEF Tables!tables
  <2> QED
    BY <2>1, <2>2, <2>3, <2>4, <2>5 DEF Next, Step
<1> QED
  BY <1>1, <1>2, Invariance, PTL DEF Spec, ImplementsHistoriales, Tables!TablesSpec
=============================================================================
