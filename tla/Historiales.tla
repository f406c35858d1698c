----------------------------- MODULE Historiales -----------------------------
(***************************************************************************)
(* The tables as a component that only reads them sees them: solicitudes   *)
(* are filed, their historiales grow, tipos change hands.  A transition    *)
(* continues SOME row, not always the newest, because it writes what it    *)
(* computed from an older reading; who may make it, and the columns that   *)
(* no list or export shows, are left out.                                  *)
(*                                                                         *)
(* Lifecycle implements this (ImplementsHistoriales); Reportes runs next   *)
(* to it.                                                                  *)
(***************************************************************************)
EXTENDS LifecycleRules, Naturals, Sequences

CONSTANTS
  Folios,      \* the solicitudes, filed already or later
  Users,       \* matriculas
  Tipos,       \* rows of the tipo catalogue
  Owner,       \* Owner[f]: the solicitante of f
  CatalogueRoles \* the responsible roles the catalogue uses

VARIABLES
  historial,   \* historial[f]: the committed HistorialEstado rows; none before f is filed
  responsible  \* responsible[t]: TipoSolicitud.responsible_role

tables == <<historial, responsible>>

HistorialEntry == [nuevo : Estados, actor : Users]

Filed == { f \in Folios : historial[f] # <<>> }

\* What a filing commits.
Filing(f) == <<[nuevo |-> "CREADA", actor |-> Owner[f]]>>

TablesInit ==
  /\ \E before \in SUBSET Folios :
       historial = [f \in Folios |-> IF f \in before THEN Filing(f) ELSE <<>>]
  /\ responsible \in [Tipos -> CatalogueRoles]

\* A filing commits; around New Year not always in the order of created_at.
File(f) ==
  /\ f \notin Filed
  /\ historial' = [historial EXCEPT ![f] = Filing(f)]
  /\ UNCHANGED responsible

\* A transition: along the matrix from an estado the folio has had.
Transition(f) ==
  /\ f \in Filed
  /\ \E t \in DOMAIN TRANSITIONS, u \in Users :
       /\ \E i \in DOMAIN historial[f] : historial[f][i].nuevo = t[1]
       /\ historial' = [historial EXCEPT ![f] = Append(@, [nuevo |-> TRANSITIONS[t], actor |-> u])]
  /\ UNCHANGED responsible

\* An administrator edits the tipo.
EditTipo(t) ==
  /\ \E role \in CatalogueRoles \ {responsible[t]} :
       responsible' = [responsible EXCEPT ![t] = role]
  /\ UNCHANGED historial

TablesNext ==
  \/ \E f \in Folios : File(f) \/ Transition(f)
  \/ \E t \in Tipos : EditTipo(t)

TablesSpec == TablesInit /\ [][TablesNext]_tables
=============================================================================
