------------------------------- MODULE Ledger -------------------------------
(***************************************************************************)
(* What the lifecycle promises to the rest of the system, without its      *)
(* requests, locks and transactions: per folio a ledger of changes that    *)
(* only grows, an estado that is the newest change, and announcements of   *)
(* changes that are already in the ledger.                                 *)
(*                                                                         *)
(* A new change need not continue the NEWEST one.  It continues SOME       *)
(* earlier one that is not final: that is all a reader of the tables may   *)
(* rely on when two people act on the same folio at once.                  *)
(***************************************************************************)
EXTENDS Naturals, Sequences

CONSTANTS Folios, Users, Owner

VARIABLES estado, historial, mails

Vars == <<estado, historial, mails>>

\* The estado matrix of the requirements and who appears in the ledger.
Matrix == { <<"CREADA", "EN_PROCESO">>, <<"EN_PROCESO", "FINALIZADA">>,
            <<"CREADA", "CANCELADA">>, <<"EN_PROCESO", "CANCELADA">> }

Changed == {"CREADA", "EN_PROCESO", "FINALIZADA", "CANCELADA"}
Personal == {"CONTROL_ESCOLAR", "RESPONSABLE_PROGRAMA", "DOCENTE", "ADMIN"}

Entry == [anterior: Changed, nuevo: Changed, actor: Users,
          role: Personal \cup {"ALUMNO"}]

\* A change a person may make: personal any change of the matrix, the
\* solicitante only CREADA -> CANCELADA.
Change(f, from, to, actor, role) ==
  /\ <<from, to>> \in Matrix
  /\ \/ role \in Personal
     \/ actor = Owner[f] /\ <<from, to>> = <<"CREADA", "CANCELADA">>

Start ==
  /\ estado = [f \in Folios |-> "CREADA"]
  /\ \A f \in Folios :
       /\ Len(historial[f]) = 1
       /\ historial[f][1].nuevo = "CREADA"
       /\ historial[f][1].actor = Owner[f]
  /\ mails = [f \in Folios |-> <<>>]

\* One change is recorded: it continues an earlier entry.
Record(f) ==
  \E p \in DOMAIN historial[f] : \E e \in Entry :
    /\ e.anterior = historial[f][p].nuevo
    /\ Change(f, e.anterior, e.nuevo, e.actor, e.role)
    /\ historial' = [historial EXCEPT ![f] = Append(@, e)]
    /\ estado' = [estado EXCEPT ![f] = e.nuevo]
    /\ UNCHANGED mails

\* One recorded change is announced, for the first time.
Announce(f) ==
  \E i \in 2 .. Len(historial[f]) :
    /\ \A j \in DOMAIN mails[f] : mails[f][j].entry # i
    /\ mails' = [mails EXCEPT ![f] =
                   Append(@, [entry |-> i, destino |-> historial[f][i].nuevo])]
    /\ UNCHANGED <<estado, historial>>

Contract == Start /\ [][\E f \in Folios : Record(f) \/ Announce(f)]_Vars
=============================================================================
