--------------------------- MODULE LifecycleRules ---------------------------
(***************************************************************************)
(* The vocabulary and the pure rules of a solicitud's life: its estados,   *)
(* the verbs a person may apply to it, the TRANSITIONS table and the       *)
(* permission rules layered on top of that table.  No state here: the      *)
(* modules that run requests (Lifecycle, Respuesta) look the rules up in   *)
(* the guards of their actions, as LifecycleService does.                  *)
(***************************************************************************)

Estados == {"CREADA", "EN_PROCESO", "FINALIZADA", "CANCELADA"}

\* What a historial row holds in estado_anterior when there is none.
NoEstado == "None"

TERMINAL == {"FINALIZADA", "CANCELADA"}

Actions == {"atender", "finalizar", "cancelar"}

\* Mutant: a finalized solicitud may be taken again.
TRANSITIONSReopening ==
  [t \in { <<"CREADA", "atender">>, <<"EN_PROCESO", "finalizar">>, <<"FINALIZADA", "atender">>,
           <<"CREADA", "cancelar">>, <<"EN_PROCESO", "cancelar">> } |->
     CASE t[2] = "atender"   -> "EN_PROCESO"
       [] t[2] = "finalizar" -> "FINALIZADA"
       [] t[2] = "cancelar"  -> "CANCELADA"]

\* (estado, action) -> estado.  A pair outside the domain is the KeyError
\* that becomes InvalidStateTransition.
TRANSITIONS ==
  [t \in { <<"CREADA", "atender">>, <<"EN_PROCESO", "finalizar">>,
           <<"CREADA", "cancelar">>, <<"EN_PROCESO", "cancelar">> } |->
     CASE t[2] = "atender"   -> "EN_PROCESO"
       [] t[2] = "finalizar" -> "FINALIZADA"
       [] t[2] = "cancelar"  -> "CANCELADA"]

Roles == {"ALUMNO", "DOCENTE", "CONTROL_ESCOLAR", "RESPONSABLE_PROGRAMA", "ADMIN"}

\* The roles a tipo may name as its responsible one.
ResponsibleRoles == {"CONTROL_ESCOLAR", "RESPONSABLE_PROGRAMA", "DOCENTE"}

\* CreatorRequiredMixin and ReviewerRequiredMixin: who gets past the view.
CreatorRoles  == {"ALUMNO", "DOCENTE"}
ReviewerRoles == ResponsibleRoles \cup {"ADMIN"}

\* _authorize: who may invoke the action on a row read in estado whose tipo
\* names responsible.
Authorized(action, estado, role, responsible, isOwner) ==
  \/ role = "ADMIN"
  \/ role = responsible
  \/ action = "cancelar" /\ isOwner /\ estado = "CREADA"
=============================================================================
