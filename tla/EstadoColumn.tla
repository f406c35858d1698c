---------------------------- MODULE EstadoColumn ----------------------------
(***************************************************************************)
(* The column Solicitud.estado as a component other than the lifecycle     *)
(* sees it: it moves on its own, and because transition writes what it     *)
(* computed from an older reading, it moves along the matrix from SOME     *)
(* estado it has had, not always from the present one.                     *)
(*                                                                         *)
(* Lifecycle implements this (ImplementsColumn); Respuesta runs next to it.*)
(***************************************************************************)
EXTENDS LifecycleRules

CONSTANTS Folios

VARIABLES
  estado,   \* estado[f]: the committed column
  past      \* past[f]: the estados it has had, the present one included

Column == <<estado, past>>

ColumnInit ==
  /\ estado = [f \in Folios |-> "CREADA"]
  /\ past = [f \in Folios |-> {"CREADA"}]

\* A transition commits.
Move(f) ==
  \E t \in DOMAIN TRANSITIONS :
    /\ t[1] \in past[f]
    /\ estado' = [estado EXCEPT ![f] = TRANSITIONS[t]]
    /\ past' = [past EXCEPT ![f] = @ \cup {TRANSITIONS[t]}]

ColumnSpec == ColumnInit /\ [][\E f \in Folios : Move(f)]_Column
=============================================================================
