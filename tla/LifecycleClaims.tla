-------------------------- MODULE LifecycleClaims --------------------------
(***************************************************************************)
(* What the repository says of overlapping transitions and the stale read  *)
(* of transition does not keep.  TLC finds the behaviour that breaks       *)
(* each claim (README, section 6).                                         *)
(***************************************************************************)
EXTENDS Lifecycle

\* _base_queryset: "The state machine only allows one such transition", an
\* atender; the flow document lets the second of two concurrent takes fail.
SingleTake ==
  \A f \in Folios : \A i, j \in DOMAIN historial[f] :
    historial[f][i].nuevo = "EN_PROCESO" /\ historial[f][j].nuevo = "EN_PROCESO" => i = j

\* RF-LIF-01: "No other transitions exist": the column only moves along the
\* matrix, out of no terminal estado in particular.
OnlyMatrixTransitions ==
  [][\A f \in Folios : estado'[f] # estado[f] => <<estado[f], estado'[f]>> \in LegalChange]_estado
=============================================================================
