--------------------------- MODULE RespuestaClaims ---------------------------
(***************************************************************************)
(* What the repository says of answers and the code does not keep.         *)
(***************************************************************************)
EXTENDS Respuesta

\* "Upload window is EN_PROCESO only": a batch is committed while the column
\* says EN_PROCESO.
AnswersInsideTheWindow ==
  [][\A b \in batches' \ batches : estado[b.folio] = "EN_PROCESO"]_batches
=============================================================================
