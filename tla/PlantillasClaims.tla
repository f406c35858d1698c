-------------------------- MODULE PlantillasClaims --------------------------
(***************************************************************************)
(* What the documents say of plantillas that were deactivated, and of what *)
(* the sample shows, and the code does not keep.                           *)
(***************************************************************************)
EXTENDS Plantillas

\* specs/apps/solicitudes/pdf/requirements.md, RF-PDF-01: "deactivated plantillas
\* remain referenceable for tipos that still use them".  Yet an edit of the tipo
\* that does not touch the select drops the plantilla: the deactivated one is not
\* among its options.
DeactivatedStaysInUse ==
  \A r \in Requests :
    /\ pc[r] = "ok" /\ job[r].op = "tipo" /\ ~page[r].touched
    /\ \A q \in Requests \ {r} : job[q] = None \/ job[q].op # "tipo"
    => usa = page[r].had

\* pdf/context.py, build_synthetic_context: "a plantilla that works for a real
\* solicitud also renders against this synthetic context with no conditional
\* logic".  The sample has no values: a template that does arithmetic on one, as
\* {% widthratio %} does, prints, and its sample is a syntax error.
WhatPrintsHasASample ==
  \A r, q \in Requests :
    /\ Printed(r, {"solicitud"}, {"ok"}) /\ Printed(q, {"sample"}, {"invalid", "error"})
    /\ doc[r].html = doc[q].html
    => Raises(doc[q].html, Pictures(q))
=============================================================================
