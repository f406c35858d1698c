----------------------------- MODULE Catalogue -----------------------------
(***************************************************************************)
(* What the catalogue of tipos promises those who file, review and print:  *)
(* a tipo is one value, which changes as a whole and keeps its name.       *)
(***************************************************************************)
EXTENDS Naturals

VARIABLE catalogo  \* the tipos: [id, slug, activo, form]

\* A form is what one administrator submitted at once: <<order, content>> for
\* each field, where a content names its author; no two fields share an order.
OneSubmissionForm(form) ==
  \A x, y \in form : x[2][1] = y[2][1] /\ (x[1] = y[1] => x = y)

Named == \A c, d \in catalogo : c.id = d.id \/ c.slug = d.slug => c = d

CatalogueInit == Named /\ \A c \in catalogo : OneSubmissionForm(c.form)

\* A new tipo is active and takes an id and a slug that nobody has.
Enter ==
  \E c \in catalogo' :
    /\ c.activo /\ OneSubmissionForm(c.form)
    /\ \A d \in catalogo : d.id # c.id /\ d.slug # c.slug
    /\ catalogo' = catalogo \cup {c}

\* An edit replaces the form, and neither renames nor revives the tipo.
Rewrite ==
  \E c \in catalogo : \E d \in catalogo' :
    /\ d.id = c.id /\ d.slug = c.slug /\ d.activo = c.activo
    /\ OneSubmissionForm(d.form)
    /\ catalogo' = (catalogo \ {c}) \cup {d}

Retire ==
  \E c \in catalogo : catalogo' = (catalogo \ {c}) \cup {[c EXCEPT !.activo = FALSE]}

CatalogueSpec == CatalogueInit /\ [][Enter \/ Rewrite \/ Retire]_catalogo
=============================================================================
