--------------------------- MODULE MentoresClaims ---------------------------
(***************************************************************************)
(* What the repository says of the catalogue and the code does not keep.   *)
(***************************************************************************)
EXTENDS Mentores

\* "Recover from a partial-unique-index IntegrityError ... never letting it
\* surface as a 500": the loser of a race is told ALREADY_ACTIVE.
RacesAreRecovered == \A r \in Requests : pc[r] # "conflict"

\* "The row's fecha_baja says whether they're currently active", of the row
\* with the latest fecha_alta: list and detail show it.
LatestRowTellsActive ==
  \A p \in periodos :
    (\A q \in periodos : q.matricula = p.matricula => q.alta <= p.alta) =>
      (p.baja = Open <=> Activos(p.matricula) # {})
=============================================================================
