------------------------------- MODULE Padron -------------------------------
(***************************************************************************)
(* What the catalogue of mentores promises to who reads it, without the    *)
(* locks, waits and stale looks of the requests that write it: a table     *)
(* that one request at a time changes, once and as a whole.  An alta or an *)
(* import enrols mentores who have no open period; a baja closes periods   *)
(* that are open at that moment; nothing else ever happens to a row.       *)
(*                                                                         *)
(* Mentores implements this (ImplementsPadron).                            *)
(***************************************************************************)
EXTENDS Naturals

CONSTANTS Requests, Nobody

VARIABLE periodos

Abierto(p) == p.baja = 0 /\ p.desactivado = Nobody

Start == periodos = {}

\* r enrols the mentores of the new rows: one row each, under a new id.
Enrol(r, new) ==
  /\ \A q \in periodos : q.creado # r
  /\ \A p \in new :
       /\ p.creado = r /\ Abierto(p)
       /\ \A q \in periodos : q.alta # p.alta /\ ~(q.matricula = p.matricula /\ q.baja = 0)
       /\ \A q \in new : q.alta = p.alta \/ q.matricula = p.matricula => q = p
  /\ periodos' = periodos \cup new

\* r closes the old rows, all of them open, with one fecha_baja and in its name.
Dismiss(r, old, when) ==
  /\ \A q \in periodos : q.desactivado # r
  /\ when # 0
  /\ \A p \in old : Abierto(p)
  /\ periodos' = (periodos \ old) \cup { [p EXCEPT !.baja = when, !.desactivado = r] : p \in old }

Next ==
  \E r \in Requests :
    \/ Enrol(r, periodos' \ periodos)
    \/ \E p \in periodos' : Dismiss(r, periodos \ periodos', p.baja)

Contract == Start /\ [][Next]_periodos
=============================================================================
