--------------------------- MODULE UsuariosClaims ---------------------------
(***************************************************************************)
(* What documents and comments say of logins and hydration, and the code   *)
(* does not keep.                                                          *)
(***************************************************************************)
EXTENDS Usuarios

\* auto_fill_resolver/interface.py: preview "Never raises".  SIGA's 404 passes
\* through it, and through the login that calls the same hydration.
PreviewNeverRaises ==
  \A r \in Requests : pc[r] = "notfound" => kind[r] = "filing" /\ falta[r] # Nobody

\* A login that has ended well, with a token still valid, is not undone by a
\* request that began before it.  hydrate_from_siga undoes it.
LoginsStand ==
  \A r \in Requests :
    (kind[r] = "callback" /\ pc[r] = "seated") =>
      \/ identidad[Me(r)] = ClaimsOf(token[r])
      \/ \E q \in Requests \ {r} : pc[q] # "idle" /\ Me(q) = Me(r) /\ alone[q]
=============================================================================
