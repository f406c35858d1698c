--------------------------- MODULE UsuariosProofs ---------------------------
(***************************************************************************)
(* Proofs about Usuarios, for any number of requests, people, tokens and   *)
(* columns.  The argument: a request that writes is running, so it is a    *)
(* rival of every other running request of its person, and what it writes  *)
(* is the identity of one token and a profile that knows no less.          *)
(***************************************************************************)
EXTENDS Usuarios, TLAPS

\* A person's profile grows, and the identity is kept or is one token's.
Grows(m) ==
  /\ \A n \in Matriculas \ {m} : identidad'[n] = identidad[n] /\ perfil'[n] = perfil[n]
  /\ Known(perfil[m]) \subseteq Known(perfil'[m])
  /\ identidad'[m] = identidad[m] \/ FromAToken(m, identidad'[m])

\* r moves, and touches no other request.
Moves(r) ==
  /\ UNCHANGED <<vigencia, kind, token, alone>>
  /\ pc'[r] # "idle"
  /\ \A q \in Requests \ {r} :
       /\ pc'[q] = pc[q] /\ visto'[q] = visto[q] /\ gate'[q] = gate[q] /\ falta'[q] = falta[q]
       /\ pendiente'[q] = pendiente[q]

\* Every token that was issued has been issued, after the step.
Tokened(m, id) ==
  \E t \in Tokens : t.sub = m /\ vigencia'[t] # "unissued" /\ Recognized(t) /\ id = ClaimsOf(t)

-----------------------------------------------------------------------------
(* Tokens and rows.                                                        *)

\* A token is of a person, and what it says is an identity when its role is known.
LEMMA TokenFacts ==
  ASSUME NEW t \in Tokens
  PROVE  /\ t.sub \in Matriculas
         /\ Recognized(t) => ClaimsOf(t) \in Identities
  BY UsuariosAssumption DEF Identities

\* What a token says is of one token of its person.
LEMMA ItsOwnToken ==
  ASSUME NEW t \in Tokens, Recognized(t), vigencia[t] # "unissued"
  PROVE  FromAToken(t.sub, ClaimsOf(t))
  BY DEF FromAToken

LEMMA FromATokenType ==
  ASSUME NEW m, NEW id, FromAToken(m, id)
  PROVE  m \in Matriculas /\ id \in Identities
  BY TokenFacts DEF FromAToken

\* The role of an identity is one of the roles.
LEMMA RoleType == ASSUME NEW id \in Identities PROVE id.role \in Roles
<1>1. PICK t \in Tokens : Recognized(t) /\ id = ClaimsOf(t)
  BY DEF Identities
<1>2. PROVIDER_ROLE_MAP[t.rol] \in Roles
  BY <1>1 DEF Recognized, PROVIDER_ROLE_MAP, Roles
<1> QED
  BY <1>1, <1>2 DEF ClaimsOf

\* A merge writes a profile that knows no less than the old one.
LEMMA MergeFacts ==
  ASSUME NEW p \in Perfiles, NEW a \in Perfiles
  PROVE  Merge(p, a) \in Perfiles /\ Known(p) \subseteq Known(Merge(p, a))
  BY DEF Merge, Perfiles, Known

LEMMA SinPerfilType == SinPerfil \in Perfiles
  BY DEF SinPerfil, Perfiles

\* What an upsert leaves in the tables.
LEMMA UpsertFacts ==
  ASSUME TypeOK, NEW m \in Matriculas, NEW id \in Identities, NEW a \in Perfiles,
         Upsert(m, id, a)
  PROVE  /\ identidad' \in [Matriculas -> Identities \cup {Nobody}]
         /\ perfil' \in [Matriculas -> Perfiles]
         /\ identidad'[m] = id
         /\ perfil'[m] = Merge(perfil[m], a)
         /\ Known(perfil[m]) \subseteq Known(perfil'[m])
         /\ \A n \in Matriculas \ {m} : identidad'[n] = identidad[n] /\ perfil'[n] = perfil[n]
<1>1. Merge(perfil[m], a) \in Perfiles /\ Known(perfil[m]) \subseteq Known(Merge(perfil[m], a))
  BY MergeFacts DEF TypeOK
<1> QED
  BY <1>1 DEF TypeOK, Upsert

\* Rows stay of tokens when one of them grows.
LEMMA RowsStay ==
  ASSUME TypeOK, RowsAreOfTokens, NEW m \in Matriculas, Grows(m), UNCHANGED vigencia
  PROVE  RowsAreOfTokens'
  BY DEF RowsAreOfTokens, Grows, FromAToken

-----------------------------------------------------------------------------
(* What a running request does leaves the others' part of the invariant.   *)

LEMMA OthersHold ==
  ASSUME TypeOK, NEW r \in Requests, pc[r] \in Running, RequestInv(r),
         Moves(r), Grows(Me(r)),
         NEW q \in Requests \ {r}, RequestInv(q)
  PROVE  RequestInv(q)'
<1> DEFINE same == Me(q) = Me(r)
<1>1. /\ pc'[q] = pc[q] /\ visto'[q] = visto[q] /\ gate'[q] = gate[q] /\ falta'[q] = falta[q]
      /\ token'[q] = token[q] /\ alone'[q] = alone[q] /\ vigencia' = vigencia
      /\ pendiente'[q] = pendiente[q]
      /\ Me(q)' = Me(q)
  BY DEF Moves, Me
<1>2. pc[r] # "idle" /\ pc[r] \notin Ended
  BY DEF Running, Ended
<1>3. alone[q] /\ pc[q] # "idle" => Me(q) # Me(r)
  BY <1>2 DEF RequestInv, HasNoRival
<1>4. pc[q] # "idle" => Me(q) \in Matriculas
  BY TokenFacts DEF RequestInv, HasAToken, Me
<1>5. pc[q] # "idle" /\ Me(q) # Me(r) =>
        identidad'[Me(q)] = identidad[Me(q)] /\ perfil'[Me(q)] = perfil[Me(q)]
  BY <1>4 DEF Grows
<1>6. pc[q] # "idle" => Known(perfil[Me(q)]) \subseteq Known(perfil'[Me(q)])
  BY <1>5 DEF Grows
<1>7. HasAToken(q)'
  BY <1>1 DEF RequestInv, HasAToken
<1>8. FindsItsRow(q)'
  <2> SUFFICES ASSUME pc[q] \in {"gate", "hydrate", "siga"}
               PROVE  FromAToken(Me(q), identidad'[Me(q)])
    BY <1>1 DEF FindsItsRow, FromAToken
  <2>1. FromAToken(Me(q), identidad[Me(q)])
    BY DEF RequestInv, FindsItsRow
  <2> QED
    BY <1>5, <2>1 DEF Grows
<1>9. CopyIsOld(q)'
  BY <1>1, <1>6 DEF RequestInv, CopyIsOld, FromAToken
<1>10. WriteWaits(q)'
  BY <1>1 DEF RequestInv, WriteWaits, FromAToken
<1>11. PreviewHolds(q)'
  <2>1. falta[q] # Nobody => pc[q] # "idle"
    BY DEF RequestInv, HasAToken
  <2> QED
    BY <1>1, <1>6, <2>1 DEF RequestInv, PreviewHolds, Missing
<1>12. RefusalHolds(q)'
  BY <1>1 DEF RequestInv, RefusalHolds
<1>13. HasNoRival(q)'
  <2> SUFFICES ASSUME alone[q], pc[q] # "idle",
                      NEW p \in Requests \ {q}, pc'[p] # "idle", Me(p)' = Me(q)
               PROVE  pc'[p] \in Ended
    BY <1>1 DEF HasNoRival
  <2>1. Me(p) = Me(q)
    BY DEF Moves, Me
  <2>2. p # r
    BY <1>3, <2>1
  <2>3. pc'[p] = pc[p]
    BY <2>2 DEF Moves
  <2> QED
    BY <2>1, <2>3 DEF RequestInv, HasNoRival
<1>14. JudgedByItself(q)'
  BY <1>1, <1>3, <1>5 DEF RequestInv, JudgedByItself
<1> QED
  BY <1>7, <1>8, <1>9, <1>11, <1>12, <1>13, <1>14, <1>10 DEF RequestInv

\* Nobody overlaps the one that moves, if nobody did.
LEMMA NoRivalStays ==
  ASSUME NEW r \in Requests, pc[r] # "idle", HasNoRival(r), Moves(r)
  PROVE  HasNoRival(r)'
  BY DEF HasNoRival, Moves, Me

-----------------------------------------------------------------------------
(* The steps of a running request, each with its own part of the invariant. *)

\* What the proof of a step of r owes.
Owes(r) == TypeOK' /\ Moves(r) /\ Grows(Me(r)) /\ RequestInv(r)'

\* The person of a running request, and the token it shows.
LEMMA ItsPerson ==
  ASSUME TypeOK, NEW r \in Requests, pc[r] # "idle", RequestInv(r)
  PROVE  /\ token[r] \in Tokens /\ vigencia[token[r]] # "unissued"
         /\ Me(r) \in Matriculas
  BY TokenFacts DEF RequestInv, HasAToken, Me

\* Tables that stay have grown.
LEMMA StillGrows ==
  ASSUME NEW m, UNCHANGED <<identidad, perfil>>
  PROVE  Grows(m)
  BY DEF Grows

\* A token that is not served ends its request and writes nothing.
LEMMA RejectStep ==
  ASSUME TypeOK, NEW r \in Requests, RequestInv(r), RejectToken(r)
  PROVE  Owes(r)
<1>1. pc[r] = "claims" /\ pc' = [pc EXCEPT ![r] = pc'[r]] /\ pc'[r] \in {"login", "refused"}
  BY DEF RejectToken, Goto, TypeOK
<1>2. UNCHANGED <<identidad, perfil, vigencia, kind, token, visto, gate, falta, alone, pendiente>>
  BY DEF RejectToken
<1>3. TypeOK'
  BY <1>1, <1>2 DEF TypeOK, Ended
<1>4. Moves(r)
  BY <1>1, <1>2 DEF Moves, TypeOK
<1>5. HasNoRival(r)'
  BY <1>1, <1>4, NoRivalStays DEF RequestInv
<1>6. RequestInv(r)'
  BY <1>1, <1>2, <1>5 DEF RequestInv, HasAToken, FindsItsRow, CopyIsOld, WriteWaits, PreviewHolds,
     RefusalHolds, JudgedByItself, Me, FromAToken
<1> QED
  BY <1>2, <1>3, <1>4, <1>6, StillGrows DEF Owes

\* A request that fails or dies has written what it had committed.
LEMMA FailStep ==
  ASSUME TypeOK, NEW r \in Requests, RequestInv(r), Fail(r)
  PROVE  Owes(r)
<1>1. pc[r] # "idle" /\ pc' = [pc EXCEPT ![r] = pc'[r]] /\ pc'[r] \in {"undone", "dead"}
  BY DEF Fail, Abort, Die, Goto, TypeOK, Running
<1>2. /\ UNCHANGED <<identidad, perfil, vigencia, kind, token, visto, gate, falta, alone>>
      /\ pendiente' = [pendiente EXCEPT ![r] = Nobody]
  BY DEF Fail
<1>3. TypeOK'
  BY <1>1, <1>2 DEF TypeOK, Ended
<1>4. Moves(r)
  BY <1>1, <1>2 DEF Moves, TypeOK
<1>5. HasNoRival(r)'
  BY <1>1, <1>4, NoRivalStays DEF RequestInv
<1>6. pc[r] \in Running
  BY DEF Fail, Abort, Die, Running
<1>7. JudgedByItself(r)'
  <2>1. pc[r] \notin {"idle", "claims"} => JudgedByItself(r)'
    BY <1>1, <1>2, <1>6 DEF RequestInv, JudgedByItself, Me, Running
  <2>2. pc[r] = "claims" => pc'[r] = "dead"
    BY DEF Fail, Abort, Die, Goto, TypeOK
  <2>3. pc'[r] = "dead" => JudgedByItself(r)'
    BY DEF JudgedByItself
  <2> QED
    BY <1>1, <2>1, <2>2, <2>3
<1>8. pendiente'[r] = Nobody
  BY <1>2 DEF TypeOK
<1>9. RequestInv(r)'
  BY <1>1, <1>2, <1>5, <1>7, <1>8 DEF RequestInv, HasAToken, FindsItsRow, CopyIsOld, WriteWaits,
     PreviewHolds, RefusalHolds, Me, FromAToken
<1> QED
  BY <1>2, <1>3, <1>4, <1>9, StillGrows DEF Owes

\* The claims of its own token go into the row, or the index refuses them.
LEMMA WriteClaimsStep ==
  ASSUME TypeOK, NEW r \in Requests, RequestInv(r), WriteClaims(r)
  PROVE  Owes(r)
<1> DEFINE id == ClaimsOf(token[r])
<1>0. pc[r] = "claims" /\ Recognized(token[r])
      /\ UNCHANGED <<vigencia, kind, token, visto, gate, falta, alone, pendiente>>
  BY DEF WriteClaims
<1>1. token[r] \in Tokens /\ vigencia[token[r]] # "unissued" /\ Me(r) \in Matriculas
  BY <1>0, ItsPerson
<1>2. id \in Identities
  BY <1>0, <1>1, TokenFacts
<1>3. FromAToken(Me(r), id)
  BY <1>0, <1>1, ItsOwnToken DEF Me
<1>4. CASE /\ Upsert(Me(r), id, SinPerfil)
           /\ Goto(r, IF kind[r] = "callback" THEN "hydrate" ELSE "gate")
  <2>1. /\ identidad' \in [Matriculas -> Identities \cup {Nobody}]
        /\ perfil' \in [Matriculas -> Perfiles]
        /\ identidad'[Me(r)] = id
        /\ Known(perfil[Me(r)]) \subseteq Known(perfil'[Me(r)])
        /\ \A n \in Matriculas \ {Me(r)} : identidad'[n] = identidad[n] /\ perfil'[n] = perfil[n]
    BY <1>1, <1>2, <1>4, SinPerfilType, UpsertFacts
  <2>2. pc' = [pc EXCEPT ![r] = pc'[r]] /\ pc'[r] \in {"hydrate", "gate"}
    BY <1>4 DEF Goto, TypeOK
  <2>3. TypeOK'
    BY <1>0, <2>1, <2>2 DEF TypeOK, Running
  <2>4. Moves(r)
    BY <1>0, <2>2 DEF Moves, TypeOK
  <2>5. Grows(Me(r))
    BY <1>3, <2>1 DEF Grows
  <2>6. HasNoRival(r)'
    BY <1>0, <2>4, NoRivalStays DEF RequestInv
  <2>7. Me(r)' = Me(r)
    BY <1>0 DEF Me
  <2>8. HasAToken(r)' /\ RefusalHolds(r)'
    BY <1>0, <1>1, <2>2 DEF HasAToken, RefusalHolds
  <2>9. FindsItsRow(r)' /\ CopyIsOld(r)' /\ WriteWaits(r)'
    BY <1>0, <1>3, <2>1, <2>2, <2>7
       DEF RequestInv, FindsItsRow, CopyIsOld, WriteWaits, FromAToken
  <2>10. PreviewHolds(r)'
    BY <1>0, <2>1, <2>2, <2>7 DEF RequestInv, PreviewHolds, Missing
  <2>11. JudgedByItself(r)'
    BY <1>0, <2>1, <2>2, <2>7 DEF RequestInv, HasAToken, JudgedByItself
  <2> QED
    BY <2>3, <2>4, <2>5, <2>6, <2>8, <2>9, <2>10, <2>11 DEF Owes, RequestInv
<1>5. CASE Goto(r, "error") /\ UNCHANGED <<identidad, perfil>>
  <2>1. pc' = [pc EXCEPT ![r] = "error"] /\ pc'[r] = "error"
    BY <1>5 DEF Goto, TypeOK
  <2>2. TypeOK'
    BY <1>0, <1>5, <2>1 DEF TypeOK, Ended
  <2>3. Moves(r)
    BY <1>0, <2>1 DEF Moves, TypeOK
  <2>4. HasNoRival(r)'
    BY <1>0, <2>3, NoRivalStays DEF RequestInv
  <2>5. RequestInv(r)'
    BY <1>0, <1>1, <1>5, <2>1, <2>4 DEF RequestInv, HasAToken, FindsItsRow, CopyIsOld,
       WriteWaits, PreviewHolds, RefusalHolds, JudgedByItself, Me, FromAToken
  <2> QED
    BY <1>5, <2>2, <2>3, <2>5, StillGrows DEF Owes
<1> QED
  BY <1>4, <1>5 DEF WriteClaims

\* The middleware's re-read and the mixin: the role is that of the row now.
LEMMA ReadGateStep ==
  ASSUME TypeOK, NEW r \in Requests, RequestInv(r), ReadGate(r)
  PROVE  Owes(r)
<1>0. pc[r] = "gate" /\ UNCHANGED <<identidad, perfil, vigencia, kind, token, visto, falta, alone, pendiente>>
      /\ gate' = [gate EXCEPT ![r] = identidad[Me(r)].role]
  BY DEF ReadGate
<1>1. token[r] \in Tokens /\ vigencia[token[r]] # "unissued" /\ Me(r) \in Matriculas
  BY <1>0, ItsPerson
<1>2. identidad[Me(r)] \in Identities
  BY <1>0, FromATokenType DEF RequestInv, FindsItsRow
<1>3. identidad[Me(r)].role \in Roles
  BY <1>2, RoleType
<1>4. pc' = [pc EXCEPT ![r] = pc'[r]] /\ pc'[r] \in {"forbidden", "granted", "hydrate"}
  BY DEF ReadGate, Judge, Goto, TypeOK
<1>5. TypeOK'
  BY <1>0, <1>3, <1>4 DEF TypeOK, Running, Ended
<1>6. Moves(r)
  BY <1>0, <1>4 DEF Moves, TypeOK
<1>7. HasNoRival(r)'
  BY <1>0, <1>6, NoRivalStays DEF RequestInv
<1>8. gate'[r] = identidad[Me(r)].role
  BY <1>0 DEF TypeOK
<1>9. /\ HasAToken(r)' /\ FindsItsRow(r)' /\ CopyIsOld(r)' /\ WriteWaits(r)'
      /\ PreviewHolds(r)' /\ RefusalHolds(r)'
  BY <1>0, <1>4, <1>1 DEF RequestInv, HasAToken, FindsItsRow, CopyIsOld, WriteWaits, PreviewHolds,
     RefusalHolds, Me, FromAToken
<1>10. JudgedByItself(r)'
  BY <1>0, <1>4, <1>8 DEF RequestInv, JudgedByItself, Me
<1> QED
  BY <1>0, <1>5, <1>6, <1>7, <1>9, <1>10, StillGrows DEF Owes, RequestInv

\* The row is copied before the call.
LEMMA ReadExistingStep ==
  ASSUME TypeOK, NEW r \in Requests, RequestInv(r), ReadExisting(r)
  PROVE  Owes(r)
<1>0. /\ pc[r] = "hydrate" /\ pc' = [pc EXCEPT ![r] = "siga"] /\ pc'[r] = "siga"
      /\ UNCHANGED <<identidad, perfil, vigencia, kind, token, gate, falta, alone, pendiente>>
      /\ visto' = [visto EXCEPT ![r] = [id |-> identidad[Me(r)], perfil |-> perfil[Me(r)]]]
  BY DEF ReadExisting, Goto, TypeOK
<1>1. token[r] \in Tokens /\ vigencia[token[r]] # "unissued" /\ Me(r) \in Matriculas
  BY <1>0, ItsPerson
<1>2. FromAToken(Me(r), identidad[Me(r)])
  BY <1>0 DEF RequestInv, FindsItsRow
<1>3. identidad[Me(r)] \in Identities
  BY <1>2, FromATokenType
<1>4. perfil[Me(r)] \in Perfiles
  BY <1>1 DEF TypeOK
<1>5. TypeOK'
  BY <1>0, <1>3, <1>4 DEF TypeOK, Running
<1>6. Moves(r)
  BY <1>0 DEF Moves, TypeOK
<1>7. HasNoRival(r)'
  BY <1>0, <1>6, NoRivalStays DEF RequestInv
<1>8. visto'[r].id = identidad[Me(r)] /\ visto'[r].perfil = perfil[Me(r)] /\ Me(r)' = Me(r)
  BY <1>0 DEF TypeOK, Me
<1>9. HasAToken(r)' /\ RefusalHolds(r)'
  BY <1>0, <1>1 DEF RequestInv, HasAToken, RefusalHolds
<1>10. FindsItsRow(r)'
  BY <1>0, <1>2, <1>8 DEF FindsItsRow, FromAToken
<1>11. alone[r] => identidad[Me(r)] = ClaimsOf(token[r])
  BY <1>0 DEF RequestInv, JudgedByItself
<1>12. CopyIsOld(r)' /\ WriteWaits(r)'
  BY <1>0, <1>2, <1>4, <1>8, <1>11 DEF RequestInv, CopyIsOld, WriteWaits, FromAToken
<1>13. PreviewHolds(r)'
  BY <1>0, <1>8 DEF RequestInv, PreviewHolds
<1>14. JudgedByItself(r)'
  BY <1>0, <1>8 DEF RequestInv, JudgedByItself
<1> QED
  BY <1>0, <1>5, <1>6, <1>7, <1>9, <1>10, <1>12, <1>13, <1>14, StillGrows DEF Owes, RequestInv

\* What the three callers do with the profile p they are given.
LEMMA HydratedFacts ==
  ASSUME TypeOK, NEW r \in Requests, NEW p \in Perfiles, Hydrated(r, p)
  PROVE  /\ pc' = [pc EXCEPT ![r] = pc'[r]]
         /\ pc'[r] \in {"seated", "shown", "invalid", "hydrate", "incomplete", "filing"}
         /\ falta' \in [Requests -> (SUBSET Campos) \cup {Nobody}]
         /\ \A q \in Requests \ {r} : falta'[q] = falta[q]
         /\ falta'[r] = falta[r] \/ falta'[r] = Missing(p)
         /\ pc'[r] = "incomplete" => falta'[r] = falta[r] /\ falta[r] # Nobody /\ Missing(p) # {}
         /\ Resolving(r) => falta'[r] = falta[r] /\ (Missing(p) = {} => pc'[r] = "filing")
<1>0. Missing(p) \in SUBSET Campos
  BY UsuariosAssumption DEF Missing
<1>1. CASE Seat(r)
  BY <1>1 DEF Seat, Resolving, Goto, TypeOK
<1>2. CASE Preview(r, p)
  BY <1>0, <1>2 DEF Preview, Resolving, Goto, TypeOK
<1>3. CASE Resolve(r, p)
  BY <1>3 DEF Resolve, Resolving, Goto, TypeOK
<1> QED
  BY <1>1, <1>2, <1>3 DEF Hydrated

\* A hydration that ends with the profile p leaves the request's part of the
\* invariant: p misses nothing the preview did not, and no less than the row.
LEMMA HydratedStep ==
  ASSUME TypeOK, NEW r \in Requests, RequestInv(r), pc[r] = "siga",
         NEW p \in Perfiles, Hydrated(r, p),
         UNCHANGED <<vigencia, kind, token, visto, gate, alone>>,
         identidad' \in [Matriculas -> Identities \cup {Nobody}],
         perfil' \in [Matriculas -> Perfiles],
         Grows(Me(r)),
         FromAToken(Me(r), identidad'[Me(r)]),
         alone[r] => identidad'[Me(r)] = ClaimsOf(token[r]),
         ~Resolving(r) => Known(p) \subseteq Known(perfil'[Me(r)]),
         falta[r] # Nobody => Missing(p) \subseteq falta[r],
         pendiente' \in [Requests -> [id : Identities, answer : Answers] \cup {Nobody}],
         \A q \in Requests \ {r} : pendiente'[q] = pendiente[q],
         pendiente'[r] # Nobody =>
           /\ Resolving(r) /\ Missing(p) = {}
           /\ FromAToken(Me(r), pendiente'[r].id)
           /\ alone[r] => pendiente'[r].id = ClaimsOf(token[r])
  PROVE  Owes(r)
<1>1. /\ pc' = [pc EXCEPT ![r] = pc'[r]]
      /\ pc'[r] \in {"seated", "shown", "invalid", "hydrate", "incomplete", "filing"}
      /\ falta' \in [Requests -> (SUBSET Campos) \cup {Nobody}]
      /\ \A q \in Requests \ {r} : falta'[q] = falta[q]
      /\ falta'[r] = falta[r] \/ falta'[r] = Missing(p)
      /\ pc'[r] = "incomplete" => falta'[r] = falta[r] /\ falta[r] # Nobody /\ Missing(p) # {}
      /\ Resolving(r) => falta'[r] = falta[r] /\ (Missing(p) = {} => pc'[r] = "filing")
  BY HydratedFacts
<1>2. token[r] \in Tokens /\ vigencia[token[r]] # "unissued" /\ Me(r) \in Matriculas
  BY ItsPerson
<1>3. TypeOK'
  BY <1>1 DEF TypeOK, Running, Ended
<1>4. Moves(r)
  BY <1>1 DEF Moves, TypeOK
<1>5. HasNoRival(r)'
  BY <1>4, NoRivalStays DEF RequestInv
<1>6. Me(r)' = Me(r)
  BY DEF Me
<1>7. HasAToken(r)'
  BY <1>1, <1>2 DEF HasAToken
<1>8. FindsItsRow(r)'
  BY <1>6 DEF FindsItsRow, FromAToken
<1>9. CopyIsOld(r)'
  BY <1>1, <1>6 DEF RequestInv, CopyIsOld, FromAToken
<1>10. PreviewHolds(r)'
  <2>1. ~Resolving(r) => Missing(perfil'[Me(r)]) \subseteq Missing(p)
    BY DEF Missing
  <2>2. falta'[r] # Nobody => Missing(p) \subseteq falta'[r]
    BY <1>1
  <2>5. Resolving(r) => Missing(perfil'[Me(r)]) \subseteq falta'[r]
    BY <1>1 DEF Resolving, RequestInv, PreviewHolds, Grows, Missing
  <2>3. falta'[r] # Nobody => Missing(perfil'[Me(r)]) \subseteq falta'[r]
    BY <2>1, <2>2, <2>5
  <2>4. Missing(perfil[Me(r)])' = Missing(perfil'[Me(r)])
    BY <1>6 DEF Missing
  <2> QED
    BY <1>1, <2>3, <2>4 DEF PreviewHolds
<1>11. RefusalHolds(r)'
  <2>1. pc'[r] = "incomplete" => Missing(p) # {} /\ Missing(p) \subseteq falta'[r]
    BY <1>1, Zenon
  <2>2. pc'[r] = "incomplete" => falta'[r] # {}
    BY <2>1
  <2> QED
    BY <2>2 DEF RefusalHolds
<1>12. JudgedByItself(r)'
  BY <1>6 DEF RequestInv, JudgedByItself
<1>13. WriteWaits(r)'
  BY <1>1, <1>6 DEF WriteWaits, FromAToken
<1> QED
  BY <1>3, <1>4, <1>5, <1>7, <1>8, <1>9, <1>10, <1>11, <1>12, <1>13 DEF Owes, RequestInv

\* What a request at the call knows.
LEMMA AtTheCall ==
  ASSUME TypeOK, NEW r \in Requests, RequestInv(r), pc[r] = "siga"
  PROVE  /\ Me(r) \in Matriculas
         /\ FromAToken(Me(r), identidad[Me(r)]) /\ FromAToken(Me(r), visto[r].id)
         /\ visto[r].perfil \in Perfiles
         /\ Known(visto[r].perfil) \subseteq Known(perfil[Me(r)])
         /\ pendiente[r] = Nobody
         /\ alone[r] => /\ visto[r].id = ClaimsOf(token[r])
                        /\ identidad[Me(r)] = ClaimsOf(token[r])
         /\ falta[r] # Nobody => /\ Missing(perfil[Me(r)]) \subseteq falta[r]
                                 /\ Missing(visto[r].perfil) \subseteq falta[r]
<1>1. Me(r) \in Matriculas
  BY ItsPerson
<1>2. alone[r] => identidad[Me(r)] = ClaimsOf(token[r])
  BY DEF RequestInv, JudgedByItself
<1> QED
  BY <1>1, <1>2 DEF RequestInv, FindsItsRow, CopyIsOld, WriteWaits, PreviewHolds

\* Without SIGA the request goes on with the copy it read.
LEMMA SigaDownStep ==
  ASSUME TypeOK, NEW r \in Requests, RequestInv(r), SigaDown(r)
  PROVE  Owes(r)
<1>1. /\ pc[r] = "siga"
      /\ UNCHANGED <<identidad, perfil, vigencia, kind, token, visto, gate, alone, pendiente>>
  BY DEF SigaDown
<1>2. PICK p : p = visto[r].perfil
  OBVIOUS
<1>3. p \in Perfiles /\ Hydrated(r, p)
  BY <1>1, <1>2, AtTheCall DEF SigaDown
<1>4. /\ Me(r) \in Matriculas /\ FromAToken(Me(r), identidad[Me(r)])
      /\ Known(p) \subseteq Known(perfil[Me(r)])
      /\ alone[r] => identidad[Me(r)] = ClaimsOf(token[r])
      /\ falta[r] # Nobody => Missing(p) \subseteq falta[r]
      /\ pendiente[r] = Nobody
  BY <1>1, <1>2, AtTheCall
<1>5. Grows(Me(r))
  BY <1>1, StillGrows
<1>6. /\ identidad' \in [Matriculas -> Identities \cup {Nobody}]
      /\ perfil' \in [Matriculas -> Perfiles]
      /\ pendiente' \in [Requests -> [id : Identities, answer : Answers] \cup {Nobody}]
  BY <1>1 DEF TypeOK
<1>7. pendiente' = pendiente /\ identidad' = identidad /\ perfil' = perfil
  BY <1>1
<1> QED
  BY <1>1, <1>3, <1>4, <1>5, <1>6, <1>7, HydratedStep

\* A 404 ends the request.
LEMMA SigaUnknownStep ==
  ASSUME TypeOK, NEW r \in Requests, RequestInv(r), SigaUnknown(r)
  PROVE  Owes(r)
<1>1. pc[r] = "siga" /\ pc' = [pc EXCEPT ![r] = "notfound"] /\ pc'[r] = "notfound"
  BY DEF SigaUnknown, Goto, TypeOK
<1>2. UNCHANGED <<identidad, perfil, vigencia, kind, token, visto, gate, falta, alone, pendiente>>
  BY DEF SigaUnknown
<1>3. TypeOK'
  BY <1>1, <1>2 DEF TypeOK, Ended
<1>4. Moves(r)
  BY <1>1, <1>2 DEF Moves, TypeOK
<1>5. HasNoRival(r)'
  BY <1>1, <1>4, NoRivalStays DEF RequestInv
<1>6. RequestInv(r)'
  BY <1>1, <1>2, <1>5 DEF RequestInv, HasAToken, FindsItsRow, CopyIsOld, WriteWaits, PreviewHolds,
     RefusalHolds, JudgedByItself, Me, FromAToken
<1> QED
  BY <1>2, <1>3, <1>4, <1>6, StillGrows DEF Owes

\* SIGA's answer is merged, and the identity that was read is written back.
LEMMA SigaAnswersStep ==
  ASSUME TypeOK, NEW r \in Requests, RequestInv(r), SigaAnswers(r)
  PROVE  Owes(r)
<1>1. pc[r] = "siga" /\ UNCHANGED <<vigencia, kind, token, visto, gate, alone>>
  BY DEF SigaAnswers
<1>2. /\ Me(r) \in Matriculas /\ FromAToken(Me(r), visto[r].id)
      /\ alone[r] => visto[r].id = ClaimsOf(token[r])
      /\ falta[r] # Nobody => Missing(perfil[Me(r)]) \subseteq falta[r]
      /\ pendiente[r] = Nobody
  BY <1>1, AtTheCall
<1>3. visto[r].id \in Identities
  BY <1>2, FromATokenType
<1>4. ASSUME NEW a \in Answers, WriteBack(r, a), Hydrated(r, Merge(perfil[Me(r)], a))
      PROVE  Owes(r)
  <2>1. PICK p : p = Merge(perfil[Me(r)], a)
    OBVIOUS
  <2>2. a \in Perfiles
    BY UsuariosAssumption
  <2>3. p \in Perfiles /\ Known(perfil[Me(r)]) \subseteq Known(p)
    BY <1>2, <2>1, <2>2, MergeFacts DEF TypeOK
  <2>4. CASE ~Resolving(r) /\ Upsert(Me(r), BackId(r), a) /\ UNCHANGED pendiente
    <3>1. /\ identidad' \in [Matriculas -> Identities \cup {Nobody}]
          /\ perfil' \in [Matriculas -> Perfiles]
          /\ identidad'[Me(r)] = visto[r].id
          /\ perfil'[Me(r)] = p
          /\ Known(perfil[Me(r)]) \subseteq Known(perfil'[Me(r)])
          /\ \A n \in Matriculas \ {Me(r)} : identidad'[n] = identidad[n] /\ perfil'[n] = perfil[n]
      BY <1>2, <1>3, <2>1, <2>2, <2>4, UpsertFacts DEF BackId
    <3>2. /\ pendiente' \in [Requests -> [id : Identities, answer : Answers] \cup {Nobody}]
          /\ pendiente' = pendiente /\ pendiente'[r] = Nobody
      BY <1>2, <2>4 DEF TypeOK
    <3>3. Grows(Me(r))
      BY <1>2, <3>1 DEF Grows
    <3>4. falta[r] # Nobody => Missing(p) \subseteq falta[r]
      BY <1>2, <2>3 DEF Missing
    <3>5. FromAToken(Me(r), identidad'[Me(r)]) /\ (alone[r] => identidad'[Me(r)] = ClaimsOf(token[r]))
      BY <1>2, <3>1
    <3>6. Hydrated(r, p) /\ Known(p) \subseteq Known(perfil'[Me(r)])
      BY <1>4, <2>1, <3>1
    <3> QED
      BY <1>1, <2>3, <3>1, <3>2, <3>3, <3>4, <3>5, <3>6, HydratedStep
  <2>5. CASE /\ Resolving(r)
             /\ pendiente' = [pendiente EXCEPT ![r] = Pending(r, a)]
             /\ UNCHANGED <<identidad, perfil>>
    <3>1. Pending(r, a) \in [id : Identities, answer : Answers] \cup {Nobody}
      BY <1>3 DEF Pending, BackId
    <3>2. /\ pendiente' \in [Requests -> [id : Identities, answer : Answers] \cup {Nobody}]
          /\ \A q \in Requests \ {r} : pendiente'[q] = pendiente[q]
          /\ pendiente'[r] = Pending(r, a)
      BY <2>5, <3>1 DEF TypeOK
    <3>3. Pending(r, a) # Nobody => Missing(p) = {} /\ Pending(r, a).id = visto[r].id
      BY <2>1 DEF Pending, BackId
    <3>4. falta[r] # Nobody => Missing(p) \subseteq falta[r]
      BY <1>2, <2>3 DEF Missing
    <3>5. Hydrated(r, p) /\ Grows(Me(r))
      BY <1>4, <2>1, <2>5, StillGrows
    <3>6. FromAToken(Me(r), identidad[Me(r)]) /\ (alone[r] => identidad[Me(r)] = ClaimsOf(token[r]))
      BY <1>1, AtTheCall
    <3>7. /\ identidad' \in [Matriculas -> Identities \cup {Nobody}] /\ identidad' = identidad
          /\ perfil' \in [Matriculas -> Perfiles]
      BY <2>5 DEF TypeOK
    <3>8. pendiente'[r] # Nobody =>
            /\ Resolving(r) /\ Missing(p) = {}
            /\ FromAToken(Me(r), pendiente'[r].id)
            /\ alone[r] => pendiente'[r].id = ClaimsOf(token[r])
      BY <1>2, <2>5, <3>2, <3>3
    <3>9. /\ FromAToken(Me(r), identidad'[Me(r)])
          /\ alone[r] => identidad'[Me(r)] = ClaimsOf(token[r])
      BY <3>6, <3>7
    <3> QED
      BY <1>1, <2>3, <2>5, <3>2, <3>4, <3>5, <3>7, <3>8, <3>9, HydratedStep
  <2> QED
    BY <1>4, <2>4, <2>5 DEF WriteBack
<1>5. CASE Goto(r, "error") /\ UNCHANGED <<identidad, perfil, falta, pendiente>>
  <2>1. pc' = [pc EXCEPT ![r] = "error"] /\ pc'[r] = "error"
    BY <1>5 DEF Goto, TypeOK
  <2>2. TypeOK'
    BY <1>1, <1>5, <2>1 DEF TypeOK, Ended
  <2>3. Moves(r)
    BY <1>1, <1>5, <2>1 DEF Moves, TypeOK
  <2>4. HasNoRival(r)'
    BY <1>1, <2>3, NoRivalStays DEF RequestInv
  <2>5. RequestInv(r)'
    BY <1>1, <1>5, <2>1, <2>4 DEF RequestInv, HasAToken, FindsItsRow, CopyIsOld,
       WriteWaits, PreviewHolds, RefusalHolds, JudgedByItself, Me, FromAToken
  <2> QED
    BY <1>5, <2>2, <2>3, <2>5, StillGrows DEF Owes
<1> QED
  BY <1>4, <1>5 DEF SigaAnswers

\* The COMMIT of a filing makes the identity it read, and what it learnt, the row.
LEMMA CommitStep ==
  ASSUME TypeOK, NEW r \in Requests, RequestInv(r), Commit(r)
  PROVE  Owes(r)
<1>1. /\ pc[r] = "filing" /\ pc' = [pc EXCEPT ![r] = "filed"] /\ pc'[r] = "filed"
      /\ UNCHANGED <<vigencia, kind, token, visto, gate, falta, alone>>
      /\ pendiente' = [pendiente EXCEPT ![r] = Nobody] /\ pendiente'[r] = Nobody
  BY DEF Commit, Goto, TypeOK
<1>2. token[r] \in Tokens /\ vigencia[token[r]] # "unissued" /\ Me(r) \in Matriculas
  BY <1>1, ItsPerson
<1>3. alone[r] => identidad[Me(r)] = ClaimsOf(token[r])
  BY <1>1 DEF RequestInv, JudgedByItself
<1>4. /\ identidad' \in [Matriculas -> Identities \cup {Nobody}]
      /\ perfil' \in [Matriculas -> Perfiles]
      /\ Grows(Me(r))
      /\ alone[r] => identidad'[Me(r)] = ClaimsOf(token[r])
  <2>1. CASE pendiente[r] = Nobody /\ UNCHANGED <<identidad, perfil>>
    BY <1>3, <2>1, StillGrows DEF TypeOK
  <2>2. CASE pendiente[r] # Nobody /\ Upsert(Me(r), pendiente[r].id, pendiente[r].answer)
    <3>1. pendiente[r].id \in Identities /\ pendiente[r].answer \in Perfiles
      BY <2>2, UsuariosAssumption DEF TypeOK
    <3>2. FromAToken(Me(r), pendiente[r].id) /\ (alone[r] => pendiente[r].id = ClaimsOf(token[r]))
      BY <2>2 DEF RequestInv, WriteWaits
    <3>3. /\ identidad' \in [Matriculas -> Identities \cup {Nobody}]
          /\ perfil' \in [Matriculas -> Perfiles]
          /\ identidad'[Me(r)] = pendiente[r].id
          /\ Known(perfil[Me(r)]) \subseteq Known(perfil'[Me(r)])
          /\ \A n \in Matriculas \ {Me(r)} : identidad'[n] = identidad[n] /\ perfil'[n] = perfil[n]
      BY <1>2, <2>2, <3>1, UpsertFacts
    <3> QED
      BY <3>2, <3>3 DEF Grows
  <2> QED
    BY <2>1, <2>2 DEF Commit
<1>5. TypeOK'
  BY <1>1, <1>4 DEF TypeOK, Ended
<1>6. Moves(r)
  BY <1>1 DEF Moves, TypeOK
<1>7. HasNoRival(r)'
  BY <1>1, <1>6, NoRivalStays DEF RequestInv
<1>8. Me(r)' = Me(r)
  BY <1>1 DEF Me
<1>9. /\ HasAToken(r)' /\ FindsItsRow(r)' /\ CopyIsOld(r)' /\ WriteWaits(r)'
      /\ RefusalHolds(r)'
  BY <1>1, <1>2, <1>8 DEF RequestInv, HasAToken, FindsItsRow, CopyIsOld, WriteWaits,
     RefusalHolds, FromAToken
<1>10. PreviewHolds(r)'
  BY <1>1, <1>4, <1>8 DEF RequestInv, PreviewHolds, Grows, Missing
<1>11. JudgedByItself(r)'
  BY <1>1, <1>4, <1>8 DEF RequestInv, JudgedByItself
<1> QED
  BY <1>4, <1>5, <1>6, <1>7, <1>9, <1>10, <1>11 DEF Owes, RequestInv

-----------------------------------------------------------------------------
(* The steps of the provider, the picker and the browser.                  *)

\* Tokens that come and go without a write to the tables.
LEMMA TokenStep ==
  ASSUME IInv, UNCHANGED <<identidad, perfil, pc, kind, token, visto, gate, falta, alone, pendiente>>,
         vigencia' \in [Tokens -> {"unissued", "valid", "expired"}],
         \A t \in Tokens : vigencia[t] # "unissued" => vigencia'[t] # "unissued"
  PROVE  IInv'
<1>1. TypeOK'
  BY DEF IInv, TypeOK
<1>2. \A m, id : FromAToken(m, id) => Tokened(m, id)
  BY DEF FromAToken, Tokened
<1>3. RowsAreOfTokens'
  BY <1>2 DEF IInv, RowsAreOfTokens, FromAToken, Tokened
<1>4. ASSUME NEW r \in Requests PROVE RequestInv(r)'
  <2>1. RequestInv(r) /\ Me(r)' = Me(r)
    BY DEF IInv, Me
  <2>2. HasAToken(r)' /\ PreviewHolds(r)' /\ RefusalHolds(r)' /\ JudgedByItself(r)'
    BY <2>1 DEF RequestInv, HasAToken, PreviewHolds, RefusalHolds, JudgedByItself
  <2>3. FindsItsRow(r)'
    BY <1>2, <2>1 DEF RequestInv, FindsItsRow, FromAToken, Tokened
  <2>4. CopyIsOld(r)'
    BY <1>2, <2>1 DEF RequestInv, CopyIsOld, FromAToken, Tokened
  <2>5. HasNoRival(r)'
    BY <2>1 DEF RequestInv, HasNoRival, Me
  <2>6. WriteWaits(r)'
    BY <1>2, <2>1 DEF RequestInv, WriteWaits, FromAToken, Tokened
  <2> QED
    BY <2>2, <2>3, <2>4, <2>5, <2>6 DEF RequestInv
<1> QED
  BY <1>1, <1>3, <1>4 DEF IInv

LEMMA ProviderStep ==
  ASSUME IInv, NEW t \in Tokens, Issue(t) \/ Expire(t) \/ PickUser(t)
  PROVE  IInv'
<1>1. vigencia \in [Tokens -> {"unissued", "valid", "expired"}]
  BY DEF IInv, TypeOK
<1>2. /\ vigencia' \in [Tokens -> {"unissued", "valid", "expired"}]
      /\ \A u \in Tokens : vigencia[u] # "unissued" => vigencia'[u] # "unissued"
      /\ UNCHANGED <<identidad, perfil, pc, kind, token, visto, gate, falta, alone, pendiente>>
  BY <1>1 DEF Issue, Expire, PickUser
<1> QED
  BY <1>2, TokenStep

\* A quickstart button overlaps every request of the preset's person.
LEMMA QuickStartStep ==
  ASSUME IInv, NEW t \in Tokens, QuickStart(t)
  PROVE  IInv'
<1>0. TypeOK /\ t.sub \in Matriculas /\ ClaimsOf(t) \in Identities /\ Recognized(t)
      /\ UNCHANGED <<pc, kind, token, visto, gate, falta, pendiente>>
      /\ alone' = [r \in Requests |-> alone[r] /\ ~(pc[r] # "idle" /\ Me(r) = t.sub)]
  BY TokenFacts DEF QuickStart, IInv
<1>1. /\ identidad' \in [Matriculas -> Identities \cup {Nobody}]
      /\ perfil' \in [Matriculas -> Perfiles]
      /\ identidad'[t.sub] = ClaimsOf(t)
      /\ Known(perfil[t.sub]) \subseteq Known(perfil'[t.sub])
      /\ \A n \in Matriculas \ {t.sub} : identidad'[n] = identidad[n] /\ perfil'[n] = perfil[n]
  BY <1>0, SinPerfilType, UpsertFacts DEF QuickStart
<1>2. /\ vigencia' \in [Tokens -> {"unissued", "valid", "expired"}]
      /\ \A u \in Tokens : vigencia[u] # "unissued" => vigencia'[u] # "unissued"
      /\ vigencia'[t] # "unissued"
  BY <1>0 DEF QuickStart, TypeOK
<1>3. alone' \in [Requests -> BOOLEAN]
  BY <1>0, Zenon DEF TypeOK
<1>4. TypeOK'
  BY <1>0, <1>1, <1>2, <1>3 DEF TypeOK
<1>5. \A m, id : FromAToken(m, id) => Tokened(m, id)
  BY <1>2 DEF FromAToken, Tokened
<1>6. Tokened(t.sub, identidad'[t.sub])
  BY <1>0, <1>1, <1>2 DEF Tokened
<1>7. RowsAreOfTokens'
  BY <1>1, <1>5, <1>6 DEF IInv, RowsAreOfTokens, FromAToken, Tokened
<1>8. ASSUME NEW r \in Requests PROVE RequestInv(r)'
  <2>1. RequestInv(r) /\ Me(r)' = Me(r) /\ pc'[r] = pc[r]
    BY <1>0 DEF IInv, Me
  <2>2. /\ alone'[r] => alone[r]
        /\ alone'[r] /\ pc[r] # "idle" => Me(r) # t.sub
    BY <1>0
  <2>3. pc[r] # "idle" => Me(r) \in Matriculas
    BY <1>0, <2>1, ItsPerson
  <2>4. HasAToken(r)' /\ RefusalHolds(r)'
    BY <1>0, <1>2, <2>1 DEF RequestInv, HasAToken, RefusalHolds
  <2>5. FindsItsRow(r)'
    <3> SUFFICES ASSUME pc[r] \in {"gate", "hydrate", "siga"}
                 PROVE  Tokened(Me(r), identidad'[Me(r)])
      BY <2>1 DEF FindsItsRow, FromAToken, Tokened
    <3>1. Tokened(Me(r), identidad[Me(r)])
      BY <1>5, <2>1 DEF RequestInv, FindsItsRow
    <3> QED
      BY <1>1, <1>6, <2>3, <3>1
  <2>6. pc[r] # "idle" => Known(perfil[Me(r)]) \subseteq Known(perfil'[Me(r)])
    BY <1>1, <2>3
  <2>7. CopyIsOld(r)'
    <3>1. visto[r] # Nobody => Tokened(Me(r), visto[r].id)
      BY <1>5, <2>1 DEF RequestInv, CopyIsOld
    <3>2. pc[r] = "siga" => /\ Tokened(Me(r), visto[r].id)
                            /\ visto[r].perfil \in Perfiles
                            /\ Known(visto[r].perfil) \subseteq Known(perfil'[Me(r)])
                            /\ alone'[r] => visto[r].id = ClaimsOf(token[r])
      BY <1>5, <2>1, <2>2, <2>6 DEF RequestInv, CopyIsOld
    <3>3. visto' = visto /\ token' = token
      BY <1>0
    <3>4. visto[r] # Nobody => FromAToken(Me(r), visto[r].id)'
      BY <2>1, <3>1, <3>3 DEF FromAToken, Tokened
    <3>5. pc[r] = "siga" => FromAToken(Me(r), visto[r].id)'
      BY <2>1, <3>2, <3>3 DEF FromAToken, Tokened
    <3>6. pc[r] = "siga" => /\ visto'[r].perfil \in Perfiles
                            /\ Known(visto'[r].perfil) \subseteq Known(perfil'[Me(r)'])
                            /\ alone'[r] => visto'[r].id = ClaimsOf(token'[r])
      BY <2>1, <3>2, <3>3
    <3> QED
      BY <2>1, <3>3, <3>4, <3>5, <3>6 DEF CopyIsOld
  <2>8. PreviewHolds(r)'
    <3>1. falta[r] # Nobody => pc[r] # "idle"
      BY <2>1 DEF RequestInv, HasAToken
    <3> QED
      BY <1>0, <2>1, <2>6, <3>1 DEF RequestInv, PreviewHolds, Missing
  <2>9. HasNoRival(r)'
    BY <1>0, <2>1, <2>2 DEF RequestInv, HasNoRival, Me
  <2>11. WriteWaits(r)'
    <3>1. pendiente[r] # Nobody =>
            /\ pc[r] = "filing"
            /\ Tokened(Me(r), pendiente[r].id)
            /\ alone'[r] => pendiente[r].id = ClaimsOf(token[r])
      BY <1>5, <2>1, <2>2 DEF RequestInv, WriteWaits
    <3>2. pendiente' = pendiente /\ token' = token
      BY <1>0
    <3>3. pendiente[r] # Nobody => FromAToken(Me(r), pendiente[r].id)'
      BY <2>1, <3>1, <3>2 DEF FromAToken, Tokened
    <3> QED
      BY <2>1, <3>1, <3>2, <3>3 DEF WriteWaits
  <2>10. JudgedByItself(r)'
    BY <1>0, <1>1, <2>1, <2>2, <2>3 DEF RequestInv, JudgedByItself
  <2> QED
    BY <2>4, <2>5, <2>7, <2>8, <2>9, <2>10, <2>11 DEF RequestInv
<1> QED
  BY <1>4, <1>7, <1>8 DEF IInv

\* A request that comes in ends the solitude of the others of its person.
LEMMA ArriveStep ==
  ASSUME IInv, NEW r \in Requests, Arrive(r)
  PROVE  IInv'
<1>0. TypeOK /\ pc[r] = "idle" /\ pc' = [pc EXCEPT ![r] = "claims"]
      /\ UNCHANGED <<identidad, perfil, vigencia, visto, gate, falta, pendiente>>
  BY DEF IInv, Arrive, Goto
<1>1. PICK t \in Tokens, k \in Kinds :
        /\ vigencia[t] # "unissued"
        /\ token' = [token EXCEPT ![r] = t]
        /\ kind' = [kind EXCEPT ![r] = k]
        /\ alone' = [q \in Requests |->
             IF q = r THEN \A p \in {x \in Requests \ {r} : pc[x] # "idle" /\ Me(x) = t.sub} :
                             pc[p] \in Ended
             ELSE alone[q] /\ q \notin {x \in Requests \ {r} : pc[x] # "idle" /\ Me(x) = t.sub}]
  BY Zenon DEF Arrive
<1>2. alone' \in [Requests -> BOOLEAN]
  BY <1>1, Zenon DEF IInv, TypeOK
<1>3. TypeOK'
  BY <1>0, <1>1, <1>2 DEF TypeOK, Running
<1>4. RowsAreOfTokens'
  BY <1>0 DEF IInv, RowsAreOfTokens, FromAToken
<1>5. /\ pc'[r] = "claims" /\ token'[r] = t /\ Me(r)' = t.sub
      /\ \A q \in Requests \ {r} : pc'[q] = pc[q] /\ token'[q] = token[q] /\ Me(q)' = Me(q)
  BY <1>0, <1>1 DEF TypeOK, Me
<1>6. alone'[r] => \A q \in Requests \ {r} : pc[q] # "idle" /\ Me(q) = t.sub => pc[q] \in Ended
  BY <1>1
<1>7. \A q \in Requests \ {r} : alone'[q] => alone[q] /\ ~(pc[q] # "idle" /\ Me(q) = t.sub)
  BY <1>1
<1>8. RequestInv(r)'
  <2>1. gate[r] = Nobody /\ visto[r] = Nobody /\ falta[r] = Nobody
    BY <1>0 DEF IInv, RequestInv, HasAToken
  <2>2. HasAToken(r)'
    BY <1>0, <1>1, <1>5, <2>1 DEF HasAToken
  <2>3. /\ FindsItsRow(r)' /\ CopyIsOld(r)' /\ PreviewHolds(r)' /\ RefusalHolds(r)'
        /\ JudgedByItself(r)'
    BY <1>0, <1>5, <2>1 DEF FindsItsRow, CopyIsOld, PreviewHolds, RefusalHolds, JudgedByItself
  <2>5. WriteWaits(r)'
    BY <1>0 DEF IInv, RequestInv, WriteWaits
  <2>4. HasNoRival(r)'
    BY <1>5, <1>6 DEF HasNoRival
  <2> QED
    BY <2>2, <2>3, <2>4, <2>5 DEF RequestInv
<1>9. ASSUME NEW q \in Requests \ {r} PROVE RequestInv(q)'
  <2>1. /\ RequestInv(q) /\ pc'[q] = pc[q] /\ token'[q] = token[q] /\ Me(q)' = Me(q)
        /\ alone'[q] => alone[q]
        /\ alone'[q] /\ pc[q] # "idle" => Me(q) # t.sub
    BY <1>5, <1>7 DEF IInv
  <2>2. /\ HasAToken(q)' /\ FindsItsRow(q)' /\ PreviewHolds(q)' /\ RefusalHolds(q)'
        /\ JudgedByItself(q)'
    BY <1>0, <2>1 DEF RequestInv, HasAToken, FindsItsRow, PreviewHolds, RefusalHolds,
       JudgedByItself, FromAToken, Missing
  <2>3. CopyIsOld(q)' /\ WriteWaits(q)'
    BY <1>0, <2>1 DEF RequestInv, CopyIsOld, WriteWaits, FromAToken
  <2>4. HasNoRival(q)'
    <3> SUFFICES ASSUME alone[q], pc[q] # "idle", Me(q) # t.sub,
                        NEW p \in Requests \ {q}, pc'[p] # "idle", Me(p)' = Me(q)
                 PROVE  pc'[p] \in Ended
      BY <2>1 DEF HasNoRival
    <3>1. p # r
      BY <1>5
    <3> QED
      BY <1>5, <2>1, <3>1 DEF RequestInv, HasNoRival
  <2> QED
    BY <2>1, <2>2, <2>3, <2>4 DEF RequestInv
<1> QED
  BY <1>3, <1>4, <1>8, <1>9 DEF IInv

-----------------------------------------------------------------------------
(* The invariant.                                                          *)

\* A step that meets its debt keeps the whole invariant.
LEMMA RunningStep ==
  ASSUME IInv, NEW r \in Requests, pc[r] \in Running, Owes(r)
  PROVE  IInv'
<1>1. TypeOK /\ RowsAreOfTokens /\ RequestInv(r) /\ Me(r) \in Matriculas
  BY ItsPerson DEF IInv, Running
<1>2. RowsAreOfTokens'
  BY <1>1, RowsStay DEF Owes, Moves
<1>3. ASSUME NEW q \in Requests \ {r} PROVE RequestInv(q)'
  BY <1>1, OthersHold DEF IInv, Owes
<1> QED
  BY <1>2, <1>3 DEF IInv, Owes

LEMMA InitIInv == ASSUME Init PROVE IInv
<1>1. TypeOK
  BY SinPerfilType DEF Init, PerfilInit, TypeOK
<1>2. RowsAreOfTokens
  BY DEF Init, RowsAreOfTokens
<1>3. ASSUME NEW r \in Requests PROVE RequestInv(r)
  BY DEF Init, RequestInv, HasAToken, FindsItsRow, CopyIsOld, WriteWaits, PreviewHolds, RefusalHolds,
     HasNoRival, JudgedByItself
<1> QED
  BY <1>1, <1>2, <1>3 DEF IInv

LEMMA NextIInv == ASSUME IInv, [Next]_vars PROVE IInv'
<1>1. CASE \E t \in Tokens : QuickStart(t) \/ PickUser(t) \/ Issue(t) \/ Expire(t)
  BY <1>1, ProviderStep, QuickStartStep
<1>2. ASSUME NEW r \in Requests, Arrive(r) PROVE IInv'
  BY <1>2, ArriveStep
<1>3. ASSUME NEW r \in Requests, RejectToken(r) \/ Step(r) \/ Fail(r) PROVE IInv'
  <2>1. TypeOK /\ RequestInv(r)
    BY DEF IInv
  <2>2. Owes(r)
    BY <1>3, <2>1, RejectStep, FailStep, WriteClaimsStep, ReadGateStep, ReadExistingStep,
       SigaDownStep, SigaUnknownStep, SigaAnswersStep, CommitStep DEF Step
  <2>3. pc[r] \in Running
    BY <1>3 DEF Step, RejectToken, Fail, Abort, Die, Commit, WriteClaims, ReadGate, ReadExisting, SigaDown,
       SigaUnknown, SigaAnswers, Running
  <2> QED
    BY <2>2, <2>3, RunningStep
<1>4. CASE UNCHANGED vars
  <2>1. TypeOK' /\ RowsAreOfTokens'
    BY <1>4 DEF IInv, vars, TypeOK, RowsAreOfTokens, FromAToken
  <2>2. ASSUME NEW r \in Requests PROVE RequestInv(r)'
    BY <1>4 DEF IInv, vars, RequestInv, HasAToken, FindsItsRow, CopyIsOld, WriteWaits, PreviewHolds,
       RefusalHolds, HasNoRival, JudgedByItself, FromAToken, Me, Missing
  <2> QED
    BY <2>1, <2>2 DEF IInv
<1> QED
  BY <1>1, <1>2, <1>3, <1>4 DEF Next

THEOREM Invariance == Spec => []IInv
<1>1. Init => IInv
  BY InitIInv
<1>2. IInv /\ [Next]_vars => IInv'
  BY NextIInv
<1> QED
  BY <1>1, <1>2, PTL DEF Spec

-----------------------------------------------------------------------------
(* The properties.                                                         *)

\* The variables keep their types.
THEOREM TypeCorrect == Spec => []TypeOK
<1>1. IInv => TypeOK
  BY DEF IInv
<1> QED
  BY <1>1, Invariance, PTL

\* Whatever order the requests of a person read and write in, the identity of
\* its row is what one of its tokens says.
THEOREM IdentitiesAreOfTokens == Spec => []IdentityIsOneTokens
<1>1. IInv => IdentityIsOneTokens
  BY DEF IInv, RowsAreOfTokens, RequestInv, CopyIsOld, WriteWaits, IdentityIsOneTokens
<1> QED
  BY <1>1, Invariance, PTL

\* resolve does not refuse what the preview of the same request had found.
THEOREM PreviewsAreKept == Spec => []PreviewIsKept
<1>1. IInv => PreviewIsKept
  BY DEF IInv, RequestInv, RefusalHolds, PreviewIsKept
<1> QED
  BY <1>1, Invariance, PTL

\* Without a rival, a request is judged by its own token.
THEOREM JudgedAlone == Spec => []AloneIsJudgedByItself
<1>1. IInv => AloneIsJudgedByItself
  BY DEF IInv, RequestInv, AloneIsJudgedByItself
<1> QED
  BY <1>1, Invariance, PTL

\* A row that grows is a step of Perfil, or leaves the profile as it was.
LEMMA GrowthIsLearning ==
  ASSUME NEW m \in Matriculas, perfil \in [Matriculas -> Perfiles],
         perfil' \in [Matriculas -> Perfiles],
         \A n \in Matriculas \ {m} : perfil'[n] = perfil[n],
         Known(perfil[m]) \subseteq Known(perfil'[m])
  PROVE  Learn(m)
<1>1. perfil' = [perfil EXCEPT ![m] = perfil'[m]]
  OBVIOUS
<1>2. perfil'[m] \in Perfiles
  OBVIOUS
<1> QED
  BY <1>1, <1>2 DEF Learn

LEMMA StepIsLearning ==
  ASSUME IInv, [Next]_vars
  PROVE  [\E m \in Matriculas : Learn(m)]_perfil
<1>0. TypeOK /\ TypeOK'
  BY NextIInv DEF IInv
<1>1. ASSUME NEW t \in Tokens, Issue(t) \/ Expire(t) \/ PickUser(t)
      PROVE  perfil' = perfil
  BY <1>1 DEF Issue, Expire, PickUser
<1>2. ASSUME NEW t \in Tokens, QuickStart(t) PROVE Learn(t.sub) /\ t.sub \in Matriculas
  <2>1. t.sub \in Matriculas /\ ClaimsOf(t) \in Identities
    BY <1>2, TokenFacts DEF QuickStart
  <2>2. /\ Known(perfil[t.sub]) \subseteq Known(perfil'[t.sub])
        /\ \A n \in Matriculas \ {t.sub} : perfil'[n] = perfil[n]
    BY <1>0, <1>2, <2>1, SinPerfilType, UpsertFacts DEF QuickStart
  <2> QED
    BY <1>0, <2>1, <2>2, GrowthIsLearning DEF TypeOK
<1>3. ASSUME NEW r \in Requests, Arrive(r) PROVE perfil' = perfil
  BY <1>3 DEF Arrive
<1>4. ASSUME NEW r \in Requests, RejectToken(r) \/ Step(r) \/ Fail(r)
      PROVE  \E m \in Matriculas : Learn(m)
  <2>1. Owes(r)
    BY <1>0, <1>4, RejectStep, FailStep, WriteClaimsStep, ReadGateStep, ReadExistingStep,
       SigaDownStep, SigaUnknownStep, SigaAnswersStep, CommitStep DEF Step, IInv
  <2>2. pc[r] # "idle"
    BY <1>4 DEF Step, RejectToken, Fail, Abort, Die, Commit, WriteClaims, ReadGate, ReadExisting, SigaDown,
       SigaUnknown, SigaAnswers, Running
  <2>3. Me(r) \in Matriculas
    BY <2>2, ItsPerson DEF IInv
  <2>4. PICK m \in Matriculas : m = Me(r)
    BY <2>3
  <2>5. /\ \A n \in Matriculas \ {m} : perfil'[n] = perfil[n]
        /\ Known(perfil[m]) \subseteq Known(perfil'[m])
    BY <2>1, <2>4 DEF Owes, Grows
  <2>6. Learn(m)
    BY <1>0, <2>5, GrowthIsLearning DEF TypeOK
  <2> QED
    BY <2>6
<1>5. CASE UNCHANGED vars
  BY <1>5 DEF vars
<1> QED
  BY <1>1, <1>2, <1>3, <1>4, <1>5 DEF Next

\* Logins, hydrations and the picker only ever add to what is known of a person.
THEOREM RefinesPerfil == Spec => ImplementsPerfil
<1>1. Init => PerfilInit
  BY DEF Init
<1>2. IInv /\ [Next]_vars => [\E m \in Matriculas : Learn(m)]_perfil
  BY StepIsLearning
<1> QED
  BY <1>1, <1>2, Invariance, PTL DEF Spec, ImplementsPerfil, PerfilSpec
=============================================================================
