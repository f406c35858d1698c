------------------------------ MODULE Usuarios ------------------------------
(***************************************************************************)
(* Who a request speaks for.  Every request brings a token of the external *)
(* provider; the middleware writes its claims into the row of that person, *)
(* reads the row back and lets the view's mixin judge it; the login and    *)
(* the intake pages then complete the row from SIGA over the network, with *)
(* a copy of it that they read before the call.  Requests of one person    *)
(* overlap: two browsers, a double click, a new token beside an old one.   *)
(***************************************************************************)
EXTENDS LifecycleRules, Perfil

CONSTANTS Requests,
          Tokens,      \* signed tokens: records [sub, email, rol]
          Answers,     \* profiles SIGA may answer, members of Perfiles
          Required,    \* the profile columns the tipo demands for auto-fill
          Presets,     \* the quickstart users of dev_login; {} when DEBUG is off
          Nobody       \* no row, no reading yet

ASSUME UsuariosAssumption ==
  /\ Tokens \subseteq [sub : Matriculas, email : {t.email : t \in Tokens}, rol : STRING]
  /\ Presets \subseteq Tokens
  /\ Answers \subseteq Perfiles
  /\ Required \subseteq Campos

PROVIDER_ROLE_MAP ==
  [alumno |-> "ALUMNO", docente |-> "DOCENTE", control_escolar |-> "CONTROL_ESCOLAR",
   resp_programa |-> "RESPONSABLE_PROGRAMA", admin |-> "ADMIN"]

\* JwtRoleResolver: a claim outside the map is RoleNotRecognized.
Recognized(t) == t.rol \in DOMAIN PROVIDER_ROLE_MAP

\* What get_or_create_from_claims writes: the identity part of the row.
ClaimsOf(t) == [email |-> t.email, role |-> PROVIDER_ROLE_MAP[t.rol]]

Identities == {ClaimsOf(t) : t \in {u \in Tokens : Recognized(u)}}

\* required_roles of the mixins: Alumno, Docente, Personal, Admin, and those of
\* intake and revision; LoginRequired asks for no role.
Gates == { {"ALUMNO"}, {"DOCENTE"}, {"CONTROL_ESCOLAR", "RESPONSABLE_PROGRAMA"},
           {"ADMIN"}, CreatorRoles, ReviewerRoles, Roles }

\* callback: GET /auth/callback.  page: any view behind a mixin.  form: GET of
\* an intake form with auto-fill fields, and its preview.  filing: its POST,
\* preview and resolve.
Kinds == {"callback", "page", "form", "filing"}

VARIABLES
  identidad,  \* User rows: email and role, or Nobody; their profile is perfil
  vigencia,   \* of each token: unissued, valid or expired
  pc,
  kind, token,
  visto,      \* hydrate_from_siga's existing: the row before the call to SIGA
  gate,       \* role of request.user, which the mixin judges
  falta,      \* required columns the preview of this request found empty
  alone,      \* ghost: no other request of the person has overlapped this one
  pendiente   \* what the filing's open transaction has written into the row, or Nobody

vars == <<identidad, perfil, vigencia, pc, kind, token, visto, gate, falta, alone, pendiente>>

Running == {"claims", "gate", "hydrate", "siga", "filing"}
Ended   == {"login", "refused", "error", "forbidden", "notfound", "seated",
            "granted", "shown", "invalid", "incomplete", "undone", "filed", "dead"}
Me(r)   == token[r].sub

TypeOK ==
  /\ identidad \in [Matriculas -> Identities \cup {Nobody}]
  /\ perfil \in [Matriculas -> Perfiles]
  /\ vigencia \in [Tokens -> {"unissued", "valid", "expired"}]
  /\ pc \in [Requests -> {"idle"} \cup Running \cup Ended]
  /\ kind \in [Requests -> Kinds \cup {Nobody}]
  /\ token \in [Requests -> Tokens \cup {Nobody}]
  /\ visto \in [Requests -> [id : Identities, perfil : Perfiles] \cup {Nobody}]
  /\ gate \in [Requests -> Roles \cup {Nobody}]
  /\ falta \in [Requests -> (SUBSET Campos) \cup {Nobody}]
  /\ alone \in [Requests -> BOOLEAN]
  /\ pendiente \in [Requests -> [id : Identities, answer : Answers] \cup {Nobody}]

Init ==
  /\ identidad = [m \in Matriculas |-> Nobody]
  /\ PerfilInit
  /\ vigencia = [t \in Tokens |-> "unissued"]
  /\ pc = [r \in Requests |-> "idle"]
  /\ kind = [r \in Requests |-> Nobody]
  /\ token = [r \in Requests |-> Nobody]
  /\ visto = [r \in Requests |-> Nobody]
  /\ gate = [r \in Requests |-> Nobody]
  /\ falta = [r \in Requests |-> Nobody]
  /\ alone = [r \in Requests |-> TRUE]
  /\ pendiente = [r \in Requests |-> Nobody]

Goto(r, l) == pc' = [pc EXCEPT ![r] = l]

-----------------------------------------------------------------------------
(* The User table.                                                         *)

\* The unique index on email.
EmailFree(m, email) ==
  \A n \in Matriculas \ {m} : identidad[n] # Nobody => identidad[n].email # email

\* Nobody waits to write email into the row of m: no filing holds the lock of that
\* row, and none has an undecided write of this email or over it.
Settled(m, email) ==
  \A q \in Requests : pendiente[q] # Nobody =>
    Me(q) # m /\ email \notin {identidad[Me(q)].email, pendiente[q].id.email}

\* Mutant: columns without information are cleared.
MergeAll(p, a) == a

\* upsert writes a profile column only when the caller has something for it.
Merge(p, a) == [c \in Campos |-> IF a[c] = Vacio THEN p[c] ELSE a[c]]

\* Mutant: get_or_create, which leaves an existing row alone.
UpsertOnce(m, id, a) ==
  /\ identidad' = [identidad EXCEPT ![m] = IF @ = Nobody THEN id ELSE @]
  /\ perfil' = [perfil EXCEPT ![m] = Merge(@, a)]

\* update_or_create on the informed columns, under the lock of the row: email
\* and role always, together.
Upsert(m, id, a) ==
  /\ identidad' = [identidad EXCEPT ![m] = id]
  /\ perfil' = [perfil EXCEPT ![m] = Merge(@, a)]

-----------------------------------------------------------------------------
(* The provider, the browser, and the DEBUG-only picker.                   *)

\* A token stands for all that say the same: a new one takes the place of one that
\* has expired only when no request still brings the old one.
Mintable(t) ==
  vigencia[t] = "expired" => \A r \in Requests : pc[r] = "claims" => token[r] # t

Issue(t) ==
  /\ vigencia[t] # "valid" /\ Mintable(t)
  /\ vigencia' = [vigencia EXCEPT ![t] = "valid"]
  /\ UNCHANGED <<identidad, perfil, pc, kind, token, visto, gate, falta, alone, pendiente>>

Expire(t) ==
  /\ vigencia[t] = "valid"
  /\ vigencia' = [vigencia EXCEPT ![t] = "expired"]
  /\ UNCHANGED <<identidad, perfil, pc, kind, token, visto, gate, falta, alone, pendiente>>

\* A quickstart button: the preset is upserted and a token for it is minted.
QuickStart(t) ==
  /\ t \in Presets /\ Mintable(t) /\ Recognized(t)
  /\ Settled(t.sub, t.email) /\ EmailFree(t.sub, t.email)
  /\ Upsert(t.sub, ClaimsOf(t), SinPerfil)
  /\ vigencia' = [vigencia EXCEPT ![t] = "valid"]
  /\ alone' = [r \in Requests |-> alone[r] /\ ~(pc[r] # "idle" /\ Me(r) = t.sub)]
  /\ UNCHANGED <<pc, kind, token, visto, gate, falta, pendiente>>

\* "Login as" mints a token from the stored row.
PickUser(t) ==
  /\ Presets # {} /\ vigencia[t] # "valid" /\ Mintable(t) /\ Recognized(t)
  /\ identidad[t.sub] = ClaimsOf(t)
  /\ vigencia' = [vigencia EXCEPT ![t] = "valid"]
  /\ UNCHANGED <<identidad, perfil, pc, kind, token, visto, gate, falta, alone, pendiente>>

\* A request comes in.  It is alone while no other one of its person runs.
Arrive(r) ==
  /\ pc[r] = "idle"
  /\ \E t \in Tokens, k \in Kinds :
       LET mine == {q \in Requests \ {r} : pc[q] # "idle" /\ Me(q) = t.sub}
       IN
       /\ vigencia[t] # "unissued"
       /\ token' = [token EXCEPT ![r] = t]
       /\ kind' = [kind EXCEPT ![r] = k]
       /\ alone' = [q \in Requests |->
                      IF q = r THEN \A p \in mine : pc[p] \in Ended
                      ELSE alone[q] /\ q \notin mine]
  /\ Goto(r, "claims")
  /\ UNCHANGED <<identidad, perfil, vigencia, visto, gate, falta, pendiente>>

-----------------------------------------------------------------------------
(* get_or_create_from_claims, called by the callback and the middleware.   *)

\* decode_jwt and the role resolver.  An expired token leads to the provider's
\* login page; an unknown role is refused by either caller.
RejectToken(r) ==
  /\ pc[r] = "claims"
  /\ \/ vigencia[token[r]] = "expired" /\ Goto(r, "login")
     \/ vigencia[token[r]] # "expired" /\ ~Recognized(token[r]) /\ Goto(r, "refused")
  /\ UNCHANGED <<identidad, perfil, vigencia, kind, token, visto, gate, falta, alone, pendiente>>

WriteClaims(r) ==
  LET t == token[r]  id == ClaimsOf(token[r])
  IN
  /\ pc[r] = "claims" /\ vigencia[t] = "valid" /\ Recognized(t)
  /\ Settled(Me(r), t.email)
  /\ \/ /\ EmailFree(Me(r), t.email)
        /\ Upsert(Me(r), id, SinPerfil)
        /\ Goto(r, IF kind[r] = "callback" THEN "hydrate" ELSE "gate")
     \/ /\ ~EmailFree(Me(r), t.email)
        /\ Goto(r, "error")
        /\ UNCHANGED <<identidad, perfil>>
  /\ UNCHANGED <<vigencia, kind, token, visto, gate, falta, alone, pendiente>>

\* RoleRequiredMixin.dispatch, before the view runs.
Judge(r, role, needs) ==
  Goto(r, IF role \notin needs THEN "forbidden"
          ELSE IF kind[r] = "page" THEN "granted" ELSE "hydrate")

\* Middleware: User.objects.get gives request.user, the mixin's subject.
ReadGate(r) ==
  LET role == identidad[Me(r)].role
  IN
  /\ pc[r] = "gate"
  /\ gate' = [gate EXCEPT ![r] = role]
  /\ \E needs \in IF kind[r] = "page" THEN Gates ELSE {CreatorRoles} :
       Judge(r, role, needs)
  /\ UNCHANGED <<identidad, perfil, vigencia, kind, token, visto, falta, alone, pendiente>>

-----------------------------------------------------------------------------
(* hydrate_from_siga and what its three callers do with the result.        *)

ReadExisting(r) ==
  /\ pc[r] = "hydrate"
  /\ visto' = [visto EXCEPT ![r] = [id |-> identidad[Me(r)], perfil |-> perfil[Me(r)]]]
  /\ Goto(r, "siga")
  /\ UNCHANGED <<identidad, perfil, vigencia, kind, token, gate, falta, alone, pendiente>>

Missing(p) == Required \ Known(p)

\* The callback redirects with the cookie.
Seat(r) == kind[r] = "callback" /\ Goto(r, "seated") /\ UNCHANGED falta

\* preview only notes what is missing; the form of a POST is then validated.
Preview(r, p) ==
  /\ kind[r] # "callback" /\ falta[r] = Nobody
  /\ falta' = [falta EXCEPT ![r] = Missing(p)]
  /\ IF kind[r] = "form" THEN Goto(r, "shown")
     ELSE Goto(r, "invalid") \/ Goto(r, "hydrate")

Resolving(r) == kind[r] = "filing" /\ falta[r] # Nobody

\* resolve, inside the transaction of the filing, refuses it when anything is missing.
Resolve(r, p) ==
  /\ Resolving(r)
  /\ Goto(r, IF Missing(p) = {} THEN "filing" ELSE "incomplete")
  /\ UNCHANGED falta

Hydrated(r, p) == Seat(r) \/ Preview(r, p) \/ Resolve(r, p)

\* Mutant: without SIGA the page goes on with the claims alone.
SigaDownBare(r) ==
  /\ pc[r] = "siga"
  /\ Hydrated(r, SinPerfil)
  /\ UNCHANGED <<identidad, perfil, vigencia, kind, token, visto, gate, alone, pendiente>>

\* SigaUnavailable: timeout, connection, status or payload.  existing is returned.
SigaDown(r) ==
  /\ pc[r] = "siga"
  /\ Hydrated(r, visto[r].perfil)
  /\ UNCHANGED <<identidad, perfil, vigencia, kind, token, visto, gate, alone, pendiente>>

\* 404: UserNotFound, which nobody below AppErrorMiddleware catches.
SigaUnknown(r) ==
  /\ pc[r] = "siga"
  /\ Goto(r, "notfound")
  /\ UNCHANGED <<identidad, perfil, vigencia, kind, token, visto, gate, falta, alone, pendiente>>

\* Mutant: only the role comes from the row as it was read.
WriteBackId(r) == [identidad[Me(r)] EXCEPT !.role = visto[r].id.role]

\* What the second upsert writes as identity: that of existing.
BackId(r) == visto[r].id

\* In a filing the write waits for the COMMIT, unseen; a filing that is refused
\* rolls it back.
Pending(r, a) ==
  IF Missing(Merge(perfil[Me(r)], a)) = {} THEN [id |-> BackId(r), answer |-> a] ELSE Nobody

WriteBack(r, a) ==
  \/ /\ ~Resolving(r)
     /\ Upsert(Me(r), BackId(r), a)
     /\ UNCHANGED pendiente
  \/ /\ Resolving(r)
     /\ pendiente' = [pendiente EXCEPT ![r] = Pending(r, a)]
     /\ UNCHANGED <<identidad, perfil>>

SigaAnswers(r) ==
  /\ pc[r] = "siga" /\ Settled(Me(r), BackId(r).email)
  /\ \/ /\ EmailFree(Me(r), BackId(r).email)
        /\ \E a \in Answers : WriteBack(r, a) /\ Hydrated(r, Merge(perfil[Me(r)], a))
     \/ /\ ~EmailFree(Me(r), BackId(r).email)
        /\ Goto(r, "error")
        /\ UNCHANGED <<identidad, perfil, falta, pendiente>>
  /\ UNCHANGED <<vigencia, kind, token, visto, gate, alone>>

\* The rest of the filing ends well: its transaction commits.
Commit(r) ==
  /\ pc[r] = "filing"
  /\ \/ pendiente[r] = Nobody /\ UNCHANGED <<identidad, perfil>>
     \/ pendiente[r] # Nobody /\ Upsert(Me(r), pendiente[r].id, pendiente[r].answer)
  /\ pendiente' = [pendiente EXCEPT ![r] = Nobody]
  /\ Goto(r, "filed")
  /\ UNCHANGED <<vigencia, kind, token, visto, gate, falta, alone>>

\* It fails, for one of the reasons Intake knows, or the worker is killed, or the
\* database fails: what is not committed is rolled back.
Abort(r) == pc[r] = "filing" /\ Goto(r, "undone")

Die(r) == pc[r] \in Running /\ Goto(r, "dead")

Fail(r) ==
  /\ Abort(r) \/ Die(r)
  /\ pendiente' = [pendiente EXCEPT ![r] = Nobody]
  /\ UNCHANGED <<identidad, perfil, vigencia, kind, token, visto, gate, falta, alone>>

Step(r) == WriteClaims(r) \/ ReadGate(r) \/ ReadExisting(r)
             \/ SigaDown(r) \/ SigaUnknown(r) \/ SigaAnswers(r) \/ Commit(r)

Next ==
  \/ \E t \in Tokens : QuickStart(t) \/ PickUser(t) \/ Issue(t) \/ Expire(t)
  \/ \E r \in Requests : Arrive(r) \/ RejectToken(r) \/ Step(r) \/ Fail(r)

Spec == Init /\ [][Next]_vars

-----------------------------------------------------------------------------
(* Properties.                                                             *)

\* id is what some token that was issued for m says.
FromAToken(m, id) ==
  \E t \in Tokens : t.sub = m /\ vigencia[t] # "unissued" /\ Recognized(t) /\ id = ClaimsOf(t)

\* Email and role of a row, and of every copy a request holds or will write, are those
\* of one token of that person: never the email of one login with the role of
\* another, nor SIGA's email, although hydrate_from_siga writes them back from a
\* row it read before a slow call.
IdentityIsOneTokens ==
  /\ \A m \in Matriculas : identidad[m] # Nobody => FromAToken(m, identidad[m])
  /\ \A r \in Requests : visto[r] # Nobody => FromAToken(Me(r), visto[r].id)
  /\ \A r \in Requests : pendiente[r] # Nobody => FromAToken(Me(r), pendiente[r].id)

\* The profile only learns, whatever SIGA leaves out and whoever writes last:
\* what Formularios assumes of it.
ImplementsPerfil == PerfilSpec

\* A filing whose own preview found the required data is not refused for want of
\* them when it resolves them again, whether or not SIGA still answers and
\* whatever other requests of the person write in between.
PreviewIsKept ==
  \A r \in Requests : pc[r] = "incomplete" => falta[r] # {}

\* A request that no other one of its person overlapped is judged by the role of
\* its own token, and leaves that token's claims in the row.
JudgedByItself(r) ==
  alone[r] /\ pc[r] \notin {"idle", "claims", "login", "refused", "error", "dead"} =>
    /\ identidad[Me(r)] = ClaimsOf(token[r])
    /\ gate[r] \in {Nobody, ClaimsOf(token[r]).role}

AloneIsJudgedByItself == \A r \in Requests : JudgedByItself(r)

(***************************************************************************)
(* The inductive strengthening: what is true of each request while others  *)
(* write the row it speaks for.                                            *)
(***************************************************************************)
HasAToken(r) ==
  /\ pc[r] = "idle" => visto[r] = Nobody /\ falta[r] = Nobody
  /\ pc[r] \in {"idle", "claims"} => gate[r] = Nobody
  /\ pc[r] # "idle" => token[r] \in Tokens /\ vigencia[token[r]] # "unissued"

FindsItsRow(r) ==
  pc[r] \in {"gate", "hydrate", "siga"} => FromAToken(Me(r), identidad[Me(r)])

\* What it read before the call is old, but of one login, and nothing of the
\* profile has been lost since.
CopyIsOld(r) ==
  /\ visto[r] # Nobody => FromAToken(Me(r), visto[r].id)
  /\ pc[r] = "siga" =>
       /\ FromAToken(Me(r), visto[r].id)
       /\ visto[r].perfil \in Perfiles
       /\ Known(visto[r].perfil) \subseteq Known(perfil[Me(r)])
       /\ alone[r] => visto[r].id = ClaimsOf(token[r])

\* Nothing is missing now that its preview did not miss.
PreviewHolds(r) ==
  falta[r] # Nobody =>
    /\ Missing(perfil[Me(r)]) \subseteq falta[r]
    /\ pc[r] = "siga" => Missing(visto[r].perfil) \subseteq falta[r]

\* What waits for a COMMIT is of the filing that wrote it, and of one login.
WriteWaits(r) ==
  pendiente[r] # Nobody =>
    /\ pc[r] = "filing"
    /\ FromAToken(Me(r), pendiente[r].id)
    /\ alone[r] => pendiente[r].id = ClaimsOf(token[r])

RefusalHolds(r) == pc[r] = "incomplete" => falta[r] # {}

HasNoRival(r) ==
  alone[r] /\ pc[r] # "idle" =>
    \A q \in Requests \ {r} : pc[q] # "idle" /\ Me(q) = Me(r) => pc[q] \in Ended

RequestInv(r) ==
  /\ HasAToken(r) /\ FindsItsRow(r) /\ CopyIsOld(r) /\ WriteWaits(r) /\ PreviewHolds(r)
  /\ RefusalHolds(r) /\ HasNoRival(r) /\ JudgedByItself(r)

RowsAreOfTokens == \A m \in Matriculas : identidad[m] # Nobody => FromAToken(m, identidad[m])

IInv == TypeOK /\ RowsAreOfTokens /\ \A r \in Requests : RequestInv(r)
=============================================================================
