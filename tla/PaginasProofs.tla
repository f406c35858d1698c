---------------------------- MODULE PaginasProofs ----------------------------
(***************************************************************************)
(* Proofs about the pages: Formularios, the forms that are filled in, for  *)
(* any number of fields, requests and edits, and Reportes, the pages that  *)
(* only read, for any number of folios, readers, filters and page sizes.   *)
(* The two share no name, and no lemma but the first.                      *)
(*                                                                         *)
(* Formularios: what the form of a POST has validated stays true of its    *)
(* values until the resolver runs, the resolver adds values to auto-fill   *)
(* fields alone, and a profile that only grows cannot lack later what it   *)
(* had at the preview.  The rows an editor page shows come back as they    *)
(* are, because splitting a csv drops nothing from what it has returned.   *)
(*                                                                         *)
(* Reportes: a folio nothing newer than which moved keeps its place in a   *)
(* list, so a page shows it or leaves it for a later one; what a query     *)
(* counts lies between what matched all along and what ever matched; and a *)
(* historial is only added to, so a row goes on showing entries of it.     *)
(***************************************************************************)
EXTENDS Formularios, Reportes, FiniteSetTheorems, WellFoundedInduction, TLAPS

USE DEF admin, local

\* A set that lacks an element of a finite one it is part of has fewer.
LEMMA FewerElements ==
  ASSUME NEW T, IsFiniteSet(T), NEW S \in SUBSET T, NEW x \in T, x \notin S
  PROVE  Cardinality(S) < Cardinality(T)
<1>1. Cardinality(S) <= Cardinality(T) /\ Cardinality(S) # Cardinality(T) /\ IsFiniteSet(S)
  BY FS_Subset
<1>2. Cardinality(S) \in Nat /\ Cardinality(T) \in Nat
  BY <1>1, FS_CardinalityType
<1> QED
  BY <1>1, <1>2

\* Nothing of q changes.
Keeps(q) ==
  /\ pc'[q] = pc[q] /\ missing'[q] = missing[q] /\ asked'[q] = asked[q] /\ files'[q] = files[q]
  /\ valores'[q] = valores[q] /\ snapshot'[q] = snapshot[q] /\ stored'[q] = stored[q]

Invariants(r) ==
  /\ pc[r] = "read" => Fits(snapshot[r])
  /\ Validated(r) /\ Resolved(r) /\ Stored(r)
  /\ pc[r] = "incomplete" => missing[r] \/ asked[r] # snapshot[r]

\* The invariant is one of the tables and one of each request.
LEMMA ByRequest ==
  IInv <=> /\ perfil \in [Matriculas -> Perfiles]
           /\ DOMAIN campos \subseteq used /\ Fits(campos)
           /\ IsLocal(pc) /\ IsLocal(missing) /\ IsLocal(asked) /\ IsLocal(files)
           /\ IsLocal(valores) /\ IsLocal(snapshot) /\ IsLocal(stored)
           /\ \A r \in Requests : Invariants(r)
  BY DEF IInv, Invariants, RefusalWasAnnounced

\* An auto-fill field is no FILE.
LEMMA FilesAreAsked ==
  ASSUME NEW s, Fits(s), NEW i \in DOMAIN s, s[i].field_type = "FILE"
  PROVE  ~AutoFill(s[i])
  BY DEF Fits, AllowedTypes, AutoFill, FieldType

\* What the profile gives is a value.
LEMMA ExtractFacts ==
  ASSUME perfil \in [Matriculas -> Perfiles], NEW s, Fits(s), NEW i \in DOMAIN s,
         Extract(s[i].source) # Vacio
  PROVE  Extract(s[i].source) \in Valores \cup {Cuenta}
<1>1. CASE s[i].source \in DOMAIN SourceAttr
  <2>1. SourceAttr[s[i].source] \in Campos
    BY <1>1 DEF Fits
  <2>2. perfil[Yo][SourceAttr[s[i].source]] \in Valores \cup {Vacio}
    BY <2>1, FormulariosAssumption DEF Perfiles
  <2> QED
    BY <1>1, <2>2 DEF Extract
<1>2. CASE s[i].source \notin DOMAIN SourceAttr
  BY <1>2 DEF Extract
<1> QED
  BY <1>1, <1>2

\* A profile that grows lacks no more than before.
LEMMA LearnFacts ==
  ASSUME perfil \in [Matriculas -> Perfiles], Learn(Yo), NEW s, Fits(s), Lacks(s)'
  PROVE  Lacks(s)
<1>1. PICK p \in Perfiles : Known(perfil[Yo]) \subseteq Known(p) /\ perfil' = [perfil EXCEPT ![Yo] = p]
  BY DEF Learn
<1>2. perfil'[Yo] = p
  BY <1>1, FormulariosAssumption
<1>3. PICK i \in DOMAIN s : AutoFill(s[i]) /\ s[i].required /\ Extract(s[i].source)' = Vacio
  BY DEF Lacks
<1>4. Extract(s[i].source) = Vacio
  <2>1. CASE s[i].source \in DOMAIN SourceAttr
    <3>1. SourceAttr[s[i].source] \in Campos /\ p[SourceAttr[s[i].source]] = Vacio
      BY <1>2, <1>3, <2>1 DEF Fits, Extract
    <3>2. perfil[Yo][SourceAttr[s[i].source]] = Vacio
      BY <1>1, <3>1 DEF Known
    <3> QED
      BY <2>1, <3>2 DEF Extract
  <2>2. CASE s[i].source \notin DOMAIN SourceAttr
    BY <1>3, <2>2 DEF Extract
  <2> QED
    BY <2>1, <2>2
<1> QED
  BY <1>3, <1>4 DEF Lacks

\* A request to which nothing happens keeps its invariants, even while the profile
\* grows.
LEMMA Kept ==
  ASSUME perfil \in [Matriculas -> Perfiles], NEW r \in Requests, Invariants(r), Keeps(r),
         perfil' = perfil \/ Learn(Yo)
  PROVE  Invariants(r)'
<1>1. Explained(r) => Explained(r)'
  BY DEF Explained, Keeps
<1>2. \A s : Fits(s) /\ Lacks(s)' => Lacks(s)
  <2>1. CASE perfil' = perfil
    BY <2>1 DEF Lacks, Extract
  <2>2. CASE Learn(Yo)
    BY <2>2, LearnFacts
  <2> QED
    BY <2>1, <2>2
<1>3. Validated(r)'
  <2> SUFFICES ASSUME pc[r] \in {"valid", "read"}
               PROVE  /\ Fits(asked[r])
                      /\ Lacks(asked[r])' => missing[r]
                      /\ \A i \in DOMAIN valores[r] : i \in Asked(asked[r]) /\ InputAccepted(asked[r][i], valores[r][i])
                      /\ \A i \in Asked(asked[r]) : Complete(asked[r], i, valores[r], files[r])
    BY DEF Validated, Keeps
  <2>1. PICK s : s = asked[r] /\ asked'[r] = s
    BY DEF Keeps
  <2>2. Lacks(asked[r])' => Lacks(s)'
    BY <2>1 DEF Lacks
  <2> QED
    BY <1>2, <2>1, <2>2 DEF Invariants, Validated
<1> QED
  BY <1>1, <1>3 DEF Invariants, Resolved, Stored, Keeps

\* How a step of r leaves the other requests.
LEMMA Others ==
  ASSUME IInv, NEW r \in Requests, perfil' = perfil,
         UNCHANGED campos /\ UNCHANGED used,
         \A q \in Requests \ {r} : Keeps(q), Invariants(r)',
         IsLocal(pc)', IsLocal(missing)', IsLocal(asked)', IsLocal(files)',
         IsLocal(valores)', IsLocal(snapshot)', IsLocal(stored)'
  PROVE  IInv'
<1>1. \A q \in Requests \ {r} : Invariants(q)'
  BY ByRequest, Kept
<1>2. Fits(campos)'
  BY ByRequest DEF Fits
<1>3. /\ perfil' \in [Matriculas -> Perfiles] /\ DOMAIN campos' \subseteq used'
      /\ \A q \in Requests : Invariants(q)'
  BY <1>1, ByRequest
<1> QED
  BY <1>2, <1>3 DEF IInv, Invariants, RefusalWasAnnounced

-----------------------------------------------------------------------------
(* The editor.                                                             *)

\* What is collected of a row fits, if the schema takes it.
LEMMA CollectedFits ==
  ASSUME Fits(campos), NEW row \in EditorRows \cup {Initial(campos[i]) : i \in DOMAIN campos},
         SchemaAccepts(Collected(row))
  PROVE  /\ Collected(row).field_type \in AllowedTypes(Collected(row).source)
         /\ Collected(row).source \in DOMAIN SourceAttr => SourceAttr[Collected(row).source] \in Campos
<1>1. Collected(row).field_type \in AllowedTypes(Collected(row).source)
  BY DEF SchemaAccepts
<1>2. Collected(row).source = SourceOf(row)
  BY DEF Collected
<1>3. SourceOf(row) \in {row.source, "USER_INPUT"}
  BY DEF SourceOf
<1>4. row.source \in DOMAIN SourceAttr => SourceAttr[row.source] \in Campos
  <2>1. CASE row \in EditorRows
    BY <2>1, FormulariosAssumption
  <2>2. CASE row \in {Initial(campos[i]) : i \in DOMAIN campos}
    <3>1. PICK i \in DOMAIN campos : row = Initial(campos[i])
      BY <2>2
    <3>2. row.source = campos[i].source
      BY <3>1 DEF Initial
    <3> QED
      BY <3>2 DEF Fits
  <2> QED
    BY <2>1, <2>2
<1>5. "USER_INPUT" \notin DOMAIN SourceAttr
  BY DEF SourceAttr
<1> QED
  BY <1>1, <1>2, <1>3, <1>4, <1>5

LEMMA SaveTipoInv ==
  ASSUME IInv, SaveTipo
  PROVE  IInv'
<1>1. PICK kept \in SUBSET DOMAIN campos, fresh \in SUBSET (FieldIds \ used) :
      \E posted \in [kept \cup fresh -> EditorRows \cup {Initial(campos[i]) : i \in kept}] :
        /\ \A i \in DOMAIN posted : SchemaAccepts(Collected(posted[i]))
        /\ campos' = [i \in DOMAIN posted |-> Collected(posted[i])]
        /\ used' = used \cup fresh /\ UNCHANGED <<local, perfil>>
  BY DEF SaveTipo
<1>2. PICK posted \in [kept \cup fresh -> EditorRows \cup {Initial(campos[i]) : i \in kept}] :
        /\ \A i \in DOMAIN posted : SchemaAccepts(Collected(posted[i]))
        /\ campos' = [i \in DOMAIN posted |-> Collected(posted[i])]
  BY <1>1
<1>3. \A i \in DOMAIN posted : posted[i] \in EditorRows \cup {Initial(campos[k]) : k \in DOMAIN campos}
  BY <1>1, <1>2
<1>4. PICK new : new = campos'
  OBVIOUS
<1>5. \A i \in DOMAIN posted : new[i] = Collected(posted[i])
  BY <1>2, <1>4
<1>6. DOMAIN new = DOMAIN posted
  BY <1>2, <1>4
<1>7. Fits(new)
  <2> SUFFICES ASSUME NEW i \in DOMAIN posted
               PROVE  /\ new[i].field_type \in AllowedTypes(new[i].source)
                      /\ new[i].source \in DOMAIN SourceAttr => SourceAttr[new[i].source] \in Campos
    BY <1>6 DEF Fits
  <2> QED
    BY <1>2, <1>3, <1>5, CollectedFits, ByRequest
<1>8. Fits(campos)'
  BY <1>4, <1>7 DEF Fits
<1>9. DOMAIN campos' \subseteq used' /\ UNCHANGED <<local, perfil>>
  BY <1>1, <1>2, ByRequest
<1>10. \A r \in Requests : Invariants(r)'
  BY <1>9, Kept, ByRequest DEF Keeps
<1> QED
  BY <1>8, <1>9, <1>10, ByRequest DEF IInv, Invariants, RefusalWasAnnounced, IsLocal

-----------------------------------------------------------------------------
(* A filing.                                                               *)

\* A value that reached its field reaches it again.
LEMMA ReachesTwice ==
  ASSUME NEW f, NEW x
  PROVE  Reaches(f, Reaches(f, x)) = Reaches(f, x)
  BY DEF Reaches

\* What a form that validated has established of its values and files.
LEMMA FormFacts ==
  ASSUME NEW s, NEW ids, NEW post, NEW values, NEW held, DOMAIN s \subseteq ids, Fits(s),
         \A i \in Asked(s) : InputAccepted(s[i], post[i]),
         values = ValuesDict(s, post),
         held = [i \in {j \in ids : post[j] \in Archivos} |-> post[i]]
  PROVE  /\ \A i \in DOMAIN values : i \in Asked(s) /\ InputAccepted(s[i], values[i])
         /\ \A i \in Asked(s) : Complete(s, i, values, held)
<1>1. \A i \in DOMAIN values : i \in Asked(s) /\ values[i] = Reaches(s[i], post[i])
  BY DEF ValuesDict
<1>2. \A i \in DOMAIN values : InputAccepted(s[i], values[i])
  BY <1>1, ReachesTwice DEF InputAccepted
<1>3. ASSUME NEW i \in Asked(s)
      PROVE  Complete(s, i, values, held)
  <2>1. /\ Reaches(s[i], post[i]) # Blanco => i \in DOMAIN values
        /\ i \in DOMAIN s /\ i \in ids
    BY <1>3 DEF ValuesDict, Asked
  <2>2. s[i].required => i \in DOMAIN values /\ values[i] # Blanco
    BY <1>1, <1>3, <2>1 DEF InputAccepted
  <2>3. ASSUME s[i].field_type = "FILE"
        PROVE  /\ i \in DOMAIN held <=> i \in DOMAIN values
               /\ i \in DOMAIN held => held[i] = values[i] /\ Allows(s[i], held[i])
    <3>1. i \in DOMAIN values => Reaches(s[i], post[i]) # Blanco
      BY <2>3 DEF ValuesDict, Textual
    <3>2. post[i] \in Archivos <=> Reaches(s[i], post[i]) # Blanco
      BY <2>3, FormulariosAssumption DEF Reaches
    <3>3. i \in DOMAIN held <=> i \in DOMAIN values
      BY <2>1, <3>1, <3>2
    <3>4. ASSUME i \in DOMAIN held
          PROVE  held[i] = values[i] /\ Allows(s[i], held[i])
      <4>1. held[i] = post[i] /\ post[i] \in Archivos
        BY <3>4
      <4>2. Reaches(s[i], post[i]) = post[i] /\ post[i] # Blanco
        BY <2>3, <3>2, <4>1 DEF Reaches
      <4>3. TypeAccepts(s[i], post[i])
        BY <1>3, <4>2 DEF InputAccepted
      <4>4. FileAccepted(s[i], post[i])
        BY <2>3, <4>3 DEF TypeAccepts, Textual
      <4> QED
        BY <1>1, <3>3, <3>4, <4>1, <4>2, <4>4 DEF FileAccepted
    <3> QED
      BY <3>3, <3>4
  <2> QED
    BY <2>2, <2>3 DEF Complete
<1> QED
  BY <1>1, <1>2, <1>3

LEMMA PostInv ==
  ASSUME IInv, NEW r \in Requests, Post(r)
  PROVE  IInv'
<1>1. UNCHANGED <<campos, used, snapshot, stored, perfil>> /\ pc[r] = "idle"
  BY DEF Post
<1>2. CASE pc' = [pc EXCEPT ![r] = "invalid"] /\ UNCHANGED <<missing, asked, valores, files>>
  <2>1. pc'[r] = "invalid" /\ IsLocal(pc)' /\ \A q \in Requests \ {r} : Keeps(q)
    BY <1>1, <1>2, ByRequest DEF IsLocal, Keeps
  <2>2. Invariants(r)'
    BY <2>1 DEF Invariants, Validated, Resolved, Stored
  <2>3. /\ IsLocal(missing)' /\ IsLocal(asked)' /\ IsLocal(files)'
        /\ IsLocal(valores)' /\ IsLocal(snapshot)' /\ IsLocal(stored)'
    BY <1>1, <1>2, ByRequest DEF IsLocal
  <2> QED
    BY <1>1, <2>1, <2>2, <2>3, Others
<1>3. ASSUME NEW post, \A i \in Asked(campos) : InputAccepted(campos[i], post[i]),
             missing' = [missing EXCEPT ![r] = Previewed(campos)],
             asked' = [asked EXCEPT ![r] = campos],
             valores' = [valores EXCEPT ![r] = ValuesDict(campos, post)],
             files' = [files EXCEPT ![r] = [i \in {j \in used : post[j] \in Archivos} |-> post[i]]],
             pc' = [pc EXCEPT ![r] = "valid"]
      PROVE  IInv'
  <2>1. PICK s, ids, values, held :
          /\ s = campos /\ ids = used /\ values = ValuesDict(s, post)
          /\ held = [i \in {j \in ids : post[j] \in Archivos} |-> post[i]]
    OBVIOUS
  <2>2. /\ pc'[r] = "valid" /\ asked'[r] = s /\ valores'[r] = values /\ files'[r] = held
        /\ missing'[r] = Lacks(s) /\ \A q \in Requests \ {r} : Keeps(q)
    BY <1>1, <1>3, <2>1, ByRequest DEF IsLocal, Keeps, Previewed
  <2>3. /\ IsLocal(pc)' /\ IsLocal(missing)' /\ IsLocal(asked)' /\ IsLocal(files)'
        /\ IsLocal(valores)' /\ IsLocal(snapshot)' /\ IsLocal(stored)'
    BY <1>1, <1>3, ByRequest DEF IsLocal
  <2>4. DOMAIN s \subseteq ids /\ Fits(s)
    BY <2>1, ByRequest
  <2>5. \A i \in Asked(s) : InputAccepted(s[i], post[i])
    BY <1>3, <2>1
  <2>6. /\ \A i \in DOMAIN values : i \in Asked(s) /\ InputAccepted(s[i], values[i])
        /\ \A i \in Asked(s) : Complete(s, i, values, held)
    BY <2>1, <2>4, <2>5, FormFacts
  <2>7. Lacks(asked[r])' => missing'[r]
    BY <1>1, <2>2 DEF Lacks, Extract
  <2>8. Validated(r)'
    BY <2>2, <2>4, <2>6, <2>7 DEF Validated
  <2>9. Invariants(r)'
    BY <2>2, <2>8 DEF Invariants, Resolved, Stored
  <2> QED
    BY <1>1, <2>2, <2>3, <2>9, Others
<1>4. \/ pc' = [pc EXCEPT ![r] = "invalid"] /\ UNCHANGED <<missing, asked, valores, files>>
      \/ \E post : /\ \A i \in Asked(campos) : InputAccepted(campos[i], post[i])
                   /\ missing' = [missing EXCEPT ![r] = Previewed(campos)]
                   /\ asked' = [asked EXCEPT ![r] = campos]
                   /\ valores' = [valores EXCEPT ![r] = ValuesDict(campos, post)]
                   /\ files' = [files EXCEPT ![r] = [i \in {j \in used : post[j] \in Archivos} |-> post[i]]]
                   /\ pc' = [pc EXCEPT ![r] = "valid"]
  BY DEF Post
<1> QED
  BY <1>2, <1>3, <1>4

LEMMA TakeSnapshotInv ==
  ASSUME IInv, NEW r \in Requests, TakeSnapshot(r)
  PROVE  IInv'
<1>1. /\ UNCHANGED <<campos, used, missing, asked, files, valores, stored, perfil>> /\ pc[r] = "valid"
      /\ snapshot' = [snapshot EXCEPT ![r] = campos] /\ pc' = [pc EXCEPT ![r] = "read"]
  BY DEF TakeSnapshot
<1>2. pc'[r] = "read" /\ snapshot'[r] = campos /\ \A q \in Requests \ {r} : Keeps(q)
  BY <1>1, ByRequest DEF IsLocal, Keeps
<1>3. /\ IsLocal(pc)' /\ IsLocal(missing)' /\ IsLocal(asked)' /\ IsLocal(files)'
      /\ IsLocal(valores)' /\ IsLocal(snapshot)' /\ IsLocal(stored)'
  BY <1>1, ByRequest DEF IsLocal
<1>4. Fits(snapshot[r])'
  BY <1>2, ByRequest DEF Fits
<1>5. Lacks(asked[r])' => Lacks(asked[r])
  BY <1>1 DEF Lacks, Extract
<1>6. Validated(r)'
  BY <1>1, <1>2, <1>5, ByRequest DEF Invariants, Validated
<1>7. Invariants(r)'
  BY <1>2, <1>4, <1>6 DEF Invariants, Resolved, Stored
<1> QED
  BY <1>1, <1>2, <1>3, <1>7, Others

\* The resolver touches auto-fill fields alone.
LEMMA ResolveInv ==
  ASSUME IInv, NEW r \in Requests, Resolve(r)
  PROVE  IInv'
<1>1. UNCHANGED <<campos, used, missing, asked, files, snapshot, stored, perfil>> /\ pc[r] = "read"
  BY DEF Resolve
<1>2. Fits(snapshot[r]) /\ Validated(r)
  BY <1>1, ByRequest DEF Invariants
<1>3. CASE Lacks(snapshot[r]) /\ pc' = [pc EXCEPT ![r] = "incomplete"] /\ UNCHANGED valores
  <2>1. pc'[r] = "incomplete" /\ \A q \in Requests \ {r} : Keeps(q)
    BY <1>1, <1>3, ByRequest DEF IsLocal, Keeps
  <2>2. /\ IsLocal(pc)' /\ IsLocal(missing)' /\ IsLocal(asked)' /\ IsLocal(files)'
        /\ IsLocal(valores)' /\ IsLocal(snapshot)' /\ IsLocal(stored)'
    BY <1>1, <1>3, ByRequest DEF IsLocal
  <2>3. missing[r] \/ asked[r] # snapshot[r]
    BY <1>1, <1>2, <1>3 DEF Validated
  <2>4. Invariants(r)'
    BY <1>1, <2>1, <2>3 DEF Invariants, Validated, Resolved, Stored
  <2> QED
    BY <1>1, <2>1, <2>2, <2>4, Others
<1>4. CASE ~Lacks(snapshot[r]) /\ pc' = [pc EXCEPT ![r] = "resolved"]
  <2>1. PICK s, a, have, auto, values, held :
          /\ s = snapshot[r] /\ a = asked[r] /\ values = valores[r] /\ held = files[r]
          /\ have = {i \in DOMAIN s : AutoFill(s[i]) /\ Extract(s[i].source) # Vacio}
          /\ auto = [i \in have |-> Extract(s[i].source)]
    OBVIOUS
  <2>2. PICK merged : merged = MergeValores(values, auto)
    OBVIOUS
  <2>3. valores' = [valores EXCEPT ![r] = merged]
    BY <1>4, <2>1, <2>2 DEF Resolve
  <2>4. /\ pc'[r] = "resolved" /\ valores'[r] = merged /\ snapshot'[r] = s /\ asked'[r] = a
        /\ files'[r] = held /\ \A q \in Requests \ {r} : Keeps(q)
    BY <1>1, <1>4, <2>1, <2>3, ByRequest DEF IsLocal, Keeps
  <2>5. /\ IsLocal(pc)' /\ IsLocal(missing)' /\ IsLocal(asked)' /\ IsLocal(files)'
        /\ IsLocal(valores)' /\ IsLocal(snapshot)' /\ IsLocal(stored)'
    BY <1>1, <1>4, <2>3, ByRequest DEF IsLocal
  <2>6. /\ Fits(s) /\ ~Lacks(s)
        /\ \A i \in DOMAIN values : i \in Asked(a) /\ InputAccepted(a[i], values[i])
        /\ \A i \in Asked(a) : Complete(a, i, values, held)
    BY <1>1, <1>2, <1>4, <2>1 DEF Validated
  <2>7. /\ DOMAIN merged = DOMAIN values \cup have
        /\ \A i \in have : merged[i] = Extract(s[i].source)
        /\ \A i \in DOMAIN values \ have : merged[i] = values[i]
    <3>1. DOMAIN auto = have /\ \A i \in have : auto[i] = Extract(s[i].source)
      BY <2>1
    <3>2. /\ DOMAIN merged = DOMAIN values \cup DOMAIN auto
          /\ \A i \in DOMAIN auto : merged[i] = auto[i]
          /\ \A i \in DOMAIN values \ DOMAIN auto : merged[i] = values[i]
      BY <2>2 DEF MergeValores
    <3> QED
      BY <3>1, <3>2
  <2>8. \A i \in have : /\ i \in DOMAIN s /\ AutoFill(s[i]) /\ merged[i] \in Valores \cup {Cuenta}
    BY <2>1, <2>6, <2>7, ExtractFacts, ByRequest
  \* A required auto-fill field has its value.
  <2>9. \A i \in DOMAIN s : AutoFill(s[i]) /\ s[i].required => i \in have
    BY <2>1, <2>6 DEF Lacks
  <2>10. ASSUME NEW i \in DOMAIN merged
         PROVE  LET auto2 == i \in DOMAIN s /\ AutoFill(s[i])
                IN \/ auto2 /\ merged[i] \in Valores \cup {Cuenta}
                   \/ /\ i \in DOMAIN a /\ ~AutoFill(a[i]) /\ InputAccepted(a[i], merged[i])
                      /\ auto2 => ~s[i].required /\ a # s
    <3>1. CASE i \in have
      BY <2>8, <3>1
    <3>2. CASE i \notin have
      <4>1. i \in DOMAIN a /\ ~AutoFill(a[i]) /\ InputAccepted(a[i], merged[i])
        BY <2>6, <2>7, <2>10, <3>2 DEF Asked
      <4> QED
        BY <2>9, <3>2, <4>1
    <3> QED
      BY <3>1, <3>2
  <2>11. Explained(r)'
    BY <2>4, <2>10 DEF Explained
  <2>12. ASSUME a = s, NEW i \in DOMAIN s
         PROVE  Complete(s, i, merged, held)
    <3>1. CASE AutoFill(s[i])
      <4>1. s[i].field_type # "FILE"
        BY <2>6, <3>1, FilesAreAsked
      <4>2. s[i].required => i \in DOMAIN merged /\ merged[i] # Blanco
        BY <2>7, <2>8, <2>9, <3>1, FormulariosAssumption
      <4> QED
        BY <4>1, <4>2 DEF Complete
    <3>2. CASE ~AutoFill(s[i])
      <4>1. i \in Asked(s) /\ i \notin have
        BY <2>8, <2>12, <3>2 DEF Asked
      <4>2. Complete(s, i, values, held)
        BY <2>6, <2>12, <4>1
      <4>3. /\ i \in DOMAIN merged <=> i \in DOMAIN values
            /\ i \in DOMAIN values => merged[i] = values[i]
        BY <2>7, <4>1
      <4> QED
        BY <4>2, <4>3 DEF Complete
    <3> QED
      BY <3>1, <3>2
  <2>13. Resolved(r)'
    BY <2>4, <2>11, <2>12 DEF Resolved
  <2>14. Invariants(r)'
    BY <2>4, <2>13 DEF Invariants, Validated, Stored
  <2> QED
    BY <1>1, <2>4, <2>5, <2>14, Others
<1> QED
  BY <1>3, <1>4 DEF Resolve

LEMMA StoreFilesInv ==
  ASSUME IInv, NEW r \in Requests, StoreFiles(r)
  PROVE  IInv'
<1>1. UNCHANGED <<campos, used, missing, asked, files, valores, snapshot, perfil>> /\ pc[r] = "resolved"
  BY DEF StoreFiles
<1>2. Resolved(r)
  BY ByRequest DEF Invariants
<1>3. CASE pc' = [pc EXCEPT ![r] = "refused"] /\ UNCHANGED stored
  <2>1. pc'[r] = "refused" /\ \A q \in Requests \ {r} : Keeps(q)
    BY <1>1, <1>3, ByRequest DEF IsLocal, Keeps
  <2>2. /\ IsLocal(pc)' /\ IsLocal(missing)' /\ IsLocal(asked)' /\ IsLocal(files)'
        /\ IsLocal(valores)' /\ IsLocal(snapshot)' /\ IsLocal(stored)'
    BY <1>1, <1>3, ByRequest DEF IsLocal
  <2>3. Invariants(r)'
    BY <2>1 DEF Invariants, Validated, Resolved, Stored
  <2> QED
    BY <1>1, <2>1, <2>2, <2>3, Others
<1>4. CASE /\ \A i \in DOMAIN files[r] : i \in DOMAIN snapshot[r] /\ StoreAccepts(snapshot[r][i], files[r][i])
           /\ pc' = [pc EXCEPT ![r] = "filed"] /\ stored' = [stored EXCEPT ![r] = files[r]]
  <2>1. /\ pc'[r] = "filed" /\ stored'[r] = files[r] /\ \A q \in Requests \ {r} : Keeps(q)
    BY <1>1, <1>4, ByRequest DEF IsLocal, Keeps
  <2>2. /\ IsLocal(pc)' /\ IsLocal(missing)' /\ IsLocal(asked)' /\ IsLocal(files)'
        /\ IsLocal(valores)' /\ IsLocal(snapshot)' /\ IsLocal(stored)'
    BY <1>1, <1>4, ByRequest DEF IsLocal
  <2>3. \A i \in DOMAIN files[r] : files[r][i].mb <= GLOBAL_MAX_MB
    BY <1>4 DEF StoreAccepts
  <2>4. Explained(r)'
    BY <1>1, <1>2 DEF Explained, Resolved
  <2>5. Resolved(r)' /\ Stored(r)'
    BY <1>1, <1>2, <2>1, <2>3, <2>4 DEF Resolved, Stored
  <2>6. Invariants(r)'
    BY <2>1, <2>5 DEF Invariants, Validated
  <2> QED
    BY <1>1, <2>1, <2>2, <2>6, Others
<1> QED
  BY <1>3, <1>4 DEF StoreFiles

-----------------------------------------------------------------------------
(* The theorems.                                                           *)

LEMMA InitInv == Init => IInv
<1> SUFFICES ASSUME Init
             PROVE  IInv
  OBVIOUS
<1>1. \A r \in Requests : Invariants(r)
  BY DEF Init, Invariants, Validated, Resolved, Stored
<1>2. perfil \in [Matriculas -> Perfiles]
  BY DEF Init, PerfilInit, SinPerfil, Perfiles
<1>3. /\ IsLocal(pc) /\ IsLocal(missing) /\ IsLocal(asked) /\ IsLocal(files)
      /\ IsLocal(valores) /\ IsLocal(snapshot) /\ IsLocal(stored)
  BY DEF Init, IsLocal
<1>4. DOMAIN campos \subseteq used /\ Fits(campos)
  BY DEF Init, Fits
<1> QED
  BY <1>1, <1>2, <1>3, <1>4, ByRequest

\* The inductive invariant holds in every reachable state.
THEOREM Invariance == Spec => []IInv
<1>1. IInv /\ [Next]_vars => IInv'
  <2> SUFFICES ASSUME IInv, [Next]_vars
               PROVE  IInv'
    OBVIOUS
  <2>1. CASE UNCHANGED vars
    <3>1. UNCHANGED <<campos, used, perfil, pc, missing, asked, files, valores, snapshot, stored>>
      BY <2>1 DEF vars
    <3>2. \A r \in Requests : Invariants(r)'
      BY <3>1, Kept, ByRequest DEF Keeps
    <3> QED
      BY <3>1, <3>2, ByRequest DEF IInv, Invariants, RefusalWasAnnounced, IsLocal, Fits
  <2>2. CASE Learn(Yo) /\ UNCHANGED <<admin, local>>
    <3>1. \A r \in Requests : Invariants(r)'
      BY <2>2, Kept, ByRequest DEF Keeps
    <3>2. perfil' \in [Matriculas -> Perfiles]
      BY <2>2, ByRequest DEF Learn
    <3> QED
      BY <2>2, <3>1, <3>2, ByRequest DEF IInv, Invariants, RefusalWasAnnounced, IsLocal, Fits
  <2> QED
    BY <2>1, <2>2, SaveTipoInv, PostInv, TakeSnapshotInv, ResolveInv, StoreFilesInv DEF Next
<1> QED
  BY InitInv, <1>1, PTL DEF Spec

\* Under an auto-fill field of a filed solicitud stands the profile's value, or what
\* an edit left there of a field that was asked for.
THEOREM ValoresComeFromSomewhere == Spec => []ValoresAreExplained
<1>1. IInv => ValoresAreExplained
  BY DEF IInv, Resolved, ValoresAreExplained
<1> QED
  BY <1>1, Invariance, PTL

\* With no edit in between, a filed solicitud is complete, and its files keep the
\* limits of the field and of the store.
THEOREM FiledFormsAreComplete == Spec => []OneFormIsComplete
<1>1. IInv => OneFormIsComplete
  <2> SUFFICES ASSUME IInv, NEW r \in Requests, pc[r] = "filed", asked[r] = snapshot[r],
                      NEW i \in DOMAIN snapshot[r]
               PROVE  /\ Complete(snapshot[r], i, valores[r], stored[r])
                      /\ i \in DOMAIN stored[r] => stored[r][i].mb <= GLOBAL_MAX_MB
    BY DEF OneFormIsComplete
  <2> QED
    BY DEF IInv, Resolved, Stored
<1> QED
  BY <1>1, Invariance, PTL

\* A filing is refused for want of a profile value only where its preview said so.
THEOREM PreviewsAreBinding == Spec => []RefusalWasAnnounced
<1>1. IInv => RefusalWasAnnounced
  BY DEF IInv
<1> QED
  BY <1>1, Invariance, PTL

-----------------------------------------------------------------------------
(* The edit page, opened and saved again.                                  *)

\* A csv, or what is made of one: a list.
IsList(csv) == \E n \in Nat : DOMAIN csv = 1 .. n /\ csv = [k \in 1 .. n |-> csv[k]]

\* The parts of a csv are counted 1 .. their number, in their order.
LEMMA PartFacts ==
  ASSUME NEW csv, IsList(csv)
  PROVE  /\ Cardinality(Parts(csv)) \in Nat
         /\ \A n \in 1 .. Cardinality(Parts(csv)) : PartAt(csv, n) \in Parts(csv)
<1> DEFINE K == Parts(csv)
           m == Cardinality(K)
           place == [k \in K |-> Cardinality(K \cap 1 .. k)]
<1>1. PICK n \in Nat : DOMAIN csv = 1 .. n
  BY DEF IsList
<1>2. K \in SUBSET (1 .. n) /\ IsFiniteSet(K) /\ m \in Nat
  <2>1. K \in SUBSET (1 .. n)
    BY <1>1 DEF Parts
  <2>2. IsFiniteSet(1 .. n)
    BY FS_Interval
  <2> QED
    BY <2>1, <2>2, FS_Subset, FS_CardinalityType
<1>3. \A k \in K : IsFiniteSet(K \cap 1 .. k) /\ Cardinality(K \cap 1 .. k) \in Nat
                   /\ Cardinality(K \cap 1 .. k) <= m
  BY <1>2, FS_Subset, FS_CardinalityType
<1>4. place \in [K -> 1 .. m]
  <2> SUFFICES ASSUME NEW k \in K
               PROVE  Cardinality(K \cap 1 .. k) # 0
    BY <1>2, <1>3
  <2>1. k \in K \cap 1 .. k
    BY <1>2
  <2> QED
    BY <1>3, <2>1, FS_EmptySet
<1>5. ASSUME NEW j \in K, NEW k \in K, j < k
      PROVE  Cardinality(K \cap 1 .. j) < Cardinality(K \cap 1 .. k)
  <2>1. K \cap 1 .. j \in SUBSET (K \cap 1 .. k) /\ k \in K \cap 1 .. k /\ k \notin K \cap 1 .. j
    BY <1>2, <1>5
  <2> QED
    BY <1>3, <2>1, FewerElements
<1>6. \A j, k \in K : Cardinality(K \cap 1 .. j) = Cardinality(K \cap 1 .. k) => j = k
  <2> SUFFICES ASSUME NEW j \in K, NEW k \in K, j # k
               PROVE  Cardinality(K \cap 1 .. j) # Cardinality(K \cap 1 .. k)
    OBVIOUS
  <2>1. j < k \/ k < j
    BY <1>2
  <2> QED
    BY <1>3, <1>5, <2>1
<1>7. place \in Injection(K, 1 .. m)
  BY <1>4, <1>6 DEF Injection, IsInjective
<1>8. place \in Surjection(K, 1 .. m)
  <2> IsFiniteSet(1 .. m) /\ Cardinality(1 .. m) = m
    BY <1>2, FS_Interval
  <2> Cardinality(K) = Cardinality(1 .. m)
    OBVIOUS
  <2> HIDE DEF place, m
  <2> QED
    BY <1>2, <1>7, FS_Injection
<1>9. \A i \in 1 .. m : \E k \in K : Cardinality(K \cap 1 .. k) = i
  BY <1>8 DEF Surjection
<1> QED
  BY <1>2, <1>9 DEF PartAt

\* Splitting returns a list without empty parts ...
LEMMA SplitFacts ==
  ASSUME NEW csv, IsList(csv)
  PROVE  /\ IsList(SplitCsv(csv))
         /\ \A n \in DOMAIN SplitCsv(csv) : \E k \in DOMAIN csv : SplitCsv(csv)[n] = csv[k]
         /\ \A n \in DOMAIN SplitCsv(csv) : SplitCsv(csv)[n] # Blanco
BY PartFacts DEF SplitCsv, Parts, IsList

\* ... and keeps such a list as it is.
LEMMA SplitTwice ==
  ASSUME NEW csv, IsList(csv), \A n \in DOMAIN csv : csv[n] # Blanco
  PROVE  SplitCsv(csv) = csv
<1>1. PICK m \in Nat : DOMAIN csv = 1 .. m /\ csv = [k \in 1 .. m |-> csv[k]]
  BY DEF IsList
<1>2. Parts(csv) = 1 .. m
  BY <1>1 DEF Parts
<1>3. Cardinality(Parts(csv)) = m
  BY <1>2, FS_Interval
<1>4. ASSUME NEW n \in 1 .. m
      PROVE  PartAt(csv, n) = n
  <2>1. \A k \in 1 .. m : Parts(csv) \cap 1 .. k = 1 .. k
    BY <1>2
  <2>2. \A k \in 1 .. m : Cardinality(1 .. k) = k
    BY FS_Interval
  <2>3. \A k \in 1 .. m : Cardinality(Parts(csv) \cap 1 .. k) = k
    BY <2>1, <2>2
  <2> QED
    BY <1>2, <2>3 DEF PartAt
<1> QED
  BY <1>1, <1>3, <1>4 DEF SplitCsv

\* What FieldForm has made of its two csv inputs is made of them again.
LEMMA CsvTwice ==
  ASSUME NEW row \in EditorRow
  PROVE  /\ SplitCsv(SplitCsv(row.options_csv)) = SplitCsv(row.options_csv)
         /\ LET exts == LowerAll(SplitCsv(row.accepted_extensions_csv)) IN
              SplitCsv(exts) = exts /\ LowerAll(exts) = exts
<1> DEFINE cut  == SplitCsv(row.accepted_extensions_csv)
           exts == LowerAll(cut)
<1>1. IsList(row.options_csv) /\ IsList(row.accepted_extensions_csv)
  BY DEF EditorRow, IsList
<1>2. IsList(cut) /\ \A k \in DOMAIN cut : cut[k] # Blanco
  BY <1>1, SplitFacts
<1>3. \A x : Lower(Lower(x)) = Lower(x) /\ (x # Blanco => Lower(x) # Blanco)
  BY FormulariosAssumption DEF Lower, Extensions
<1>4. DOMAIN exts = DOMAIN cut /\ \A k \in DOMAIN cut : exts[k] = Lower(cut[k])
  BY DEF LowerAll
<1>5. IsList(exts)
  BY <1>2, <1>4 DEF LowerAll, IsList
<1>6. \A k \in DOMAIN exts : exts[k] # Blanco
  BY <1>2, <1>3, <1>4
<1>7. LowerAll(exts) = exts
  <2>1. LowerAll(exts) = [k \in DOMAIN cut |-> Lower(exts[k])]
    BY <1>4 DEF LowerAll
  <2>2. \A k \in DOMAIN cut : Lower(exts[k]) = Lower(cut[k])
    BY <1>3, <1>4
  <2>3. exts = [k \in DOMAIN cut |-> Lower(cut[k])]
    BY DEF LowerAll
  <2> QED
    BY <2>1, <2>2, <2>3
<1> QED
  BY <1>1, <1>5, <1>6, <1>7, SplitFacts, SplitTwice

\* The edit page of one field.
SavedAsShown(f) == RowAccepted(Initial(f)) /\ Collected(Initial(f)) = f

\* What clean leaves of the limits of a row.
SizeOf(row)  == IF row.field_type # "FILE" \/ row.max_size_mb = Blanco THEN 10 ELSE row.max_size_mb
CharsOf(row) == IF Textual(row.field_type) THEN row.max_chars ELSE Blanco

LEMMA CollectedFields ==
  ASSUME NEW row \in EditorRow
  PROVE  Collected(row) =
           [field_type |-> row.field_type, required |-> row.required,
            options |-> SplitCsv(row.options_csv),
            accepted_extensions |-> LowerAll(SplitCsv(row.accepted_extensions_csv)),
            max_size_mb |-> SizeOf(row), max_chars |-> CharsOf(row), source |-> SourceOf(row)]
<1> DEFINE clean == DropHidden(row)
<1>1. /\ clean.field_type = row.field_type /\ clean.required = row.required
      /\ clean.options_csv = row.options_csv
      /\ clean.accepted_extensions_csv = row.accepted_extensions_csv
  BY DEF DropHidden, EditorRow
<1>2. clean.max_size_mb = IF row.field_type = "FILE" THEN row.max_size_mb ELSE 10
  BY DEF DropHidden, EditorRow
<1>3. clean.max_chars = CharsOf(row)
  BY DEF DropHidden, EditorRow, CharsOf
<1>4. (IF clean.max_size_mb = Blanco THEN 10 ELSE clean.max_size_mb) = SizeOf(row)
  BY <1>2 DEF SizeOf
<1> HIDE DEF clean
<1>5. Collected(row) =
        [field_type |-> clean.field_type, required |-> clean.required,
         options |-> SplitCsv(clean.options_csv),
         accepted_extensions |-> LowerAll(SplitCsv(clean.accepted_extensions_csv)),
         max_size_mb |-> IF clean.max_size_mb = Blanco THEN 10 ELSE clean.max_size_mb,
         max_chars |-> clean.max_chars, source |-> SourceOf(row)]
  BY DEF Collected, clean
<1> QED
  BY <1>1, <1>3, <1>4, <1>5

\* The same of a row the page shows.
LEMMA ShownFields ==
  ASSUME NEW f
  PROVE  LET row == Initial(f) IN
         Collected(row) =
           [field_type |-> f.field_type, required |-> f.required,
            options |-> SplitCsv(f.options),
            accepted_extensions |-> LowerAll(SplitCsv(f.accepted_extensions)),
            max_size_mb |-> SizeOf(f), max_chars |-> CharsOf(f), source |-> SourceOf(f)]
<1> DEFINE row   == Initial(f)
           clean == DropHidden(row)
<1>1. /\ clean.field_type = f.field_type /\ clean.required = f.required
      /\ clean.options_csv = f.options
      /\ clean.accepted_extensions_csv = f.accepted_extensions
  BY DEF DropHidden, Initial
<1>2. clean.max_size_mb = IF f.field_type = "FILE" THEN f.max_size_mb ELSE 10
  BY DEF DropHidden, Initial
<1>3. clean.max_chars = CharsOf(f)
  BY DEF DropHidden, Initial, CharsOf
<1>4. (IF clean.max_size_mb = Blanco THEN 10 ELSE clean.max_size_mb) = SizeOf(f)
  BY <1>2 DEF SizeOf
<1>5. SourceOf(row) = SourceOf(f)
  BY DEF SourceOf, Initial
<1> HIDE DEF clean
<1>6. Collected(row) =
        [field_type |-> clean.field_type, required |-> clean.required,
         options |-> SplitCsv(clean.options_csv),
         accepted_extensions |-> LowerAll(SplitCsv(clean.accepted_extensions_csv)),
         max_size_mb |-> IF clean.max_size_mb = Blanco THEN 10 ELSE clean.max_size_mb,
         max_chars |-> clean.max_chars, source |-> SourceOf(row)]
  BY DEF Collected, clean
<1> HIDE DEF row
<1>7. Collected(row) =
           [field_type |-> f.field_type, required |-> f.required,
            options |-> SplitCsv(f.options),
            accepted_extensions |-> LowerAll(SplitCsv(f.accepted_extensions)),
            max_size_mb |-> SizeOf(f), max_chars |-> CharsOf(f), source |-> SourceOf(f)]
  BY <1>1, <1>3, <1>4, <1>5, <1>6
<1> QED
  BY <1>7 DEF row

\* The hidden inputs are dropped once, and the csv are split once.
LEMMA SavedRowIsStable ==
  ASSUME NEW row \in EditorRows, RowAccepted(row), SchemaAccepts(Collected(row))
  PROVE  SavedAsShown(Collected(row))
<1>1. PICK f : f = Collected(row)
  OBVIOUS
<1>2. row \in EditorRow
  BY FormulariosAssumption
<1>3. PICK cut : cut = SplitCsv(row.accepted_extensions_csv)
  OBVIOUS
<1>4. /\ f.field_type = row.field_type /\ f.options = SplitCsv(row.options_csv)
      /\ f.accepted_extensions = LowerAll(cut)
      /\ f.max_size_mb = SizeOf(row) /\ f.max_chars = CharsOf(row) /\ f.source = SourceOf(row)
      /\ f = [field_type |-> f.field_type, required |-> f.required, options |-> f.options,
              accepted_extensions |-> f.accepted_extensions, max_size_mb |-> f.max_size_mb,
              max_chars |-> f.max_chars, source |-> f.source]
  BY <1>1, <1>2, <1>3, CollectedFields
<1>5. SplitCsv(f.options) = f.options
  BY <1>2, <1>4, CsvTwice
<1>6. SplitCsv(f.accepted_extensions) = f.accepted_extensions
      /\ LowerAll(f.accepted_extensions) = f.accepted_extensions
  BY <1>2, <1>3, <1>4, CsvTwice
<1>7. SizeOf(f) = f.max_size_mb /\ CharsOf(f) = f.max_chars
  BY <1>4 DEF SizeOf, CharsOf
<1>8. SourceOf(f) = f.source
  <2>1. f.field_type \in AllowedTypes(f.source)
    BY <1>1 DEF SchemaAccepts
  <2> QED
    BY <1>4, <2>1 DEF SourceOf
<1>9. Collected(Initial(f)) = f
  BY <1>4, <1>5, <1>6, <1>7, <1>8, ShownFields
<1>10. InputsInRange(Initial(f))
  <2>1. f.max_size_mb \in 1 .. 50 /\ (f.max_chars = Blanco \/ f.max_chars \in 1 .. 2000)
    BY <1>4 DEF SizeOf, CharsOf, RowAccepted, InputsInRange
  <2> QED
    BY <2>1 DEF InputsInRange, Initial
<1>11. OptionsAccepted(Initial(f))
  BY <1>4, <1>5 DEF OptionsAccepted, Initial, RowAccepted
<1>12. ExtensionsAccepted(Initial(f))
  <2>1. /\ row.field_type = "FILE" <=> cut # <<>>
        /\ \A k \in DOMAIN cut : Dotted(cut[k])
    BY <1>3 DEF RowAccepted, ExtensionsAccepted
  <2>2. PICK exts : exts = f.accepted_extensions
    OBVIOUS
  <2>3. DOMAIN exts = DOMAIN cut /\ \A k \in DOMAIN cut : exts[k] = Lower(cut[k])
    BY <1>4, <2>2 DEF LowerAll
  <2>4. IsList(cut) /\ IsList(exts)
    <3>1. IsList(row.accepted_extensions_csv)
      BY <1>2 DEF EditorRow, IsList
    <3>2. IsList(cut)
      BY <1>3, <3>1, SplitFacts
    <3> QED
      BY <1>4, <2>2, <3>2 DEF LowerAll, IsList
  <2>5. cut = <<>> <=> exts = <<>>
    BY <2>3, <2>4 DEF IsList
  <2>6. \A k \in DOMAIN exts : Dotted(exts[k])
    BY <2>1, <2>3 DEF Dotted, Lower
  <2> QED
    BY <1>4, <1>6, <2>1, <2>2, <2>5, <2>6 DEF ExtensionsAccepted, Initial
<1> QED
  BY <1>1, <1>9, <1>10, <1>11, <1>12 DEF SavedAsShown, RowAccepted

\* Whatever a tipo went through, its edit page can be saved as it is and changes
\* nothing: FieldForm drops stale inputs before the tipo is stored.
THEOREM EditPagesAreStable == Spec => []EditPageKeepsTheTipo
<1>1. EditPageKeepsTheTipo <=> \A i \in DOMAIN campos : SavedAsShown(campos[i])
  BY DEF EditPageKeepsTheTipo, SavedAsShown
<1>2. ASSUME EditPageKeepsTheTipo, SaveTipo PROVE EditPageKeepsTheTipo'
  <2>1. PICK kept \in SUBSET DOMAIN campos, fresh \in SUBSET (FieldIds \ used) :
        \E posted \in [kept \cup fresh -> EditorRows \cup {Initial(campos[i]) : i \in kept}] :
          /\ \A i \in DOMAIN posted : RowAccepted(posted[i]) /\ SchemaAccepts(Collected(posted[i]))
          /\ campos' = [i \in DOMAIN posted |-> Collected(posted[i])]
    BY <1>2 DEF SaveTipo
  <2>2. PICK posted \in [kept \cup fresh -> EditorRows \cup {Initial(campos[i]) : i \in kept}] :
          /\ \A i \in DOMAIN posted : RowAccepted(posted[i]) /\ SchemaAccepts(Collected(posted[i]))
          /\ campos' = [i \in DOMAIN posted |-> Collected(posted[i])]
    BY <2>1
  <2>3. ASSUME NEW i \in DOMAIN posted
        PROVE  SavedAsShown(Collected(posted[i]))
    <3>1. PICK row : row = posted[i]
      OBVIOUS
    <3>2. RowAccepted(row) /\ SchemaAccepts(Collected(row))
      BY <2>2, <3>1
    <3>3. CASE row \in EditorRows
      BY <3>1, <3>2, <3>3, SavedRowIsStable
    <3>4. CASE row \notin EditorRows
      <4>1. PICK j \in kept : row = Initial(campos[j])
        BY <2>2, <3>1, <3>4
      <4>2. SavedAsShown(campos[j])
        BY <1>1, <1>2
      <4> QED
        BY <3>1, <4>1, <4>2 DEF SavedAsShown
    <3> QED
      BY <3>3, <3>4
  <2>4. PICK new : new = campos'
    OBVIOUS
  <2>5. DOMAIN new = DOMAIN posted /\ \A i \in DOMAIN posted : new[i] = Collected(posted[i])
    BY <2>2, <2>4
  <2>6. \A i \in DOMAIN new : SavedAsShown(new[i])
    BY <2>3, <2>5
  <2> QED
    BY <2>4, <2>6 DEF EditPageKeepsTheTipo, SavedAsShown
<1>3. EditPageKeepsTheTipo /\ [Next]_vars => EditPageKeepsTheTipo'
  <2> SUFFICES ASSUME EditPageKeepsTheTipo, [Next]_vars
               PROVE  EditPageKeepsTheTipo'
    OBVIOUS
  <2>1. SaveTipo \/ UNCHANGED campos
    BY DEF Next, vars, Post, TakeSnapshot, Resolve, StoreFiles
  <2> QED
    BY <1>2, <2>1 DEF EditPageKeepsTheTipo
<1>4. Init => EditPageKeepsTheTipo
  BY DEF Init, EditPageKeepsTheTipo
<1> QED
  BY <1>3, <1>4, PTL DEF Spec

-----------------------------------------------------------------------------
(***************************************************************************)
(* Reportes.                                                               *)
(***************************************************************************)
(* Newest first: the order of a list and its pages.                        *)

LEMMA FoliosAreFinite == IsFiniteSet(Folios)
<1> DEFINE n == Len(NewestFirst)
<1>1. NewestFirst \in [1 .. n -> Folios] /\ n \in Nat /\ DOMAIN NewestFirst = 1 .. n
  BY OrderAssumption
<1>2. NewestFirst \in Surjection(1 .. n, Folios)
  BY <1>1, OrderAssumption DEF Surjection
<1>3. ExistsSurjection(1 .. n, Folios)
  BY <1>2 DEF ExistsSurjection
<1> QED
  BY <1>1, <1>3, FS_NatSurjection

LEMMA SubsetsAreFinite ==
  ASSUME NEW fs \in SUBSET Folios
  PROVE  IsFiniteSet(fs) /\ Cardinality(fs) \in Nat
  BY FoliosAreFinite, FS_Subset, FS_CardinalityType

LEMMA RankFacts ==
  /\ \A f \in Folios : Rank(f) \in Nat /\ NewestFirst[Rank(f)] = f
  /\ \A f, g \in Folios : Rank(f) = Rank(g) => f = g
<1>1. ASSUME NEW f \in Folios
      PROVE  Rank(f) \in DOMAIN NewestFirst /\ NewestFirst[Rank(f)] = f
  BY OrderAssumption DEF Rank
<1>2. DOMAIN NewestFirst \subseteq Nat
  BY OrderAssumption
<1> QED
  BY <1>1, <1>2

\* Nothing but what is newer counts for a place.
LEMMA PlaceFacts ==
  ASSUME NEW fs \in SUBSET Folios
  PROVE  /\ \A f \in Folios : Position(f, fs) \in Nat \ {0}
         /\ \A f \in fs : Position(f, fs) <= Cardinality(fs)
         /\ \A f \in fs : \A g \in fs : Rank(f) < Rank(g) => Position(f, fs) < Position(g, fs)
<1>1. ASSUME NEW f \in Folios
      PROVE  /\ Position(f, fs) = Cardinality(fs \cap Newer(f)) + 1
             /\ Position(f, fs) \in Nat \ {0}
             /\ fs \cap Newer(f) \in SUBSET Folios /\ Cardinality(fs \cap Newer(f)) \in Nat
  BY SubsetsAreFinite DEF Position
<1>2. ASSUME NEW f \in fs
      PROVE  Position(f, fs) <= Cardinality(fs)
  <2>1. f \notin fs \cap Newer(f)
    BY RankFacts DEF Newer
  <2>2. Cardinality(fs \cap Newer(f)) < Cardinality(fs)
    BY <2>1, SubsetsAreFinite, FewerElements
  <2> QED
    BY <1>1, <2>2, SubsetsAreFinite
<1>3. ASSUME NEW f \in fs, NEW g \in fs, Rank(f) < Rank(g)
      PROVE  Position(f, fs) < Position(g, fs)
  <2>1. /\ fs \cap Newer(f) \in SUBSET (fs \cap Newer(g))
        /\ f \in fs \cap Newer(g) /\ f \notin fs \cap Newer(f)
    BY <1>3, RankFacts DEF Newer
  <2>2. IsFiniteSet(fs \cap Newer(g))
    BY SubsetsAreFinite
  <2>3. Cardinality(fs \cap Newer(f)) < Cardinality(fs \cap Newer(g))
    BY <2>1, <2>2, FewerElements
  <2> QED
    BY <1>1, <2>3
<1>4. \A f \in Folios : Position(f, fs) \in Nat \ {0}
  BY <1>1
<1> QED
  BY <1>2, <1>3, <1>4

\* The places of a set are 1 .. its size, one for each folio.
LEMMA OrderedFacts ==
  ASSUME NEW fs \in SUBSET Folios
  PROVE  /\ \A i \in 1 .. Cardinality(fs) :
              Ordered(fs)[i] \in fs /\ Position(Ordered(fs)[i], fs) = i
         /\ \A f \in fs : Ordered(fs)[Position(f, fs)] = f
<1> DEFINE n == Cardinality(fs)
           place == [f \in fs |-> Position(f, fs)]
<1>1. n \in Nat /\ IsFiniteSet(fs) /\ IsFiniteSet(1 .. n) /\ Cardinality(1 .. n) = n
  BY SubsetsAreFinite, FS_Interval
<1>2. place \in [fs -> 1 .. n]
  BY <1>1, PlaceFacts
<1>3. \A f, g \in fs : Position(f, fs) = Position(g, fs) => f = g
  <2> SUFFICES ASSUME NEW f \in fs, NEW g \in fs, Position(f, fs) = Position(g, fs)
               PROVE  f = g
    OBVIOUS
  <2>1. ~(Rank(f) < Rank(g)) /\ ~(Rank(g) < Rank(f))
    <3>1. Position(f, fs) \in Nat
      BY PlaceFacts
    <3> QED
      BY <3>1, PlaceFacts
  <2> QED
    BY <2>1, RankFacts
<1>4. place \in Injection(fs, 1 .. n)
  BY <1>2, <1>3 DEF Injection, IsInjective
<1>5. place \in Surjection(fs, 1 .. n)
  <2> HIDE DEF place, n
  <2>1. Cardinality(fs) = Cardinality(1 .. n)
    BY <1>1 DEF n
  <2> QED
    BY <1>1, <1>4, <2>1, FS_Injection
<1>6. \A i \in 1 .. n : \E f \in fs : Position(f, fs) = i
  BY <1>5 DEF Surjection
<1>7. ASSUME NEW i \in 1 .. n
      PROVE  Ordered(fs)[i] \in fs /\ Position(Ordered(fs)[i], fs) = i
  BY <1>6, <1>7 DEF Ordered
<1>8. ASSUME NEW f \in fs
      PROVE  Ordered(fs)[Position(f, fs)] = f
  BY <1>1, <1>2, <1>3, <1>7
<1> QED
  BY <1>7, <1>8

\* The k rows of page p of fs begin after place lo.
IsPage(r, fs, p, lo, k) ==
  /\ lo = (p - 1) * PageSize /\ lo + PageSize = p * PageSize
  /\ DOMAIN r = 1 .. k /\ r = [i \in 1 .. k |-> r[i]]
  /\ \A i \in 1 .. k : /\ r[i].folio \in fs /\ r[i] = ToRow(r[i].folio, p)
                      /\ Position(r[i].folio, fs) = lo + i /\ i <= PageSize
  /\ \A f \in fs : lo < Position(f, fs) /\ Position(f, fs) <= lo + PageSize
                     => \E i \in 1 .. k : r[i].folio = f

\* A page holds the folios whose place is on it, each once and as it is.
LEMMA PageFacts ==
  ASSUME NEW fs \in SUBSET Folios, NEW p \in Nat \ {0}
  PROVE  \E lo \in Nat, k \in Nat : IsPage(Slice(fs, p), fs, p, lo, k)
<1> DEFINE r == Slice(fs, p)
<1> DEFINE n == Cardinality(fs)
           hi(lo) == IF lo + PageSize < n THEN lo + PageSize ELSE n
           k(lo)  == IF hi(lo) > lo THEN hi(lo) - lo ELSE 0
<1>1. PageSize \in Nat \ {0} /\ n \in Nat
  BY PageAssumption, SubsetsAreFinite
<1>2. PICK lo \in Nat : lo = (p - 1) * PageSize
  BY <1>1
<1>3. p * PageSize = lo + PageSize
  BY <1>1, <1>2
<1>4. Len(Ordered(fs)) = n
  BY <1>1 DEF Ordered
<1>5. Slice(fs, p) = [i \in 1 .. k(lo) |-> ToRow(Ordered(fs)[lo + i], p)]
  BY <1>2, <1>4 DEF Slice
<1>6. k(lo) \in Nat /\ \A i \in 1 .. k(lo) : lo + i \in 1 .. n /\ i <= PageSize
  BY <1>1, <1>2
<1>7. ASSUME NEW i \in 1 .. k(lo)
      PROVE  /\ Slice(fs, p)[i].folio = Ordered(fs)[lo + i]
             /\ Slice(fs, p)[i] = ToRow(Ordered(fs)[lo + i], p)
  BY <1>5 DEF ToRow
<1>8. ASSUME NEW f \in fs, lo < Position(f, fs), Position(f, fs) <= lo + PageSize
      PROVE  \E i \in 1 .. k(lo) : Ordered(fs)[lo + i] = f
  <2>1. Position(f, fs) \in Nat /\ Position(f, fs) <= n /\ Ordered(fs)[Position(f, fs)] = f
    BY PlaceFacts, OrderedFacts
  <2>2. Position(f, fs) - lo \in 1 .. k(lo) /\ lo + (Position(f, fs) - lo) = Position(f, fs)
    BY <1>1, <1>8, <2>1
  <2> QED
    BY <2>1, <2>2
<1> HIDE DEF k, hi
<1> HIDE DEF r
<1>9. PICK z \in Nat : z = k(lo)
  BY <1>6
<1>10. DOMAIN r = 1 .. z /\ r = [i \in 1 .. z |-> r[i]]
  BY <1>5, <1>9 DEF r
<1>11. \A i \in 1 .. z : /\ r[i].folio \in fs /\ r[i] = ToRow(r[i].folio, p)
                        /\ Position(r[i].folio, fs) = lo + i /\ i <= PageSize
  BY <1>6, <1>7, <1>9, OrderedFacts DEF r
<1>12. \A f \in fs : lo < Position(f, fs) /\ Position(f, fs) <= lo + PageSize
                       => \E i \in 1 .. z : r[i].folio = f
  BY <1>7, <1>8, <1>9 DEF r
<1>13. IsPage(r, fs, p, lo, z)
  BY <1>2, <1>3, <1>10, <1>11, <1>12 DEF IsPage
<1> QED
  BY <1>13 DEF r

-----------------------------------------------------------------------------
(* What one query returns.                                                 *)

\* A set of indices that is not empty has a last one.
LEMMA LastIndex ==
  ASSUME NEW n \in Nat, NEW T \in SUBSET (1 .. n), T # {}
  PROVE  \E i \in T : \A j \in T : j <= i
<1> DEFINE U == { u \in Nat : \E i \in T : i + u = n }
<1>1. U \subseteq Nat /\ U # {}
  <2>1. PICK i \in T : TRUE
    OBVIOUS
  <2>2. n - i \in Nat /\ i + (n - i) = n
    OBVIOUS
  <2>3. n - i \in U
    BY <2>2
  <2> QED
    BY <2>3
<1>2. \E x \in U : \A y \in U : <<y, x>> \notin OpToRel(<, Nat)
  <2> HIDE DEF U
  <2> QED
    BY <1>1, NatLessThanWellFounded, WFMin, Zenon
<1>3. PICK x \in U : \A y \in U : ~ (y < x)
  BY <1>1, <1>2 DEF OpToRel
<1>4. PICK i \in T : x \in Nat /\ i + x = n
  BY <1>3
<1>5. ASSUME NEW j \in T
      PROVE  j <= i
  <2>1. n - j \in Nat /\ j + (n - j) = n
    OBVIOUS
  <2>2. n - j \in U
    BY <2>1
  <2>3. ~ (n - j < x)
    BY <1>3, <2>2
  <2> QED
    BY <1>4, <2>3
<1> QED
  BY <1>5

\* The handler of a historial is who took the folio last.
LEMMA HandlerFacts ==
  ASSUME NEW f \in Folios, historial[f] \in Seq(HistorialEntry)
  PROVE  /\ Handler(historial[f]) \in Users \cup {Nobody}
         /\ TookLast(f, Len(historial[f]), Handler(historial[f]))
<1> DEFINE h == historial[f]
           takes == { i \in DOMAIN h : h[i].nuevo = "EN_PROCESO" }
<1>1. Len(h) \in Nat /\ DOMAIN h = 1 .. Len(h) /\ \A i \in DOMAIN h : h[i].actor \in Users
  <2>1. h \in [1 .. Len(h) -> HistorialEntry] /\ Len(h) \in Nat
    OBVIOUS
  <2>2. \A e \in HistorialEntry : e.actor \in Users
    BY DEF HistorialEntry
  <2> QED
    BY <2>1, <2>2
<1>2. CASE takes = {}
  BY <1>1, <1>2 DEF Handler, TookLast
<1>3. CASE takes # {}
  <2>1. \E i \in takes : \A j \in takes : j <= i
    BY <1>1, <1>3, LastIndex
  <2>2. PICK i \in takes : Handler(h) = h[i].actor /\ \A j \in takes : j <= i
    BY <1>3, <2>1 DEF Handler
  <2>3. \A j \in i + 1 .. Len(h) : j \in DOMAIN h /\ j \notin takes
    BY <1>1, <2>2
  <2> QED
    BY <1>1, <2>2, <2>3 DEF TookLast
<1> QED
  BY <1>2, <1>3

LEMMA MatchingFacts == \A q : Matching(q) \in SUBSET Folios /\ Matching(q) \subseteq Filed
  BY DEF Matching, Filed

\* One statement shows a folio in one of its states.
LEMMA RowFacts ==
  ASSUME NEW f \in Filed, historial \in [Folios -> Seq(HistorialEntry)], NEW p \in Nat
  PROVE  /\ ToRow(f, p) \in SolicitudRow /\ ToRow(f, p).folio = f
         /\ \E n \in DOMAIN historial[f] : FromEntries(ToRow(f, p), n, n)
<1>1. /\ f \in Folios /\ historial[f] \in Seq(HistorialEntry)
      /\ Len(historial[f]) \in DOMAIN historial[f]
  BY DEF Filed
<1>2. estado(f) = historial[f][Len(historial[f])].nuevo /\ estado(f) \in Estados
  <2>1. historial[f][Len(historial[f])] \in HistorialEntry
    BY <1>1
  <2> QED
    BY <2>1 DEF estado, Last, HistorialEntry
<1>3. ToRow(f, p) = [folio |-> f, estado |-> estado(f), handler |-> Handler(historial[f]), page |-> p]
  BY DEF ToRow
<1>4. Handler(historial[f]) \in Users \cup {Nobody}
  BY <1>1, HandlerFacts
<1>5. ToRow(f, p) \in SolicitudRow
  BY <1>1, <1>2, <1>3, <1>4 DEF SolicitudRow
<1>6. FromEntries(ToRow(f, p), Len(historial[f]), Len(historial[f]))
  BY <1>1, <1>2, <1>3, HandlerFacts DEF FromEntries
<1> QED
  BY <1>1, <1>3, <1>5, <1>6

\* An export lists what matches, each folio once.
LEMMA ExportFacts ==
  ASSUME NEW q
  PROVE  LET r == AllRows(q)
         IN  /\ r = [i \in 1 .. Cardinality(Matching(q)) |-> r[i]]
             /\ \A i \in DOMAIN r : r[i].folio \in Matching(q) /\ r[i] = ToRow(r[i].folio, 1)
             /\ \A f \in Matching(q) : \E i \in DOMAIN r : r[i].folio = f
<1>1. PICK fs \in SUBSET Folios : fs = Matching(q)
  BY MatchingFacts
<1>2. Cardinality(fs) \in Nat /\ DOMAIN Ordered(fs) = 1 .. Cardinality(fs)
  BY SubsetsAreFinite DEF Ordered
<1>3. AllRows(q) = [i \in 1 .. Cardinality(fs) |-> ToRow(Ordered(fs)[i], 1)]
  BY <1>1, <1>2 DEF AllRows
<1>4. \A i \in 1 .. Cardinality(fs) : Ordered(fs)[i] \in fs
  BY OrderedFacts
<1>5. \A f \in fs : Position(f, fs) \in 1 .. Cardinality(fs) /\ Ordered(fs)[Position(f, fs)] = f
  BY <1>2, PlaceFacts, OrderedFacts
<1>6. \A f, p : ToRow(f, p).folio = f
  BY DEF ToRow
<1> QED
  BY <1>1, <1>3, <1>4, <1>5, <1>6

-----------------------------------------------------------------------------
(* Filters and dates.                                                      *)

\* The links of the report list ask for what was asked for first.
LEMMA ReportListKeepsItsFilter ==
  ASSUME NEW q \in Query, q.view = "list", NEW p \in Nat
  PROVE  Filter(PageQuery(q, p)) = Filter(q)
<1>1. CASE p = 1
  BY <1>1 DEF PageQuery
<1>2. CASE p # 1
  <2>1. Filter(q) = ParseReportFilter(q.params)
    BY DEF Filter, Reports
  <2>2. PICK fl : fl = ParseReportFilter(q.params)
    OBVIOUS
  <2>3. PageQuery(q, p).view = "list" /\ PageQuery(q, p).params = QuerystringFor(fl)
    BY <1>2, <2>1, <2>2 DEF PageQuery, Query
  <2>4. Filter(PageQuery(q, p)) = ParseReportFilter(QuerystringFor(fl))
    BY <2>3 DEF Filter, Reports
  <2>5. q.params.from \in Nat /\ q.params.to \in Nat
    BY DEF Query, Params
  <2>6. /\ fl = [estado |-> fl.estado, role |-> fl.role, text |-> Folios, from |-> fl.from, to |-> fl.to]
        /\ fl.estado # Malformed /\ fl.role # Malformed
        /\ fl.from # BadDate /\ fl.to # BadDate /\ fl.from \in Nat /\ fl.to \in Nat
        /\ ~(fl.from # NoDate /\ fl.to # NoDate /\ fl.from > fl.to)
    BY <2>2, <2>5 DEF ParseReportFilter, Absent, Malformed, NoDate, BadDate
  <2>7. ParseReportFilter(QuerystringFor(fl)) = fl
    BY <2>6 DEF ParseReportFilter, QuerystringFor, NoParams, Absent, Malformed, NoDate, BadDate
  <2> QED
    BY <2>1, <2>2, <2>4, <2>7
<1> QED
  BY <1>1, <1>2

\* With the same filter a later page reads the same list.
LEMMA SameFilterSameList ==
  ASSUME NEW q \in Query, NEW p \in Nat, Filter(PageQuery(q, p)) = Filter(q)
  PROVE  Matching(PageQuery(q, p)) = Matching(q)
<1>1. /\ PageQuery(q, p).view = q.view /\ PageQuery(q, p).actor = q.actor
      /\ PageQuery(q, p).role = q.role
  BY DEF PageQuery, Query
<1>2. \A f : InScope(PageQuery(q, p), f) <=> InScope(q, f)
  BY <1>1 DEF InScope
<1> QED
  BY <1>2 DEF Matching

\* The window of the chart begins on the first day of the month eleven months ago.
LEMMA WindowFacts ==
  ASSUME NEW x \in Nat, NEW w, w = DefaultMonthWindow(Today)
  PROVE  /\ w[1] \in Nat \ {0} /\ w[2] = Today /\ Today # 0
         /\ x <= Today =>
              (w[1] <= x <=> 12 * (Year(Today) - Year(x)) + Month(Today) - Month(x) <= 11)
<1>1. Today \in Nat /\ Today >= 744
  BY DateAssumption DEF MkDate
<1>2. ASSUME NEW t \in Nat
      PROVE  /\ Year(t) \in Nat /\ Month(t) \in 1 .. 12
             /\ 372 * Year(t) + 31 * (Month(t) - 1) <= t
             /\ t < 372 * Year(t) + 31 * Month(t)
  BY DEF Year, Month
<1>3. PICK y, m, z, k : y = Year(Today) /\ m = Month(Today) /\ z = Year(x) /\ k = Month(x)
  OBVIOUS
<1>4. /\ y \in Nat /\ m \in 1 .. 12 /\ z \in Nat /\ k \in 1 .. 12
       /\ 372 * y + 31 * (m - 1) <= Today /\ Today < 372 * y + 31 * m
       /\ 372 * z + 31 * (k - 1) <= x /\ x < 372 * z + 31 * k
  BY <1>1, <1>2, <1>3
<1>5. /\ w[1] = IF m - 11 <= 0 THEN 372 * (y - 1) + 31 * m ELSE 372 * y
      /\ w[2] = Today
  <2>1. w = <<IF m - 11 <= 0 THEN MkDate(y - 1, m - 11 + 12, 1) ELSE MkDate(y, m - 11, 1), Today>>
    BY <1>3 DEF DefaultMonthWindow
  <2>2. /\ MkDate(y - 1, m - 11 + 12, 1) = 372 * (y - 1) + 31 * m
        /\ m - 11 > 0 => MkDate(y, m - 11, 1) = 372 * y
    BY <1>4 DEF MkDate
  <2> QED
    BY <1>4, <2>1, <2>2
<1>6. w[1] \in Nat \ {0} /\ (w[1] <= x <=> 12 * (y - z) + m - k <= 11)
  BY <1>1, <1>4, <1>5
<1> QED
  BY <1>1, <1>3, <1>5, <1>6

\* The chart counts what matches and lies in its window.
LEMMA ChartFacts ==
  ASSUME NEW q \in Query, q.view \in {"dashboard", "pdf"}
  PROVE  InMonths(q) = Charted(q, Matching(q))
<1>1. \A f : InScope(q, f)
  BY DEF InScope
<1>2. Matching(q) = { f \in Filed : Passes(f, Filter(q)) }
  BY <1>1 DEF Matching
<1>3. CASE ~Open(q)
  BY <1>2, <1>3 DEF InMonths, MonthFilter, Charted, Open
<1>4. CASE Open(q)
  <2>1. PICK w : w = DefaultMonthWindow(Today)
    OBVIOUS
  <2>2. PICK fl, ml : fl = Filter(q) /\ ml = [fl EXCEPT !.from = w[1], !.to = w[2]]
    OBVIOUS
  <2>3. fl.from = NoDate /\ fl.to = NoDate /\ MonthFilter(q) = ml
    BY <1>4, <2>1, <2>2 DEF Open, MonthFilter
  <2>4. DOMAIN fl = {"estado", "role", "text", "from", "to"}
    BY <2>2 DEF Filter, ParseReportFilter, Reports
  <2>5. /\ ml.estado = fl.estado /\ ml.role = fl.role /\ ml.text = fl.text
        /\ ml.from = w[1] /\ ml.to = w[2]
    BY <2>2, <2>4
  <2>6. ASSUME NEW f \in Filed
        PROVE  Passes(f, ml) <=> Passes(f, fl) /\ Recent(f)
    <3>1. FiledOn[f] \in Nat /\ Today \in Nat
      BY DateAssumption DEF Filed
    <3>2. /\ w[1] \in Nat \ {0} /\ w[2] = Today /\ Today # 0
          /\ FiledOn[f] <= Today => (w[1] <= FiledOn[f] <=> Recent(f))
      BY <2>1, <3>1, WindowFacts DEF Recent
    <3>3. Recent(f) => FiledOn[f] <= Today
      BY DEF Recent
    <3>4. /\ Passes(f, fl) <=> /\ fl.estado # Absent => estado(f) = fl.estado
                               /\ f \in fl.text
                               /\ fl.role # Absent => responsible[TipoOf[f]] = fl.role
          /\ Passes(f, ml) <=> /\ fl.estado # Absent => estado(f) = fl.estado
                               /\ f \in fl.text
                               /\ FiledOn[f] >= w[1] /\ FiledOn[f] <= Today
                               /\ fl.role # Absent => responsible[TipoOf[f]] = fl.role
      BY <2>3, <2>5, <3>2 DEF Passes, NoDate
    <3> QED
      BY <3>1, <3>2, <3>3, <3>4
  <2> QED
    BY <1>2, <1>4, <2>2, <2>3, <2>6 DEF InMonths, Charted
<1> QED
  BY <1>3, <1>4

-----------------------------------------------------------------------------
(* One reader at a time.                                                   *)

LEMMA Sizes ==
  ASSUME NEW S, NEW T \in SUBSET Folios, S \subseteq T
  PROVE  Cardinality(S) \in Nat /\ Cardinality(T) \in Nat /\ Cardinality(S) <= Cardinality(T)
  BY SubsetsAreFinite, FS_Subset

\* Nothing of d changes.
Unmoved(d) ==
  /\ at'[d] = at[d] /\ query'[d] = query[d] /\ page'[d] = page[d] /\ total'[d] = total[d]
  /\ counts'[d] = counts[d] /\ rows'[d] = rows[d]
  /\ stayed'[d] = stayed[d] /\ entered'[d] = entered[d] /\ left'[d] = left[d]

\* What a list reads of unchanged tables.
LEMMA SameTables ==
  ASSUME UNCHANGED tables, NEW d, NEW q, query'[d] = q
  PROVE  Sees(d)' = Matching(q)
<1>1. historial' = historial /\ responsible' = responsible
  BY DEF tables
<1>2. Filed' = Filed
  BY <1>1 DEF Filed
<1>3. ASSUME NEW f
      PROVE  InScope(query[d], f)' <=> InScope(q, f)
  BY <1>1 DEF InScope
<1>4. Filter(query[d])' = Filter(q)
  BY DEF Filter
<1>5. ASSUME NEW f
      PROVE  Passes(f, Filter(query[d]))' <=> Passes(f, Filter(q))
  BY <1>1, <1>4 DEF Passes, estado, Last
<1> QED
  BY <1>2, <1>3, <1>5 DEF Sees, Matching

\* How far a walk is depends on these alone.
LEMMA SameWalk ==
  ASSUME NEW d, query'[d] = query[d]
  PROVE  /\ page'[d] = page[d] => (OneWalk(d)' <=> OneWalk(d))
         /\ Filter(query[d])' = Filter(query[d])
         /\ \A fs : Charted(query[d], fs)' = Charted(query[d], fs)
<1>1. \A p : PageQuery(query[d], p)' = PageQuery(query[d], p)
  BY DEF PageQuery
<1>2. Filter(query[d])' = Filter(query[d])
  BY DEF Filter
<1>3. \A p : Filter(PageQuery(query[d], p))' = Filter(PageQuery(query[d], p))
  BY <1>1 DEF Filter
<1>4. page'[d] = page[d] => (OneFilter(d)' <=> OneFilter(d))
  BY <1>2, <1>3 DEF OneFilter
<1> QED
  BY <1>2, <1>4 DEF OneWalk, Charted, Open

\* The rows of f are only added to.
Extends(f) ==
  \A i \in DOMAIN historial[f] : i \in DOMAIN historial'[f] /\ historial'[f][i] = historial[f][i]

\* What a row says of entries that stay, it says later.
LEMMA EntriesStay ==
  ASSUME ReportesTypeOK, NEW row, row.folio \in Folios, Extends(row.folio),
         NEW m \in DOMAIN historial[row.folio], NEW n \in DOMAIN historial[row.folio],
         FromEntries(row, m, n)
  PROVE  FromEntries(row, m, n)' /\ {m, n} \subseteq DOMAIN historial'[row.folio]
<1> DEFINE f == row.folio
<1>1. DOMAIN historial[f] = 1 .. Len(historial[f]) /\ Len(historial[f]) \in Nat
  <2>1. historial[f] \in Seq(HistorialEntry)
    BY DEF ReportesTypeOK
  <2> QED
    BY <2>1
<1>2. \A i \in 1 .. n : i \in DOMAIN historial[f]
  BY <1>1
<1>3. \A i \in 1 .. n : historial'[f][i] = historial[f][i]
  BY <1>2 DEF Extends
<1>4. \A i \in 1 .. n : \A j \in i + 1 .. n : j \in 1 .. n
  BY <1>1
<1>5. TookLast(f, n, row.handler)'
  BY <1>3, <1>4 DEF FromEntries, TookLast
<1> QED
  BY <1>5 DEF FromEntries, Extends

LEMMA RowsStay ==
  ASSUME ReportesTypeOK, \A f \in Folios : Extends(f), NEW d \in Readers, RowsFromEntries(d),
         at'[d] = at[d], query'[d] = query[d], rows'[d] = rows[d]
  PROVE  RowsFromEntries(d)'
<1>1. \A k \in DOMAIN rows[d] : rows[d][k].folio \in Folios
  <2>1. rows[d] \in Seq(SolicitudRow)
    BY DEF ReportesTypeOK
  <2>2. \A row \in SolicitudRow : row.folio \in Folios
    BY DEF SolicitudRow
  <2> QED
    BY <2>1, <2>2
<1>2. query[d].folio \in Folios
  BY QueryAssumption DEF ReportesTypeOK, Query
<1>3. ASSUME at[d] \in {"counted", "paged", "done"}, NEW k \in DOMAIN rows[d]
      PROVE  \E m, n \in DOMAIN historial'[rows[d][k].folio] :
               /\ FromEntries(rows[d][k], m, n)'
               /\ IF query[d].view \in Details THEN m <= n ELSE m = n
  <2>1. PICK row : row = rows[d][k] /\ row.folio \in Folios
    BY <1>1
  <2>2. PICK m \in DOMAIN historial[row.folio], n \in DOMAIN historial[row.folio] :
          /\ FromEntries(row, m, n)
          /\ IF query[d].view \in Details THEN m <= n ELSE m = n
    BY <1>3, <2>1 DEF RowsFromEntries
  <2>3. FromEntries(row, m, n)' /\ {m, n} \subseteq DOMAIN historial'[row.folio]
    BY <2>1, <2>2, EntriesStay
  <2>4. FromEntries(rows[d][k], m, n)'
    BY <2>1, <2>3 DEF FromEntries, TookLast
  <2> QED
    BY <2>1, <2>2, <2>3, <2>4
<1>4. ASSUME at[d] = "row"
      PROVE  \E m \in DOMAIN historial'[query[d].folio] :
               rows[d] = <<[folio |-> query[d].folio, estado |-> historial'[query[d].folio][m].nuevo,
                            handler |-> Nobody, page |-> 1]>>
  BY <1>2, <1>4 DEF RowsFromEntries, Extends
<1> QED
  BY <1>3, <1>4 DEF RowsFromEntries

LEMMA KeptReader ==
  ASSUME ReportesTypeOK, UNCHANGED tables, NEW d \in Readers, Reading(d), Unmoved(d)
  PROVE  Reading(d)'
<1>1. /\ Sees(d)' = Sees(d) /\ Some(d)' = Some(d) /\ Shown(d)' = Shown(d)
      /\ Pages(d)' = Pages(d) /\ (OneWalk(d)' <=> OneWalk(d))
  BY SameTables, SameWalk DEF Unmoved, Sees, Some, Shown, Pages
<1>2. \A f : Place(f, d)' = Place(f, d)
  BY <1>1 DEF Place, Position
<1>3. Stages(d)'
  BY DEF Unmoved, Reading, Stages
<1>4. RowsFromEntries(d)'
  BY RowsStay DEF Unmoved, Reading, Extends, tables
<1>5. Moves(d)'
  BY <1>1 DEF Unmoved, Reading, Moves, Watching
<1>6. (NothingMissed(d)' <=> NothingMissed(d)) /\ (NothingAgain(d)' <=> NothingAgain(d))
  BY <1>1, <1>2 DEF Unmoved, NothingMissed, NothingAgain
<1>7. ShownOnce(d)' <=> ShownOnce(d)
  BY DEF Unmoved, ShownOnce
<1>8. Walk(d)'
  BY <1>1, <1>6, <1>7 DEF Unmoved, Reading, Walk
<1>9. Figures(d)'
  BY <1>1, SameWalk DEF Unmoved, Reading, Figures
<1> QED
  BY <1>3, <1>4, <1>5, <1>8, <1>9 DEF Reading

\* A step of d alone: the invariant is that of d and of what nobody shares.
LEMMA OnlyReader ==
  ASSUME ReportesIInv, UNCHANGED tables, ReportesTypeOK', NEW d \in Readers, Reading(d)',
         \A e \in Readers \ {d} : Unmoved(e)
  PROVE  ReportesIInv'
<1>1. \A e \in Readers : Reading(e)'
  BY KeptReader DEF ReportesIInv
<1>2. TakenBeforeFinished'
  BY DEF ReportesIInv, TakenBeforeFinished, tables
<1> QED
  BY <1>1, <1>2 DEF ReportesIInv

-----------------------------------------------------------------------------
(* A commit, and what a reader under way makes of it.                      *)

\* A historial is begun, or added to along the matrix; none is rewritten.
LEMMA CommitFacts ==
  ASSUME ReportesTypeOK, TakenBeforeFinished,
         \/ \E f \in Folios : File(f) \/ Transition(f)
         \/ \E t \in Tipos : EditTipo(t)
  PROVE  /\ historial' \in [Folios -> Seq(HistorialEntry)]
         /\ responsible' \in [Tipos -> CatalogueRoles]
         /\ TakenBeforeFinished' /\ \A f \in Folios : Extends(f)
<1>1. /\ historial \in [Folios -> Seq(HistorialEntry)]
      /\ responsible \in [Tipos -> CatalogueRoles]
  BY DEF ReportesTypeOK
<1>2. ASSUME NEW f \in Folios, File(f)
      PROVE  /\ historial' \in [Folios -> Seq(HistorialEntry)] /\ UNCHANGED responsible
             /\ TakenBeforeFinished' /\ \A g \in Folios : Extends(g)
  <2>1. PICK e : e = [nuevo |-> "CREADA", actor |-> Owner[f]]
    OBVIOUS
  <2>2. /\ e \in HistorialEntry /\ e.nuevo = "CREADA" /\ historial[f] = <<>>
        /\ historial' = [historial EXCEPT ![f] = <<e>>] /\ UNCHANGED responsible
    BY <1>2, <2>1, RowAssumption DEF File, Filing, Filed, HistorialEntry, Estados
  <2>3. /\ historial'[f] = <<e>> /\ DOMAIN historial'[f] = {1} /\ historial'[f][1] = e
        /\ \A g \in Folios \ {f} : historial'[g] = historial[g]
    BY <1>1, <2>2
  <2>4. TakenBeforeFinished'
    BY <2>2, <2>3 DEF TakenBeforeFinished
  <2>5. \A g \in Folios : Extends(g)
    BY <2>2, <2>3 DEF Extends
  <2> QED
    BY <1>1, <2>2, <2>4, <2>5
<1>3. ASSUME NEW f \in Folios, Transition(f)
      PROVE  /\ historial' \in [Folios -> Seq(HistorialEntry)] /\ UNCHANGED responsible
             /\ TakenBeforeFinished' /\ \A g \in Folios : Extends(g)
  <2>1. PICK t \in DOMAIN TRANSITIONS, u \in Users :
          /\ \E i \in DOMAIN historial[f] : historial[f][i].nuevo = t[1]
          /\ historial' = [historial EXCEPT ![f] = Append(@, [nuevo |-> TRANSITIONS[t], actor |-> u])]
    BY <1>3 DEF Transition
  <2>2. PICK e, h : e = [nuevo |-> TRANSITIONS[t], actor |-> u] /\ h = historial[f]
    OBVIOUS
  <2>3. /\ TRANSITIONS[t] \in Estados
        /\ TRANSITIONS[t] = "FINALIZADA" => t[1] = "EN_PROCESO"
    BY DEF TRANSITIONS, Estados
  <2>4. /\ e \in HistorialEntry /\ h \in Seq(HistorialEntry)
        /\ historial' = [historial EXCEPT ![f] = Append(h, e)]
    BY <1>1, <2>1, <2>2, <2>3 DEF HistorialEntry
  <2>5. /\ historial'[f] = Append(h, e)
        /\ \A g \in Folios \ {f} : historial'[g] = historial[g]
    BY <1>1, <2>4
  <2>6. /\ DOMAIN h = 1 .. Len(h) /\ Len(h) \in Nat /\ DOMAIN Append(h, e) = 1 .. Len(h) + 1
        /\ \A i \in DOMAIN h : Append(h, e)[i] = h[i]
        /\ Append(h, e)[Len(h) + 1] = e
    BY <2>4
  <2>7. TakenBeforeFinished'
    <3>1. ASSUME NEW i \in DOMAIN Append(h, e), Append(h, e)[i].nuevo = "FINALIZADA"
          PROVE  \E j \in 1 .. i - 1 : Append(h, e)[j].nuevo = "EN_PROCESO"
      <4>1. CASE i \in DOMAIN h
        <5>1. PICK j \in 1 .. i - 1 : h[j].nuevo = "EN_PROCESO"
          BY <2>2, <2>6, <3>1, <4>1 DEF TakenBeforeFinished
        <5> QED
          BY <2>6, <4>1, <5>1
      <4>2. CASE i = Len(h) + 1
        <5>1. e.nuevo = "FINALIZADA"
          BY <2>6, <3>1, <4>2
        <5>2. PICK j \in DOMAIN h : h[j].nuevo = "EN_PROCESO"
          BY <2>1, <2>2, <2>3, <5>1
        <5> QED
          BY <2>6, <4>2, <5>2
      <4> QED
        BY <2>6, <4>1, <4>2
    <3>2. ASSUME NEW g \in Folios, NEW i \in DOMAIN historial'[g], historial'[g][i].nuevo = "FINALIZADA"
          PROVE  \E j \in 1 .. i - 1 : historial'[g][j].nuevo = "EN_PROCESO"
      <4>1. CASE g = f
        BY <2>5, <3>1, <3>2, <4>1
      <4>2. CASE g # f
        BY <2>5, <3>2, <4>2 DEF TakenBeforeFinished
      <4> QED
        BY <4>1, <4>2
    <3> QED
      BY <3>2 DEF TakenBeforeFinished
  <2>8. \A g \in Folios : Extends(g)
    BY <2>2, <2>5, <2>6 DEF Extends
  <2>9. historial' \in [Folios -> Seq(HistorialEntry)] /\ UNCHANGED responsible
    BY <1>1, <1>3, <2>4 DEF Transition
  <2> QED
    BY <2>7, <2>8, <2>9
<1>4. ASSUME NEW t \in Tipos, EditTipo(t)
      PROVE  UNCHANGED historial /\ responsible' \in [Tipos -> CatalogueRoles]
  BY <1>1, <1>4 DEF EditTipo
<1> QED
  BY <1>1, <1>2, <1>3, <1>4 DEF TakenBeforeFinished, Extends

\* The watch of d after a commit.
LEMMA WatchFacts ==
  ASSUME ReportesTypeOK, Meanwhile, NEW d \in Readers
  PROVE  /\ at'[d] = at[d] /\ query'[d] = query[d] /\ page'[d] = page[d] /\ total'[d] = total[d]
         /\ counts'[d] = counts[d] /\ rows'[d] = rows[d]
         /\ Watching(d) =>
              /\ stayed'[d] = stayed[d] \ (Sees(d) \ Sees(d)')
              /\ left'[d] = left[d] \cup (Sees(d) \ Sees(d)')
              /\ entered'[d] = entered[d] \cup (Sees(d)' \ Sees(d))
         /\ ~Watching(d) => stayed'[d] = stayed[d] /\ left'[d] = left[d] /\ entered'[d] = entered[d]
         /\ stayed'[d] \subseteq stayed[d] /\ left[d] \subseteq left'[d]
         /\ entered[d] \subseteq entered'[d] /\ Some(d) \subseteq Some(d)'
         /\ stayed'[d] \in SUBSET Folios /\ left'[d] \in SUBSET Folios /\ entered'[d] \in SUBSET Folios
<1>1. UNCHANGED <<at, query, page, total, counts, rows>>
  BY DEF Meanwhile
<1>2. /\ stayed'[d] = IF Watching(d) THEN stayed[d] \ (Sees(d) \ Sees(d)') ELSE stayed[d]
      /\ left'[d] = IF Watching(d) THEN left[d] \cup (Sees(d) \ Sees(d)') ELSE left[d]
      /\ entered'[d] = IF Watching(d) THEN entered[d] \cup (Sees(d)' \ Sees(d)) ELSE entered[d]
  BY DEF Meanwhile, Watch
<1>3. Sees(d) \subseteq Folios /\ Sees(d)' \subseteq Folios
  BY DEF Sees, Matching, Filed
<1>4. stayed[d] \subseteq Folios /\ left[d] \subseteq Folios /\ entered[d] \subseteq Folios
  BY DEF ReportesTypeOK
<1>5. Some(d) \subseteq Some(d)'
  BY <1>2 DEF Some
<1> QED
  BY <1>1, <1>2, <1>3, <1>4, <1>5

\* A folio keeps its place in a walk when nothing newer moves, and moves forward
\* only when something newer leaves.
LEMMA PlaceStays ==
  ASSUME ReportesTypeOK, Meanwhile, NEW d \in Readers, Watching(d), NEW f \in Folios
  PROVE  /\ Newer(f) \cap (left'[d] \cup entered'[d]) = {} => Place(f, d)' = Place(f, d)
         /\ Newer(f) \cap entered'[d] = {} => Place(f, d)' <= Place(f, d)
         /\ Place(f, d) \in Nat /\ Place(f, d)' \in Nat
<1>1. PICK s, z : s = Sees(d) /\ z = Sees(d)'
  OBVIOUS
<1>2. s \in SUBSET Folios /\ z \in SUBSET Folios
  BY <1>1 DEF Sees, Matching, Filed
<1>3. Place(f, d) = Position(f, s) /\ Place(f, d)' = Position(f, z)
  BY <1>1 DEF Place, Position
<1>4. left'[d] = left[d] \cup (s \ z) /\ entered'[d] = entered[d] \cup (z \ s)
  BY <1>1, WatchFacts
<1>5. ASSUME Newer(f) \cap (left'[d] \cup entered'[d]) = {}
      PROVE  Position(f, z) = Position(f, s)
  <2>1. z \cap Newer(f) = s \cap Newer(f)
    BY <1>4, <1>5
  <2> QED
    BY <2>1 DEF Position
<1>6. ASSUME Newer(f) \cap entered'[d] = {}
      PROVE  Position(f, z) <= Position(f, s)
  <2>1. z \cap Newer(f) \subseteq s \cap Newer(f) /\ s \cap Newer(f) \in SUBSET Folios
    BY <1>2, <1>4, <1>6
  <2>2. /\ Cardinality(z \cap Newer(f)) \in Nat /\ Cardinality(s \cap Newer(f)) \in Nat
        /\ Cardinality(z \cap Newer(f)) <= Cardinality(s \cap Newer(f))
    BY <2>1, Sizes
  <2> QED
    BY <2>2 DEF Position
<1> QED
  BY <1>2, <1>3, <1>5, <1>6, PlaceFacts

LEMMA MeanwhileReading ==
  ASSUME ReportesIInv, Meanwhile, NEW d \in Readers
  PROVE  Reading(d)'
<1>1. ReportesTypeOK /\ TakenBeforeFinished /\ Reading(d)
  BY DEF ReportesIInv
<1>2. \A f \in Folios : Extends(f)
  BY <1>1, CommitFacts DEF Meanwhile
<1>3. /\ at'[d] = at[d] /\ query'[d] = query[d] /\ page'[d] = page[d] /\ total'[d] = total[d]
      /\ counts'[d] = counts[d] /\ rows'[d] = rows[d]
  BY <1>1, WatchFacts
<1>4. /\ stayed'[d] \subseteq stayed[d] /\ left[d] \subseteq left'[d] /\ entered[d] \subseteq entered'[d]
      /\ Some(d) \subseteq Some(d)' /\ stayed[d] \in SUBSET Folios /\ Some(d)' \in SUBSET Folios
      /\ ~Watching(d) => stayed'[d] = stayed[d] /\ left'[d] = left[d] /\ entered'[d] = entered[d]
  BY <1>1, WatchFacts DEF ReportesTypeOK, Some
<1>5. Stages(d)'
  BY <1>1, <1>3, <1>4 DEF Reading, Stages, Watching
<1>6. RowsFromEntries(d)'
  BY <1>1, <1>2, <1>3, RowsStay DEF Reading
<1>7. Moves(d)'
  BY <1>1, <1>3, WatchFacts DEF Reading, Moves, Watching, Some
<1>8. Walk(d)'
  <2> SUFFICES ASSUME OneWalk(d)
               PROVE  /\ ShownOnce(d)'
                      /\ at[d] \in {"counted", "paged"} => NothingMissed(d)' /\ NothingAgain(d)'
                      /\ at[d] = "done" =>
                           \A f \in stayed'[d] \ Shown(d) : Newer(f) \cap (left'[d] \cup entered'[d]) # {}
    BY <1>3, SameWalk DEF Walk, Shown
  <2>1. /\ ShownOnce(d)
        /\ at[d] \in {"counted", "paged"} => NothingMissed(d) /\ NothingAgain(d)
        /\ at[d] = "done" => \A f \in stayed[d] \ Shown(d) : Newer(f) \cap (left[d] \cup entered[d]) # {}
    BY <1>1 DEF Reading, Walk
  <2>2. ShownOnce(d)'
    BY <1>3, <1>4, <2>1 DEF ShownOnce
  <2>3. ASSUME at[d] \in {"counted", "paged"}
        PROVE  NothingMissed(d)' /\ NothingAgain(d)'
    <3>1. Watching(d) /\ NothingMissed(d) /\ NothingAgain(d)
      BY <2>1, <2>3 DEF Watching
    <3>2. Pages(d)' = Pages(d) /\ Shown(d)' = Shown(d) /\ Pages(d) * PageSize \in Nat
      <4>1. Pages(d) \in Nat
        BY <1>1 DEF Pages, ReportesTypeOK
      <4> QED
        BY <1>3, <4>1, PageAssumption DEF Pages, Shown
    <3>3. Shown(d) \subseteq Folios
      <4>1. rows[d] \in Seq(SolicitudRow) /\ \A row \in SolicitudRow : row.folio \in Folios
        BY <1>1 DEF ReportesTypeOK, SolicitudRow
      <4> QED
        BY <4>1 DEF Shown
    <3>4. ASSUME NEW f \in stayed'[d], Newer(f) \cap (left'[d] \cup entered'[d]) = {}
          PROVE  /\ Place(f, d)' <= total[d]
                 /\ f \in Shown(d) \/ Pages(d) * PageSize < Place(f, d)'
      <4>1. f \in stayed[d] /\ f \in Folios /\ Newer(f) \cap (left[d] \cup entered[d]) = {}
        BY <1>4, <3>4
      <4>2. Place(f, d)' = Place(f, d)
        BY <1>1, <3>1, <3>4, <4>1, PlaceStays
      <4> QED
        BY <3>1, <4>1, <4>2 DEF NothingMissed
    <3>5. NothingMissed(d)'
      BY <1>3, <3>2, <3>4 DEF NothingMissed
    <3>6. ASSUME NEW f \in Shown(d), Newer(f) \cap entered'[d] = {}
          PROVE  Place(f, d)' <= Pages(d) * PageSize
      <4>1. f \in Folios /\ Newer(f) \cap entered[d] = {}
        BY <1>4, <3>3, <3>6
      <4>2. Place(f, d)' <= Place(f, d) /\ Place(f, d) \in Nat /\ Place(f, d)' \in Nat
        BY <1>1, <3>1, <3>6, <4>1, PlaceStays
      <4>3. Place(f, d) <= Pages(d) * PageSize
        BY <3>1, <3>6, <4>1 DEF NothingAgain
      <4> QED
        BY <3>2, <4>2, <4>3
    <3>7. NothingAgain(d)'
      BY <1>3, <3>2, <3>6 DEF NothingAgain
    <3> QED
      BY <3>5, <3>7
  <2> QED
    BY <1>4, <2>1, <2>2, <2>3
<1>9. Figures(d)'
  <2> SUFFICES ASSUME query[d].view \in {"dashboard", "pdf"}
               PROVE  Figures(d)'
    BY <1>3 DEF Figures
  <2>1. \A fs : Charted(query[d], fs)' = Charted(query[d], fs)
    BY <1>3, SameWalk
  <2>2. /\ Charted(query[d], stayed[d]) \in SUBSET Folios
        /\ Charted(query[d], stayed'[d]) \subseteq Charted(query[d], stayed[d])
        /\ Charted(query[d], Some(d)') \in SUBSET Folios
        /\ Charted(query[d], Some(d)) \subseteq Charted(query[d], Some(d)')
    BY <1>4 DEF Charted
  <2>3. Charted(query[d], stayed[d])' = Charted(query[d], stayed'[d])
    BY <1>3, SameWalk DEF Charted, Open
  <2>4. Charted(query[d], Some(d))' = Charted(query[d], Some(d)')
    BY <1>3, SameWalk DEF Charted, Open
  <2>5. PICK a, b, c, e, a2, b2, c2, e2 :
          /\ a = Cardinality(stayed[d]) /\ a2 = Cardinality(stayed'[d])
          /\ b = Cardinality(Some(d)) /\ b2 = Cardinality(Some(d)')
          /\ c = Cardinality(Charted(query[d], stayed[d])) /\ c2 = Cardinality(Charted(query[d], stayed'[d]))
          /\ e = Cardinality(Charted(query[d], Some(d))) /\ e2 = Cardinality(Charted(query[d], Some(d)'))
    OBVIOUS
  <2>6. /\ a \in Nat /\ a2 \in Nat /\ a2 <= a /\ b \in Nat /\ b2 \in Nat /\ b <= b2
        /\ c \in Nat /\ c2 \in Nat /\ c2 <= c /\ e \in Nat /\ e2 \in Nat /\ e <= e2
    BY <1>4, <2>2, <2>5, Sizes
  <2>7. Cardinality(Some(d))' = b2 /\ Cardinality(stayed[d])' = a2
    BY <2>5
  <2>8. Shown(d)' = Shown(d)
    BY <1>3 DEF Shown
  <2>9. Figures(d)
    BY <1>1 DEF Reading
  <2>10. total[d] \in a .. b => total[d] \in a2 .. b2
    BY <2>6
  <2>11. counts[d].byTipo \in a .. b => counts[d].byTipo \in a2 .. b2
    BY <2>6
  <2>12. counts[d].byMonth \in c .. e => counts[d].byMonth \in c2 .. e2
    BY <2>6
  <2>13. b > RowCap => b2 > RowCap
    BY <2>6, PageAssumption
  <2> QED
    BY <1>3, <1>4, <2>3, <2>4, <2>5, <2>7, <2>8, <2>9, <2>10, <2>11, <2>12, <2>13 DEF Figures
<1> QED
  BY <1>5, <1>6, <1>7, <1>8, <1>9 DEF Reading

-----------------------------------------------------------------------------
(* One GET.                                                                *)

\* The first query of a GET.
LEMMA OpensFacts ==
  ASSUME ReportesIInv, UNCHANGED tables, NEW d \in Readers, NEW q \in Queries, NEW view,
         Opens(d, q, view)
  PROVE  /\ at[d] = "idle" /\ page[d] = 1 /\ rows[d] = <<>> /\ q \in Query /\ q.view \in view
         /\ query' \in [Readers -> Queries] /\ stayed' \in [Readers -> SUBSET Folios]
         /\ query'[d] = q /\ stayed'[d] = Matching(q) /\ entered' = entered /\ left' = left
         /\ entered'[d] = {} /\ left'[d] = {}
         /\ Sees(d)' = Matching(q) /\ Some(d)' = Matching(q) /\ Matching(q) \in SUBSET Folios
         /\ \A e \in Readers \ {d} : query'[e] = query[e] /\ stayed'[e] = stayed[e]
<1>1. ReportesTypeOK /\ Stages(d)
  BY DEF ReportesIInv, Reading
<1>2. Matching(q) \in SUBSET Folios
  BY MatchingFacts
<1>3. /\ query' = [query EXCEPT ![d] = q] /\ stayed' = [stayed EXCEPT ![d] = Matching(q)]
      /\ entered' = entered /\ left' = left /\ at[d] = "idle" /\ q.view \in view
  BY DEF Opens
<1>4. /\ query' \in [Readers -> Queries] /\ stayed' \in [Readers -> SUBSET Folios]
      /\ query'[d] = q /\ stayed'[d] = Matching(q)
      /\ \A e \in Readers \ {d} : query'[e] = query[e] /\ stayed'[e] = stayed[e]
  BY <1>1, <1>2, <1>3 DEF ReportesTypeOK
<1>5. page[d] = 1 /\ rows[d] = <<>> /\ entered'[d] = {} /\ left'[d] = {}
  BY <1>1, <1>3 DEF Stages
<1>6. Sees(d)' = Matching(q)
  BY <1>4, SameTables
<1>7. Some(d)' = Matching(q)
  BY <1>4, <1>5 DEF Some
<1> QED
  BY <1>2, <1>3, <1>4, <1>5, <1>6, <1>7, QueryAssumption

LEMMA RefuseInv ==
  ASSUME ReportesIInv, UNCHANGED tables, NEW d \in Readers, Refuse(d)
  PROVE  ReportesIInv'
<1>1. ReportesTypeOK /\ Stages(d)
  BY DEF ReportesIInv, Reading
<1>2. PICK q \in Queries : query' = [query EXCEPT ![d] = q]
  BY DEF Refuse
<1>3. /\ at[d] = "idle" /\ at' = [at EXCEPT ![d] = "refused"]
      /\ UNCHANGED <<page, total, counts, rows, stayed, entered, left>>
  BY DEF Refuse
<1>4. ReportesTypeOK'
  BY <1>1, <1>2, <1>3 DEF ReportesTypeOK, tables
<1>5. at'[d] = "refused" /\ rows'[d] = <<>>
  BY <1>1, <1>3 DEF ReportesTypeOK, Stages
<1>6. Reading(d)'
  BY <1>5 DEF Reading, Stages, RowsFromEntries, Moves, Watching, Walk, ShownOnce, Figures
<1>7. \A e \in Readers \ {d} : Unmoved(e)
  BY <1>1, <1>2, <1>3 DEF ReportesTypeOK, Unmoved
<1> QED
  BY <1>4, <1>6, <1>7, OnlyReader

LEMMA CountFirstInv ==
  ASSUME ReportesIInv, UNCHANGED tables, NEW d \in Readers, CountFirst(d)
  PROVE  ReportesIInv'
<1>1. ReportesTypeOK
  BY DEF ReportesIInv
<1>2. PICK q \in Queries :
        /\ Opens(d, q, Lists)
        /\ total' = [total EXCEPT ![d] = Cardinality(Matching(q))]
        /\ at' = [at EXCEPT ![d] = "counted"]
        /\ UNCHANGED <<page, counts, rows>>
  BY DEF CountFirst
<1>3. PICK fs \in SUBSET Folios : fs = Matching(q)
  BY MatchingFacts
<1>4. /\ page[d] = 1 /\ rows[d] = <<>> /\ q.view \in Lists
      /\ query' \in [Readers -> Queries] /\ stayed' \in [Readers -> SUBSET Folios]
      /\ query'[d] = q /\ stayed'[d] = fs /\ entered' = entered /\ left' = left
      /\ Sees(d)' = fs /\ Some(d)' = fs
      /\ \A e \in Readers \ {d} : query'[e] = query[e] /\ stayed'[e] = stayed[e]
  BY <1>2, <1>3, OpensFacts
<1>5. Cardinality(fs) \in Nat
  BY SubsetsAreFinite
<1>6. ReportesTypeOK'
  BY <1>1, <1>2, <1>3, <1>4, <1>5 DEF ReportesTypeOK, tables
<1>7. at'[d] = "counted" /\ total'[d] = Cardinality(fs) /\ page'[d] = 1 /\ rows'[d] = <<>>
  BY <1>1, <1>2, <1>3, <1>4 DEF ReportesTypeOK
<1>8. Stages(d)' /\ RowsFromEntries(d)' /\ Moves(d)'
  BY <1>4, <1>7 DEF Stages, RowsFromEntries, Moves
<1>9. NothingMissed(d)'
  <2>1. Pages(d)' * PageSize = 0
    BY <1>7, PageAssumption DEF Pages
  <2>2. ASSUME NEW f \in fs
        PROVE  Place(f, d)' = Position(f, fs) /\ Position(f, fs) <= Cardinality(fs) /\ 0 < Position(f, fs)
    <3>1. Place(f, d)' = Position(f, fs)
      BY <1>4 DEF Place, Position
    <3> QED
      BY <3>1, PlaceFacts
  <2> QED
    BY <1>4, <1>7, <2>1, <2>2 DEF NothingMissed
<1>10. Walk(d)'
  BY <1>7, <1>9 DEF Walk, ShownOnce, NothingAgain, Shown
<1>11. Figures(d)'
  BY <1>4, <1>7 DEF Figures, Lists
<1>12. \A e \in Readers \ {d} : Unmoved(e)
  BY <1>1, <1>2, <1>4 DEF ReportesTypeOK, Unmoved
<1> QED
  BY <1>6, <1>8, <1>10, <1>11, <1>12, OnlyReader DEF Reading

\* No next page: the pages reach the total.
LEMMA LastPage ==
  ASSUME NEW p \in Nat, NEW n \in Nat, ~HasNext(p, n)
  PROVE  n <= p * PageSize
<1>1. PageSize \in Nat \ {0}
  BY PageAssumption
<1>2. PICK k \in Int : k = (n + PageSize - 1) \div PageSize
  BY <1>1
<1>3. n + PageSize - 1 < (k + 1) * PageSize
  BY <1>1, <1>2, Z3
<1>4. k <= p
  BY <1>2 DEF HasNext
<1>5. k * PageSize <= p * PageSize
  BY <1>1, <1>4
<1> QED
  BY <1>1, <1>2, <1>3, <1>5

\* The list of a walk with one filter is the same on every page.
LEMMA WalkReadsOneList ==
  ASSUME ReportesTypeOK, NEW d \in Readers, OneWalk(d)
  PROVE  \A p \in 1 .. page[d] : Matching(PageQuery(query[d], p)) = Sees(d)
<1>1. query[d] \in Query
  BY QueryAssumption DEF ReportesTypeOK
<1>2. ASSUME NEW p \in 1 .. page[d]
      PROVE  Filter(PageQuery(query[d], p)) = Filter(query[d])
  BY <1>1, ReportListKeepsItsFilter DEF OneWalk, OneFilter
<1> QED
  BY <1>1, <1>2, SameFilterSameList DEF Sees

\* Rows that each show one state of the tables as they still are.
LEMMA LaterRows ==
  ASSUME ReportesTypeOK, UNCHANGED tables, NEW d, at'[d] # "row",
         NEW all \in Seq(SolicitudRow), rows'[d] = all,
         \A k \in DOMAIN all : \E n \in DOMAIN historial[all[k].folio] : FromEntries(all[k], n, n)
  PROVE  RowsFromEntries(d)'
<1>1. historial' = historial
  BY DEF tables
<1>2. ASSUME NEW k \in DOMAIN all
      PROVE  \E n \in DOMAIN historial'[all[k].folio] : FromEntries(rows[d][k], n, n)' /\ n <= n
  <2>1. PICK row \in SolicitudRow : row = all[k] /\ row.folio \in Folios
    <3>1. all[k] \in SolicitudRow
      OBVIOUS
    <3>2. \A row \in SolicitudRow : row.folio \in Folios
      BY DEF SolicitudRow
    <3> QED
      BY <3>1, <3>2
  <2>2. PICK n \in DOMAIN historial[row.folio] : FromEntries(row, n, n)
    BY <2>1
  <2>3. FromEntries(rows[d][k], n, n)'
    BY <1>1, <2>1, <2>2 DEF FromEntries, TookLast
  <2>4. historial[row.folio] \in Seq(HistorialEntry)
    BY <2>1 DEF ReportesTypeOK
  <2>5. n \in Nat
    BY <2>4
  <2> QED
    BY <1>1, <2>1, <2>2, <2>3, <2>5
<1> QED
  BY <1>2 DEF RowsFromEntries

\* all is the a rows of old and then the b rows of r.
Joined(all, old, r, a, b) ==
  /\ DOMAIN old = 1 .. a /\ DOMAIN r = 1 .. b /\ DOMAIN all = 1 .. a + b
  /\ all \in Seq(SolicitudRow)
  /\ \A k \in 1 .. a : all[k] = old[k]
  /\ \A k \in a + 1 .. a + b : k - a \in 1 .. b /\ all[k] = r[k - a]

LEMMA JoinedRows ==
  ASSUME NEW old \in Seq(SolicitudRow), NEW r \in Seq(SolicitudRow)
  PROVE  \E a \in Nat, b \in Nat : Joined(old \o r, old, r, a, b)
<1>1. Joined(old \o r, old, r, Len(old), Len(r))
  BY DEF Joined
<1> QED
  BY <1>1

\* The walk after a page of it.
LEMMA PageOfWalk ==
  ASSUME ReportesIInv, UNCHANGED tables, NEW d \in Readers, SlicePage(d), OneWalk(d),
         Sees(d)' = Sees(d),
         NEW r \in Seq(SolicitudRow), r = Slice(Sees(d), page[d]),
         NEW old \in Seq(SolicitudRow), old = rows[d],
         NEW all, rows'[d] = all, NEW a \in Nat, NEW b \in Nat, Joined(all, old, r, a, b),
         at'[d] = IF HasNext(page[d], total[d]) THEN "paged" ELSE "done",
         page'[d] = page[d], total'[d] = total[d], stayed'[d] = stayed[d],
         entered'[d] = entered[d], left'[d] = left[d]
  PROVE  /\ ShownOnce(d)'
         /\ at'[d] = "paged" => NothingMissed(d)' /\ NothingAgain(d)'
         /\ at'[d] = "done" =>
              \A f \in stayed[d] \ Shown(d)' : Newer(f) \cap (left[d] \cup entered[d]) # {}
<1>1. ReportesTypeOK /\ Reading(d) /\ at[d] = "counted"
  BY DEF ReportesIInv, SlicePage
<1>2. ShownOnce(d) /\ NothingMissed(d) /\ NothingAgain(d)
  BY <1>1 DEF Reading, Walk
<1>3. PICK fs \in SUBSET Folios : fs = Sees(d)
  BY DEF Sees, Matching, Filed
<1>4. PICK p \in Nat \ {0} : p = page[d]
  BY <1>1 DEF ReportesTypeOK
<1>5. PICK lo \in Nat, b0 \in Nat : IsPage(r, fs, p, lo, b0)
  <2>1. r = Slice(fs, p)
    BY <1>3, <1>4
  <2> QED
    BY <2>1, PageFacts
<1>6. lo = (p - 1) * PageSize /\ lo + PageSize = p * PageSize /\ lo + PageSize \in Nat
  BY <1>5, PageAssumption DEF IsPage
<1>7. /\ DOMAIN old = 1 .. a /\ DOMAIN r = 1 .. b /\ DOMAIN all = 1 .. a + b
      /\ \A k \in 1 .. a : all[k] = old[k]
      /\ \A k \in a + 1 .. a + b : k - a \in 1 .. b /\ all[k] = r[k - a]
  BY DEF Joined
<1>8. /\ \A i \in 1 .. b : /\ r[i].folio \in fs
                           /\ Position(r[i].folio, fs) = lo + i /\ i <= PageSize
      /\ \A f \in fs : lo < Position(f, fs) /\ Position(f, fs) <= lo + PageSize
                         => \E i \in 1 .. b : r[i].folio = f
  <2>1. 1 .. b = 1 .. b0
    BY <1>5, <1>7 DEF IsPage
  <2>2. /\ \A i \in 1 .. b0 : /\ r[i].folio \in fs
                              /\ Position(r[i].folio, fs) = lo + i /\ i <= PageSize
        /\ \A f \in fs : lo < Position(f, fs) /\ Position(f, fs) <= lo + PageSize
                           => \E i \in 1 .. b0 : r[i].folio = f
    BY <1>5 DEF IsPage
  <2> QED
    BY <2>1, <2>2
<1>9. /\ \A f \in Shown(d)' : f \in Shown(d) \/ \E i \in 1 .. b : r[i].folio = f
      /\ Shown(d) \subseteq Shown(d)'
      /\ \A i \in 1 .. b : r[i].folio \in Shown(d)'
  <2>1. Shown(d) = { old[k].folio : k \in 1 .. a }
    BY <1>7 DEF Shown
  <2>2. Shown(d)' = { all[k].folio : k \in 1 .. a + b }
    BY <1>7 DEF Shown
  <2>3. ASSUME NEW k \in 1 .. a + b
        PROVE  all[k].folio \in Shown(d) \/ \E i \in 1 .. b : r[i].folio = all[k].folio
    <3>1. k \in 1 .. a \/ k \in a + 1 .. a + b
      OBVIOUS
    <3> QED
      BY <1>7, <2>1, <3>1
  <2>4. \A k \in 1 .. a : k \in 1 .. a + b
    OBVIOUS
  <2>5. ASSUME NEW i \in 1 .. b
        PROVE  r[i].folio \in Shown(d)'
    <3>1. a + i \in a + 1 .. a + b /\ a + i \in 1 .. a + b /\ (a + i) - a = i
      OBVIOUS
    <3>2. all[a + i] = r[i]
      BY <1>7, <3>1
    <3> QED
      BY <2>2, <3>1, <3>2
  <2>6. ASSUME NEW f \in Shown(d)'
        PROVE  f \in Shown(d) \/ \E i \in 1 .. b : r[i].folio = f
    BY <2>2, <2>3
  <2>7. Shown(d) \subseteq Shown(d)'
    BY <1>7, <2>1, <2>2, <2>4
  <2> QED
    BY <2>5, <2>6, <2>7
<1>10. \A f : Place(f, d) = Position(f, fs) /\ Place(f, d)' = Position(f, fs)
  BY <1>3 DEF Place, Position
<1>11. /\ Pages(d) * PageSize = lo
       /\ at'[d] \in {"paged", "done"} /\ Pages(d)' * PageSize = lo + PageSize
  BY <1>1, <1>4, <1>6 DEF Pages
<1>12. \A f \in Shown(d) : Newer(f) \cap entered[d] = {} => Position(f, fs) <= lo
  BY <1>2, <1>10, <1>11 DEF NothingAgain
<1>13. \A f \in stayed[d] : Newer(f) \cap (left[d] \cup entered[d]) = {} =>
         /\ Position(f, fs) <= total[d]
         /\ f \in Shown(d) \/ lo < Position(f, fs)
  BY <1>2, <1>10, <1>11 DEF NothingMissed
<1>14. stayed[d] \subseteq fs
  BY <1>1, <1>3 DEF Reading, Moves, Watching
<1>15. \A f \in Folios : Position(f, fs) \in Nat
  BY PlaceFacts
<1>16. Shown(d) \subseteq Folios
  <2>1. \A row \in SolicitudRow : row.folio \in Folios
    BY DEF SolicitudRow
  <2>2. \A k \in DOMAIN old : old[k] \in SolicitudRow
    OBVIOUS
  <2> QED
    BY <2>1, <2>2 DEF Shown
<1>17. ShownOnce(d)'
  <2> SUFFICES ASSUME NEW i \in 1 .. a + b, NEW j \in 1 .. a + b, i < j,
                      all[i].folio = all[j].folio,
                      Newer(all[i].folio) \cap entered[d] = {}
               PROVE  FALSE
    BY <1>7 DEF ShownOnce
  <2>1. CASE j <= a
    <3>1. i \in 1 .. a /\ j \in 1 .. a
      BY <2>1
    <3>2. old[i].folio = old[j].folio /\ Newer(old[i].folio) \cap entered[d] = {}
      BY <1>7, <3>1
    <3> QED
      BY <1>2, <1>7, <3>1, <3>2 DEF ShownOnce
  <2>2. CASE i <= a /\ j > a
    <3>1. i \in 1 .. a /\ j \in a + 1 .. a + b
      BY <2>2
    <3>2. PICK m \in 1 .. b : all[j] = r[m]
      BY <1>7, <3>1
    <3>3. old[i].folio \in Shown(d) /\ old[i].folio = r[m].folio /\ all[i] = old[i]
      BY <1>7, <3>1, <3>2 DEF Shown
    <3>4. Position(r[m].folio, fs) = lo + m /\ m \in Nat /\ m > 0
      BY <1>8
    <3>5. Position(r[m].folio, fs) <= lo
      BY <1>12, <3>3
    <3> QED
      BY <3>4, <3>5
  <2>3. CASE i > a
    <3>1. i \in a + 1 .. a + b /\ j \in a + 1 .. a + b
      BY <2>3
    <3>2. r[i - a].folio = r[j - a].folio
      BY <1>7, <3>1
    <3>3. i - a \in 1 .. b /\ j - a \in 1 .. b
      BY <3>1
    <3>4. lo + (i - a) = lo + (j - a)
      BY <1>8, <3>2, <3>3
    <3> QED
      BY <3>1, <3>4
  <2> QED
    BY <2>1, <2>2, <2>3
<1>18. ASSUME NEW f \in stayed[d], Newer(f) \cap (left[d] \cup entered[d]) = {}
       PROVE  f \in Shown(d)' \/ lo + PageSize < Position(f, fs)
  <2>1. f \in fs /\ f \in Folios /\ Position(f, fs) \in Nat
    BY <1>14, <1>15
  <2>2. f \in Shown(d) \/ lo < Position(f, fs)
    BY <1>13, <1>18
  <2>3. lo < Position(f, fs) /\ Position(f, fs) <= lo + PageSize => f \in Shown(d)'
    BY <1>8, <1>9, <2>1
  <2> QED
    BY <1>6, <1>9, <2>1, <2>2, <2>3
<1>19. NothingMissed(d)'
  BY <1>10, <1>11, <1>13, <1>18 DEF NothingMissed
<1>20. NothingAgain(d)'
  <2>1. ASSUME NEW f \in Shown(d)', Newer(f) \cap entered[d] = {}
        PROVE  Position(f, fs) <= lo + PageSize
    <3>1. CASE f \in Shown(d)
      BY <1>12, <1>15, <1>16, <2>1, <3>1, PageAssumption
    <3>2. CASE \E i \in 1 .. b : r[i].folio = f
      BY <1>8, <3>2, PageAssumption
    <3> QED
      BY <1>9, <2>1, <3>1, <3>2
  <2> QED
    BY <1>10, <1>11, <2>1 DEF NothingAgain
<1>21. ASSUME at'[d] = "done", NEW f \in stayed[d] \ Shown(d)'
       PROVE  Newer(f) \cap (left[d] \cup entered[d]) # {}
  <2>1. total[d] \in Nat /\ total[d] <= lo + PageSize
    BY <1>1, <1>4, <1>6, <1>21, LastPage DEF ReportesTypeOK
  <2>2. lo + PageSize \in Nat
    BY <1>6
  <2> QED
    BY <2>2, <1>13, <1>14, <1>15, <1>18, <1>21, <2>1
<1> QED
  BY <1>17, <1>19, <1>20, <1>21

LEMMA SlicePageInv ==
  ASSUME ReportesIInv, UNCHANGED tables, NEW d \in Readers, SlicePage(d)
  PROVE  ReportesIInv'
<1>1. ReportesTypeOK /\ Reading(d)
  BY DEF ReportesIInv
<1>2. PICK q, p, old, r :
        /\ q = query[d] /\ p = page[d] /\ old = rows[d] /\ r = Slice(Matching(PageQuery(q, p)), p)
  OBVIOUS
<1>3. p \in Nat \ {0}
  BY <1>1, <1>2 DEF ReportesTypeOK
<1>4. /\ at[d] = "counted" /\ rows' = [rows EXCEPT ![d] = old \o r]
      /\ at' = [at EXCEPT ![d] = IF HasNext(page[d], total[d]) THEN "paged" ELSE "done"]
      /\ UNCHANGED <<query, stayed, entered, left, page, total, counts>>
  BY <1>2 DEF SlicePage, SameWatch
<1>5. PICK fs \in SUBSET Folios : fs = Matching(PageQuery(q, p)) /\ fs \subseteq Filed
  BY MatchingFacts
<1>6. PICK k \in Nat : /\ DOMAIN r = 1 .. k /\ r = [i \in 1 .. k |-> r[i]]
                      /\ \A i \in 1 .. k : r[i].folio \in fs /\ r[i] = ToRow(r[i].folio, p)
  <2>1. r = Slice(fs, p)
    BY <1>2, <1>5
  <2>2. PICK lo \in Nat, k \in Nat : IsPage(r, fs, p, lo, k)
    BY <1>3, <2>1, PageFacts
  <2> QED
    BY <2>2 DEF IsPage
<1>7. ASSUME NEW i \in 1 .. k
      PROVE  /\ r[i] \in SolicitudRow
             /\ \E n \in DOMAIN historial[r[i].folio] : FromEntries(r[i], n, n)
  <2>1. PICK f \in Filed : f = r[i].folio /\ r[i] = ToRow(f, p)
    BY <1>5, <1>6
  <2>2. /\ ToRow(f, p) \in SolicitudRow
        /\ \E n \in DOMAIN historial[f] : FromEntries(ToRow(f, p), n, n)
    BY <1>1, <1>3, RowFacts DEF ReportesTypeOK
  <2> QED
    BY <2>1, <2>2
<1>8. r \in Seq(SolicitudRow)
  BY <1>6, <1>7
<1>9. old \in Seq(SolicitudRow)
  BY <1>1, <1>2 DEF ReportesTypeOK
<1>10. PICK a \in Nat, b \in Nat : Joined(old \o r, old, r, a, b)
  BY <1>8, <1>9, JoinedRows
<1>11. PICK all : all = old \o r
  OBVIOUS
<1>12.   /\ DOMAIN old = 1 .. a /\ DOMAIN r = 1 .. b /\ DOMAIN all = 1 .. a + b
         /\ all \in Seq(SolicitudRow)
         /\ \A j \in 1 .. a : all[j] = old[j]
         /\ \A j \in a + 1 .. a + b : j - a \in 1 .. b /\ all[j] = r[j - a]
  BY <1>10, <1>11 DEF Joined
<1>13. ReportesTypeOK'
  BY <1>1, <1>4, <1>12, <1>11 DEF ReportesTypeOK, tables
<1>14. /\ at'[d] = (IF HasNext(page[d], total[d]) THEN "paged" ELSE "done") /\ rows'[d] = all
       /\ query'[d] = q /\ page'[d] = page[d] /\ total'[d] = total[d] /\ counts'[d] = counts[d]
       /\ stayed'[d] = stayed[d] /\ entered'[d] = entered[d] /\ left'[d] = left[d]
  BY <1>1, <1>2, <1>4, <1>11 DEF ReportesTypeOK
<1>15. q.view \in Lists /\ Sees(d)' = Sees(d)
  BY <1>1, <1>2, <1>4, <1>14, SameTables DEF Reading, Stages, Sees
<1>16. Stages(d)'
  BY <1>14, <1>15 DEF Stages
<1>17. RowsFromEntries(d)'
  <2>1. ASSUME NEW j \in 1 .. a + b
        PROVE  \E n \in DOMAIN historial[all[j].folio] : FromEntries(all[j], n, n)
    <3>1. CASE j \in 1 .. a
      <4>1. \E m, n \in DOMAIN historial[old[j].folio] : FromEntries(old[j], m, n) /\ m = n
        BY <1>1, <1>2, <1>4, <1>12, <1>15, <3>1 DEF Reading, RowsFromEntries, Lists, Details
      <4> QED
        BY <1>12, <3>1, <4>1
    <3>2. CASE j \in a + 1 .. a + b
      <4>1. j - a \in DOMAIN r /\ all[j] = r[j - a]
        BY <1>12, <3>2
      <4>2. j - a \in 1 .. k
        BY <1>6, <4>1
      <4>3. \E n \in DOMAIN historial[r[j - a].folio] : FromEntries(r[j - a], n, n)
        BY <1>7, <4>2
      <4> QED
        BY <4>1, <4>3
    <3> QED
      BY <3>1, <3>2
  <2>2. \A j \in DOMAIN all : \E n \in DOMAIN historial[all[j].folio] : FromEntries(all[j], n, n)
    BY <1>12, <2>1
  <2>3. at'[d] # "row"
    BY <1>14
  <2> QED
    BY <1>1, <1>12, <1>14, <2>2, <2>3, LaterRows
<1>18. Moves(d)'
  BY <1>1, <1>4, <1>14, <1>15 DEF Reading, Moves, Watching, Some
<1>19. Walk(d)'
  <2> SUFFICES ASSUME OneWalk(d)
               PROVE  Walk(d)'
    BY <1>2, <1>14, SameWalk DEF Walk
  <2>1. Matching(PageQuery(q, p)) = Sees(d)
    <3>1. page[d] \in 1 .. page[d]
      BY <1>2, <1>3
    <3>2. Matching(PageQuery(query[d], page[d])) = Sees(d)
      BY <1>1, <3>1, WalkReadsOneList
    <3> QED
      BY <1>2, <3>2
  <2>2. r = Slice(Sees(d), page[d])
    BY <1>2, <2>1
  <2>3. /\ ShownOnce(d)'
        /\ at'[d] = "paged" => NothingMissed(d)' /\ NothingAgain(d)'
        /\ at'[d] = "done" =>
             \A f \in stayed[d] \ Shown(d)' : Newer(f) \cap (left[d] \cup entered[d]) # {}
    BY <1>2, <1>8, <1>9, <1>14, <1>15, <1>10, <1>11, <2>2, PageOfWalk
  <2> QED
    BY <1>14, <2>3 DEF Walk
<1>20. Figures(d)'
  BY <1>14, <1>15 DEF Figures, Lists
<1>21. \A e \in Readers \ {d} : Unmoved(e)
  BY <1>1, <1>4 DEF ReportesTypeOK, Unmoved
<1> QED
  BY <1>13, <1>16, <1>17, <1>18, <1>19, <1>20, <1>21, OnlyReader DEF Reading

\* A walk with one filter had it on the pages before.
LEMMA EarlierWalk ==
  ASSUME ReportesTypeOK, NEW d \in Readers, query'[d] = query[d], page'[d] = page[d] + 1,
         OneWalk(d)'
  PROVE  OneWalk(d) /\ Matching(PageQuery(query[d], page[d] + 1)) = Sees(d)
<1>1. page[d] \in Nat \ {0} /\ query[d] \in Query
  BY QueryAssumption DEF ReportesTypeOK
<1>2. PICK q, p : q = query[d] /\ p = page[d]
  OBVIOUS
<1>3. q \in Query /\ p \in Nat \ {0} /\ query'[d] = q /\ page'[d] = p + 1
  BY <1>1, <1>2
<1>4. \A k : Filter(PageQuery(query[d], k))' = Filter(PageQuery(q, k))
  BY <1>3 DEF Filter, PageQuery
<1>5. Filter(query[d])' = Filter(q)
  BY <1>3 DEF Filter
<1>6. q.view = "list" \/ (q.view \in Lists /\ \A k \in 1 .. p + 1 : Filter(PageQuery(q, k)) = Filter(q))
  BY <1>3, <1>4, <1>5 DEF OneWalk, OneFilter
<1>7. \A k \in 1 .. p : k \in 1 .. p + 1
  BY <1>3
<1>8. OneWalk(d)
  BY <1>2, <1>6, <1>7 DEF OneWalk, OneFilter
<1>9. Filter(PageQuery(q, p + 1)) = Filter(q)
  <2>1. p + 1 \in Nat /\ p + 1 \in 1 .. p + 1
    BY <1>3
  <2> QED
    BY <1>3, <1>6, <2>1, ReportListKeepsItsFilter
<1>10. p + 1 \in Nat
  BY <1>3
<1> QED
  BY <1>2, <1>3, <1>8, <1>9, <1>10, SameFilterSameList DEF Sees

LEMMA CountNextInv ==
  ASSUME ReportesIInv, UNCHANGED tables, NEW d \in Readers, CountNext(d)
  PROVE  ReportesIInv'
<1>1. ReportesTypeOK /\ Reading(d)
  BY DEF ReportesIInv
<1>2. PICK fs \in SUBSET Folios : fs = Matching(PageQuery(query[d], page[d] + 1))
  BY MatchingFacts
<1>3. /\ at[d] = "paged" /\ at' = [at EXCEPT ![d] = "counted"]
      /\ page' = [page EXCEPT ![d] = @ + 1]
      /\ total' = [total EXCEPT ![d] = Cardinality(fs)]
      /\ UNCHANGED <<query, stayed, entered, left, counts, rows>>
  BY <1>2 DEF CountNext, SameWatch
<1>4. Cardinality(fs) \in Nat /\ page[d] \in Nat \ {0} /\ page[d] + 1 \in Nat \ {0}
  BY <1>1, SubsetsAreFinite DEF ReportesTypeOK
<1>5. ReportesTypeOK'
  BY <1>1, <1>3, <1>4 DEF ReportesTypeOK, tables
<1>6. /\ at'[d] = "counted" /\ page'[d] = page[d] + 1 /\ total'[d] = Cardinality(fs)
      /\ query'[d] = query[d] /\ counts'[d] = counts[d] /\ rows'[d] = rows[d]
      /\ stayed'[d] = stayed[d] /\ entered'[d] = entered[d] /\ left'[d] = left[d]
  BY <1>1, <1>3 DEF ReportesTypeOK
<1>7. query[d].view \in Lists /\ Sees(d)' = Sees(d)
  BY <1>1, <1>3, <1>6, SameTables DEF Reading, Stages, Sees
<1>8. Stages(d)'
  BY <1>6, <1>7 DEF Stages
<1>9. RowsFromEntries(d)'
  <2>1. RowsFromEntries(d)
    BY <1>1 DEF Reading
  <2>2. UNCHANGED historial
    BY DEF tables
  <2>3. \A k, m, n : FromEntries(rows[d][k], m, n)' <=> FromEntries(rows[d][k], m, n)
    BY <1>6, <2>2 DEF FromEntries, TookLast
  <2> QED
    BY <1>3, <1>6, <2>1, <2>2, <2>3 DEF RowsFromEntries
<1>10. Moves(d)'
  BY <1>1, <1>3, <1>6, <1>7 DEF Reading, Moves, Watching, Some
<1>11. Walk(d)'
  <2> SUFFICES ASSUME OneWalk(d)'
               PROVE  Walk(d)'
    BY DEF Walk
  <2>1. OneWalk(d) /\ fs = Sees(d)
    BY <1>1, <1>2, <1>6, EarlierWalk
  <2>2. ShownOnce(d) /\ NothingMissed(d) /\ NothingAgain(d) /\ stayed[d] \subseteq fs
    BY <1>1, <1>3, <2>1 DEF Reading, Walk, Moves, Watching
  <2>3. Pages(d)' = Pages(d) /\ Shown(d)' = Shown(d)
    BY <1>3, <1>4, <1>6 DEF Pages, Shown
  <2>4. \A f : Place(f, d)' = Place(f, d) /\ Place(f, d) = Position(f, fs)
    BY <1>7, <2>1 DEF Place, Position
  <2>5. \A f \in stayed[d] : Place(f, d)' <= total'[d]
    BY <1>6, <2>2, <2>4, PlaceFacts
  <2>6. NothingMissed(d)'
    BY <1>6, <2>2, <2>3, <2>4, <2>5 DEF NothingMissed
  <2>7. NothingAgain(d)'
    BY <1>6, <2>2, <2>3, <2>4 DEF NothingAgain
  <2>8. ShownOnce(d)'
    BY <1>6, <2>2 DEF ShownOnce
  <2> QED
    BY <1>6, <2>6, <2>7, <2>8 DEF Walk
<1>12. Figures(d)'
  BY <1>6, <1>7 DEF Figures, Lists
<1>13. \A e \in Readers \ {d} : Unmoved(e)
  BY <1>1, <1>3 DEF ReportesTypeOK, Unmoved
<1> QED
  BY <1>5, <1>8, <1>9, <1>10, <1>11, <1>12, <1>13, OnlyReader DEF Reading

LEMMA ByEstadoInv ==
  ASSUME ReportesIInv, UNCHANGED tables, NEW d \in Readers, ByEstado(d)
  PROVE  ReportesIInv'
<1>1. ReportesTypeOK
  BY DEF ReportesIInv
<1>2. PICK q \in Queries :
        /\ Opens(d, q, {"dashboard", "pdf"})
        /\ total' = [total EXCEPT ![d] = Cardinality(Matching(q))]
        /\ at' = [at EXCEPT ![d] = "estado"]
        /\ UNCHANGED <<page, counts, rows>>
  BY DEF ByEstado
<1>3. PICK fs \in SUBSET Folios : fs = Matching(q)
  BY MatchingFacts
<1>4. /\ rows[d] = <<>> /\ q.view \in {"dashboard", "pdf"}
      /\ query' \in [Readers -> Queries] /\ stayed' \in [Readers -> SUBSET Folios]
      /\ query'[d] = q /\ stayed'[d] = fs /\ entered' = entered /\ left' = left
      /\ Sees(d)' = fs /\ Some(d)' = fs
      /\ \A e \in Readers \ {d} : query'[e] = query[e] /\ stayed'[e] = stayed[e]
  BY <1>2, <1>3, OpensFacts
<1>5. Cardinality(fs) \in Nat
  BY SubsetsAreFinite
<1>6. ReportesTypeOK'
  BY <1>1, <1>2, <1>3, <1>4, <1>5 DEF ReportesTypeOK, tables
<1>7. at'[d] = "estado" /\ total'[d] = Cardinality(fs) /\ rows'[d] = <<>>
  BY <1>1, <1>2, <1>3, <1>4 DEF ReportesTypeOK
<1>8. Stages(d)' /\ RowsFromEntries(d)' /\ Moves(d)'
  BY <1>4, <1>7 DEF Stages, RowsFromEntries, Moves
<1>9. Walk(d)'
  BY <1>7 DEF Walk, ShownOnce
<1>10. Figures(d)'
  <2>1. total'[d] \in Cardinality(stayed'[d]) .. Cardinality(Some(d)')
    BY <1>4, <1>5, <1>7
  <2> QED
    BY <1>7, <2>1 DEF Figures
<1>11. \A e \in Readers \ {d} : Unmoved(e)
  BY <1>1, <1>2, <1>4 DEF ReportesTypeOK, Unmoved
<1> QED
  BY <1>6, <1>8, <1>9, <1>10, <1>11, OnlyReader DEF Reading

\* What a query of a GET under way counts.
LEMMA CountsFacts ==
  ASSUME ReportesIInv, NEW d \in Readers, Watching(d)
  PROVE  /\ Cardinality(Matching(query[d])) \in Cardinality(stayed[d]) .. Cardinality(Some(d))
         /\ Cardinality(Charted(query[d], Matching(query[d])))
              \in Cardinality(Charted(query[d], stayed[d])) .. Cardinality(Charted(query[d], Some(d)))
         /\ Cardinality(Matching(query[d])) \in Nat
         /\ Cardinality(Charted(query[d], Matching(query[d]))) \in Nat
         /\ stayed[d] \subseteq Matching(query[d]) /\ Matching(query[d]) \subseteq Some(d)
<1>1. PICK s, t, z, q : s = stayed[d] /\ t = Sees(d) /\ z = Some(d) /\ q = query[d]
  OBVIOUS
<1>2. s \subseteq t /\ t \subseteq z
  BY <1>1 DEF ReportesIInv, Reading, Moves
<1>3. z \in SUBSET Folios /\ t \in SUBSET Folios
  BY <1>1 DEF ReportesIInv, ReportesTypeOK, Some, Sees, Matching, Filed
<1>4. /\ Charted(q, s) \subseteq Charted(q, t) /\ Charted(q, t) \subseteq Charted(q, z)
      /\ Charted(q, z) \in SUBSET Folios /\ Charted(q, t) \in SUBSET Folios
  BY <1>2, <1>3 DEF Charted
<1>5. Cardinality(t) \in Nat /\ Cardinality(t) \in Cardinality(s) .. Cardinality(z)
  BY <1>2, <1>3, Sizes
<1>6. /\ Cardinality(Charted(q, t)) \in Nat
      /\ Cardinality(Charted(q, t)) \in Cardinality(Charted(q, s)) .. Cardinality(Charted(q, z))
  BY <1>4, Sizes
<1>7. Matching(query[d]) = t
  BY <1>1 DEF Sees
<1> QED
  BY <1>1, <1>2, <1>5, <1>6, <1>7

LEMMA ByTipoInv ==
  ASSUME ReportesIInv, UNCHANGED tables, NEW d \in Readers, ByTipo(d)
  PROVE  ReportesIInv'
<1>1. ReportesTypeOK /\ Reading(d)
  BY DEF ReportesIInv
<1>2. PICK n : n = Cardinality(Matching(query[d]))
  OBVIOUS
<1>3. /\ at[d] = "estado" /\ at' = [at EXCEPT ![d] = "tipo"]
      /\ counts' = [counts EXCEPT ![d].byTipo = n]
      /\ UNCHANGED <<query, stayed, entered, left, page, total, rows>>
  BY <1>2 DEF ByTipo, SameWatch
<1>4. n \in Nat /\ n \in Cardinality(stayed[d]) .. Cardinality(Some(d))
  BY <1>2, <1>3, CountsFacts DEF Watching
<1>5. ReportesTypeOK'
  BY <1>1, <1>3, <1>4 DEF ReportesTypeOK, tables
<1>6. /\ at'[d] = "tipo" /\ counts'[d].byTipo = n
      /\ query'[d] = query[d] /\ total'[d] = total[d] /\ rows'[d] = rows[d]
      /\ stayed'[d] = stayed[d] /\ entered'[d] = entered[d] /\ left'[d] = left[d]
  BY <1>1, <1>3 DEF ReportesTypeOK
<1>7. /\ Sees(d)' = Sees(d) /\ Some(d)' = Some(d) /\ rows[d] = <<>>
      /\ query[d].view \in {"dashboard", "pdf"}
  BY <1>1, <1>3, <1>6, SameTables DEF Reading, Stages, Sees, Some
<1>8. Stages(d)' /\ RowsFromEntries(d)'
  BY <1>6, <1>7 DEF Stages, RowsFromEntries
<1>9. Moves(d)'
  BY <1>1, <1>3, <1>6, <1>7 DEF Reading, Moves, Watching
<1>10. Walk(d)'
  BY <1>6, <1>7 DEF Walk, ShownOnce
<1>11. Figures(d)'
  <2>1. total[d] \in Cardinality(stayed[d]) .. Cardinality(Some(d))
    BY <1>1, <1>3, <1>7 DEF Reading, Figures
  <2> QED
    BY <1>4, <1>6, <1>7, <2>1 DEF Figures
<1>12. \A e \in Readers \ {d} : Unmoved(e)
  BY <1>1, <1>3 DEF ReportesTypeOK, Unmoved
<1> QED
  BY <1>5, <1>8, <1>9, <1>10, <1>11, <1>12, OnlyReader DEF Reading

LEMMA ByMonthInv ==
  ASSUME ReportesIInv, UNCHANGED tables, NEW d \in Readers, ByMonth(d)
  PROVE  ReportesIInv'
<1>1. ReportesTypeOK /\ Reading(d)
  BY DEF ReportesIInv
<1>2. PICK n : n = Cardinality(InMonths(query[d]))
  OBVIOUS
<1>3. /\ at[d] = "tipo"
      /\ at' = [at EXCEPT ![d] = IF query[d].view = "pdf" THEN "month" ELSE "done"]
      /\ counts' = [counts EXCEPT ![d].byMonth = n]
      /\ UNCHANGED <<query, stayed, entered, left, page, total, rows>>
  BY <1>2 DEF ByMonth, SameWatch
<1>4. query[d] \in Query /\ query[d].view \in {"dashboard", "pdf"} /\ rows[d] = <<>>
  BY <1>1, <1>3, QueryAssumption DEF Reading, Stages, ReportesTypeOK
<1>5. /\ n \in Nat
      /\ n \in Cardinality(Charted(query[d], stayed[d])) .. Cardinality(Charted(query[d], Some(d)))
  <2>1. n = Cardinality(Charted(query[d], Matching(query[d])))
    BY <1>2, <1>4, ChartFacts
  <2> QED
    BY <1>3, <2>1, CountsFacts DEF Watching
<1>6. ReportesTypeOK'
  BY <1>1, <1>3, <1>5 DEF ReportesTypeOK, tables
<1>7. /\ at'[d] = (IF query[d].view = "pdf" THEN "month" ELSE "done")
      /\ counts'[d].byMonth = n /\ counts'[d].byTipo = counts[d].byTipo
      /\ query'[d] = query[d] /\ total'[d] = total[d] /\ rows'[d] = rows[d]
      /\ stayed'[d] = stayed[d] /\ entered'[d] = entered[d] /\ left'[d] = left[d]
  BY <1>1, <1>3 DEF ReportesTypeOK
<1>8. Sees(d)' = Sees(d) /\ Some(d)' = Some(d)
  BY <1>7, SameTables DEF Sees, Some
<1>9. Stages(d)' /\ RowsFromEntries(d)'
  BY <1>4, <1>7 DEF Stages, RowsFromEntries
<1>10. Moves(d)'
  BY <1>1, <1>3, <1>7, <1>8 DEF Reading, Moves, Watching
<1>11. Walk(d)'
  BY <1>4, <1>7 DEF Walk, ShownOnce, OneWalk, Lists
<1>12. Figures(d)'
  <2>1. /\ total[d] \in Cardinality(stayed[d]) .. Cardinality(Some(d))
        /\ counts[d].byTipo \in Cardinality(stayed[d]) .. Cardinality(Some(d))
    BY <1>1, <1>3, <1>4 DEF Reading, Figures
  <2>2. Charted(query[d], stayed[d])' = Charted(query[d], stayed[d])
    BY <1>7 DEF Charted, Open, Filter
  <2>3. Charted(query[d], Some(d))' = Charted(query[d], Some(d))
    BY <1>7, <1>8 DEF Charted, Open, Filter
  <2> QED
    BY <1>5, <1>7, <1>8, <2>1, <2>2, <2>3 DEF Figures
<1>13. \A e \in Readers \ {d} : Unmoved(e)
  BY <1>1, <1>3 DEF ReportesTypeOK, Unmoved
<1> QED
  BY <1>6, <1>9, <1>10, <1>11, <1>12, <1>13, OnlyReader DEF Reading

\* The rows of an export, as one statement reads them.
IsExport(r, fs) ==
  /\ r \in Seq(SolicitudRow) /\ Len(r) = Cardinality(fs)
  /\ \A k \in DOMAIN r : r[k].folio \in fs
  /\ \A f \in fs : \E k \in DOMAIN r : r[k].folio = f
  /\ \A k \in DOMAIN r : \E n \in DOMAIN historial[r[k].folio] : FromEntries(r[k], n, n)

LEMMA ExportRows ==
  ASSUME ReportesTypeOK, NEW q
  PROVE  IsExport(AllRows(q), Matching(q))
<1>1. PICK fs \in SUBSET Folios : fs = Matching(q) /\ fs \subseteq Filed
  BY MatchingFacts
<1>2. PICK r, n : r = AllRows(q) /\ n = Cardinality(fs)
  OBVIOUS
<1>3. /\ n \in Nat /\ r = [i \in 1 .. n |-> r[i]]
      /\ \A i \in DOMAIN r : r[i].folio \in fs /\ r[i] = ToRow(r[i].folio, 1)
      /\ \A f \in fs : \E i \in DOMAIN r : r[i].folio = f
  BY <1>1, <1>2, ExportFacts, SubsetsAreFinite
<1>4. ASSUME NEW i \in DOMAIN r
      PROVE  /\ r[i] \in SolicitudRow
             /\ \E m \in DOMAIN historial[r[i].folio] : FromEntries(r[i], m, m)
  <2>1. PICK f \in Filed : f = r[i].folio /\ r[i] = ToRow(f, 1)
    BY <1>1, <1>3
  <2>2. /\ ToRow(f, 1) \in SolicitudRow
        /\ \E m \in DOMAIN historial[f] : FromEntries(ToRow(f, 1), m, m)
    BY RowFacts DEF ReportesTypeOK
  <2> QED
    BY <2>1, <2>2
<1>5. DOMAIN r = 1 .. n
  BY <1>3
<1>6. r \in Seq(SolicitudRow) /\ Len(r) = n
  BY <1>3, <1>4, <1>5
<1> QED
  BY <1>1, <1>2, <1>3, <1>4, <1>6 DEF IsExport

LEMMA CsvInv ==
  ASSUME ReportesIInv, UNCHANGED tables, NEW d \in Readers, Csv(d)
  PROVE  ReportesIInv'
<1>1. ReportesTypeOK
  BY DEF ReportesIInv
<1>2. PICK q \in Queries :
        /\ Opens(d, q, {"csv"})
        /\ rows' = [rows EXCEPT ![d] = AllRows(q)]
        /\ at' = [at EXCEPT ![d] = "done"]
        /\ UNCHANGED <<page, total, counts>>
  BY DEF Csv
<1>3. PICK r : r = AllRows(q) /\ IsExport(r, Matching(q))
  BY <1>1, ExportRows
<1>4. /\ q.view = "csv"
      /\ query' \in [Readers -> Queries] /\ stayed' \in [Readers -> SUBSET Folios]
      /\ query'[d] = q /\ entered' = entered /\ left' = left
      /\ \A e \in Readers \ {d} : query'[e] = query[e] /\ stayed'[e] = stayed[e]
  BY <1>2, OpensFacts
<1>5. r \in Seq(SolicitudRow)
  BY <1>3 DEF IsExport
<1>6. ReportesTypeOK'
  BY <1>1, <1>2, <1>3, <1>4, <1>5 DEF ReportesTypeOK, tables
<1>7. at'[d] = "done" /\ rows'[d] = r
  BY <1>1, <1>2, <1>3 DEF ReportesTypeOK
<1>8. RowsFromEntries(d)'
  BY <1>1, <1>3, <1>5, <1>7, LaterRows DEF IsExport
<1>9. Stages(d)' /\ Moves(d)' /\ Walk(d)' /\ Figures(d)'
  BY <1>4, <1>7 DEF Stages, Moves, Watching, Walk, OneWalk, Lists, Figures
<1>10. \A e \in Readers \ {d} : Unmoved(e)
  BY <1>1, <1>2, <1>4 DEF ReportesTypeOK, Unmoved
<1> QED
  BY <1>6, <1>8, <1>9, <1>10, OnlyReader DEF Reading

LEMMA PdfRowsInv ==
  ASSUME ReportesIInv, UNCHANGED tables, NEW d \in Readers, PdfRows(d)
  PROVE  ReportesIInv'
<1>1. ReportesTypeOK /\ Reading(d) /\ at[d] = "month"
  BY DEF ReportesIInv, PdfRows
<1>2. /\ UNCHANGED <<query, stayed, entered, left, page, total, counts>>
      /\ query'[d] = query[d] /\ total'[d] = total[d] /\ counts'[d] = counts[d]
      /\ stayed'[d] = stayed[d] /\ entered'[d] = entered[d] /\ left'[d] = left[d]
  BY DEF PdfRows, SameWatch
<1>3. query[d].view = "pdf" /\ rows[d] = <<>> /\ Some(d)' = Some(d)
  BY <1>1, <1>2 DEF Reading, Stages, Some
<1>4. /\ stayed[d] \subseteq Matching(query[d]) /\ Matching(query[d]) \subseteq Some(d)
      /\ Cardinality(Matching(query[d])) \in Nat
      /\ Cardinality(Matching(query[d])) <= Cardinality(Some(d)) /\ Cardinality(Some(d)) \in Nat
  <2>1. Some(d) \in SUBSET Folios
    BY <1>1 DEF ReportesTypeOK, Some
  <2> QED
    BY <1>1, <2>1, CountsFacts, SubsetsAreFinite, Sizes DEF Watching
<1>5. /\ total[d] \in Cardinality(stayed[d]) .. Cardinality(Some(d))
      /\ counts[d].byTipo \in Cardinality(stayed[d]) .. Cardinality(Some(d))
      /\ counts[d].byMonth \in Cardinality(Charted(query[d], stayed[d]))
                                 .. Cardinality(Charted(query[d], Some(d)))
  BY <1>1, <1>3 DEF Reading, Figures
<1>6. /\ Charted(query[d], stayed[d])' = Charted(query[d], stayed[d])
      /\ Charted(query[d], Some(d))' = Charted(query[d], Some(d))
  BY <1>2, <1>3 DEF Charted, Open, Filter
<1>7. CASE Cardinality(Matching(query[d])) <= RowCap /\ rows' = [rows EXCEPT ![d] = AllRows(query[d])]
           /\ at' = [at EXCEPT ![d] = "done"]
  <2>1. PICK r, fs : r = AllRows(query[d]) /\ fs = Matching(query[d]) /\ IsExport(r, fs)
    BY <1>1, ExportRows
  <2>2. /\ r \in Seq(SolicitudRow) /\ Len(r) = Cardinality(fs)
        /\ \A k \in DOMAIN r : r[k].folio \in fs
        /\ \A f \in fs : \E k \in DOMAIN r : r[k].folio = f
        /\ \A k \in DOMAIN r : \E n \in DOMAIN historial[r[k].folio] : FromEntries(r[k], n, n)
    BY <2>1 DEF IsExport
  <2>3. ReportesTypeOK'
    BY <1>1, <1>2, <1>7, <2>1, <2>2 DEF ReportesTypeOK, tables
  <2>4. at'[d] = "done" /\ rows'[d] = r /\ \A e \in Readers \ {d} : at'[e] = at[e] /\ rows'[e] = rows[e]
    BY <1>1, <1>7, <2>1 DEF ReportesTypeOK
  <2>5. RowsFromEntries(d)'
    BY <1>1, <2>2, <2>4, LaterRows
  <2>6. Shown(d)' = fs /\ Len(rows'[d]) <= RowCap
    <3>1. Shown(d)' = { r[k].folio : k \in DOMAIN r }
      BY <2>4 DEF Shown
    <3>2. { r[k].folio : k \in DOMAIN r } = fs
      BY <2>2
    <3> QED
      BY <1>7, <2>1, <2>2, <2>4, <3>1, <3>2
  <2>7. Figures(d)'
    BY <1>2, <1>3, <1>4, <1>5, <1>6, <2>1, <2>4, <2>6 DEF Figures
  <2>8. Stages(d)' /\ Moves(d)' /\ Walk(d)'
    BY <1>2, <1>3, <2>4 DEF Stages, Moves, Watching, Walk, OneWalk, Lists
  <2>9. \A e \in Readers \ {d} : Unmoved(e)
    BY <1>2, <2>4 DEF Unmoved
  <2> QED
    BY <2>3, <2>5, <2>7, <2>8, <2>9, OnlyReader DEF Reading
<1>8. CASE Cardinality(Matching(query[d])) > RowCap /\ at' = [at EXCEPT ![d] = "truncated"]
           /\ UNCHANGED rows
  <2>1. ReportesTypeOK'
    BY <1>1, <1>2, <1>8 DEF ReportesTypeOK, tables
  <2>2. at'[d] = "truncated" /\ rows'[d] = <<>> /\ \A e \in Readers \ {d} : at'[e] = at[e]
    BY <1>1, <1>3, <1>8 DEF ReportesTypeOK
  <2>3. Cardinality(Some(d)') > RowCap
    BY <1>3, <1>4, <1>8, PageAssumption
  <2>4. Figures(d)'
    BY <1>2, <1>3, <1>5, <1>6, <2>2, <2>3 DEF Figures
  <2>5. Stages(d)' /\ RowsFromEntries(d)' /\ Moves(d)' /\ Walk(d)'
    BY <1>2, <1>3, <2>2 DEF Stages, RowsFromEntries, Moves, Watching, Walk, OneWalk, Lists
  <2>6. \A e \in Readers \ {d} : Unmoved(e)
    BY <1>2, <1>8, <2>2 DEF Unmoved
  <2> QED
    BY <2>1, <2>4, <2>5, <2>6, OnlyReader DEF Reading
<1> QED
  BY <1>7, <1>8 DEF PdfRows

LEMMA DetailRowInv ==
  ASSUME ReportesIInv, UNCHANGED tables, NEW d \in Readers, DetailRow(d)
  PROVE  ReportesIInv'
<1>1. ReportesTypeOK
  BY DEF ReportesIInv
<1>2. PICK q \in Queries, stage \in {"row", "refused"} :
        /\ Opens(d, q, Details) /\ q.folio \in Filed
        /\ rows' = [rows EXCEPT ![d] = <<[folio |-> q.folio, estado |-> estado(q.folio),
                                          handler |-> Nobody, page |-> 1]>>]
        /\ at' = [at EXCEPT ![d] = stage]
        /\ UNCHANGED <<page, total, counts>>
  <2>1. PICK q \in Queries :
          /\ Opens(d, q, Details) /\ q.folio \in Filed
          /\ rows' = [rows EXCEPT ![d] = <<[folio |-> q.folio, estado |-> estado(q.folio),
                                            handler |-> Nobody, page |-> 1]>>]
          /\ at' = [at EXCEPT ![d] =
               IF IF q.view = "detail" THEN OwnDetailOpens(q, responsible[TipoOf[q.folio]])
                                       ELSE ReviewDetailOpens(q, responsible[TipoOf[q.folio]])
               THEN "row" ELSE "refused"]
          /\ UNCHANGED <<page, total, counts>>
    BY DEF DetailRow
  <2> QED
    BY <2>1
<1>3. PICK f, m : f = q.folio /\ m = Len(historial[f])
  OBVIOUS
<1>4. /\ f \in Folios /\ m \in DOMAIN historial[f]
      /\ estado(f) = historial[f][m].nuevo /\ historial[f][m] \in HistorialEntry
  <2>1. f \in Folios /\ historial[f] \in Seq(HistorialEntry) /\ historial[f] # <<>>
    BY <1>1, <1>2, <1>3 DEF Filed, ReportesTypeOK
  <2> QED
    BY <1>3, <2>1 DEF estado, Last
<1>5. PICK row : row = [folio |-> f, estado |-> historial[f][m].nuevo, handler |-> Nobody, page |-> 1]
  OBVIOUS
<1>6. row \in SolicitudRow /\ rows' = [rows EXCEPT ![d] = <<row>>]
  BY <1>2, <1>3, <1>4, <1>5 DEF SolicitudRow, HistorialEntry
<1>7. /\ q.view \in Details
      /\ query' \in [Readers -> Queries] /\ stayed' \in [Readers -> SUBSET Folios]
      /\ query'[d] = q /\ entered' = entered /\ left' = left
      /\ stayed'[d] = Matching(q) /\ Sees(d)' = Matching(q) /\ Some(d)' = Matching(q)
      /\ \A e \in Readers \ {d} : query'[e] = query[e] /\ stayed'[e] = stayed[e]
  BY <1>2, OpensFacts
<1>8. ReportesTypeOK'
  <2>1. rows' \in [Readers -> Seq(SolicitudRow)]
    BY <1>1, <1>6 DEF ReportesTypeOK
  <2>2. at' \in [Readers -> {"idle", "counted", "paged", "estado", "tipo", "month", "row",
                             "done", "truncated", "refused"}]
    BY <1>1, <1>2 DEF ReportesTypeOK
  <2> QED
    BY <1>1, <1>2, <1>7, <2>1, <2>2 DEF ReportesTypeOK, tables
<1>9. at'[d] \in {"row", "refused"} /\ rows'[d] = <<row>>
  BY <1>1, <1>2, <1>6 DEF ReportesTypeOK
<1>10. RowsFromEntries(d)'
  <2>1. historial' = historial
    BY DEF tables
  <2>2. query'[d].folio = f
    BY <1>3, <1>7
  <2>3. \E k \in DOMAIN historial'[query'[d].folio] :
          rows'[d] = <<[folio |-> query'[d].folio, estado |-> historial'[query'[d].folio][k].nuevo,
                        handler |-> Nobody, page |-> 1]>>
    BY <1>4, <1>5, <1>9, <2>1, <2>2
  <2> QED
    BY <1>9, <2>3 DEF RowsFromEntries
<1>11. Stages(d)' /\ Moves(d)' /\ Figures(d)'
  BY <1>7, <1>9 DEF Stages, Moves, Figures, Details
<1>12. Walk(d)'
  BY <1>7, <1>9 DEF Walk, OneWalk, Lists, Details
<1>13. \A e \in Readers \ {d} : Unmoved(e)
  BY <1>1, <1>2, <1>7 DEF ReportesTypeOK, Unmoved
<1> QED
  BY <1>8, <1>10, <1>11, <1>12, <1>13, OnlyReader DEF Reading

LEMMA DetailHistorialInv ==
  ASSUME ReportesIInv, UNCHANGED tables, NEW d \in Readers, DetailHistorial(d)
  PROVE  ReportesIInv'
<1>1. ReportesTypeOK /\ Reading(d) /\ at[d] = "row"
  BY DEF ReportesIInv, DetailHistorial
<1>2. PICK f, h : f = query[d].folio /\ h = historial[f]
  OBVIOUS
<1>3. f \in Folios /\ h \in Seq(HistorialEntry)
  BY <1>1, <1>2, QueryAssumption DEF ReportesTypeOK, Query
<1>4. PICK m \in DOMAIN h :
        rows[d] = <<[folio |-> f, estado |-> h[m].nuevo, handler |-> Nobody, page |-> 1]>>
  BY <1>1, <1>2 DEF Reading, RowsFromEntries
<1>5. PICK row : row = [folio |-> f, estado |-> h[m].nuevo, handler |-> Handler(h), page |-> 1]
  OBVIOUS
<1>6. h[m].nuevo \in Estados /\ m \in Nat /\ Len(h) \in DOMAIN h /\ m <= Len(h)
  <2>1. h[m] \in HistorialEntry
    BY <1>3
  <2> QED
    BY <1>3, <1>4, <2>1 DEF HistorialEntry
<1>7. Handler(h) \in Users \cup {Nobody} /\ TookLast(f, Len(h), Handler(h))
  BY <1>2, <1>3, HandlerFacts
<1>8. row \in SolicitudRow
  BY <1>3, <1>5, <1>6, <1>7 DEF SolicitudRow
<1>9. rows' = [rows EXCEPT ![d] = <<row>>]
  <2>1. ToDetail([folio |-> f, estado |-> h[m].nuevo, handler |-> Nobody, page |-> 1], h) = row
    BY <1>5 DEF ToDetail
  <2>2. rows' = [rows EXCEPT ![d] = [rows[d] EXCEPT ![1] = ToDetail(rows[d][1], h)]]
    BY <1>2 DEF DetailHistorial
  <2>3. [rows[d] EXCEPT ![1] = ToDetail(rows[d][1], h)] = <<row>>
    BY <1>4, <2>1
  <2> QED
    BY <2>2, <2>3
<1>10. /\ at' = [at EXCEPT ![d] = "done"]
       /\ UNCHANGED <<query, stayed, entered, left, page, total, counts>>
  BY DEF DetailHistorial, SameWatch
<1>11. ReportesTypeOK'
  BY <1>1, <1>8, <1>9, <1>10 DEF ReportesTypeOK, tables
<1>12. /\ at'[d] = "done" /\ rows'[d] = <<row>> /\ query'[d] = query[d]
       /\ stayed'[d] = stayed[d] /\ entered'[d] = entered[d] /\ left'[d] = left[d]
  BY <1>1, <1>9, <1>10 DEF ReportesTypeOK
<1>13. query[d].view \in Details
  BY <1>1 DEF Reading, Stages
<1>14. RowsFromEntries(d)'
  <2>1. historial' = historial
    BY DEF tables
  <2>2. TookLast(f, Len(h), Handler(h))'
    BY <1>7, <2>1 DEF TookLast
  <2>3. FromEntries(row, m, Len(h))'
    <3>1. row.folio = f /\ row.handler = Handler(h) /\ row.estado = historial'[f][m].nuevo
      BY <1>2, <1>5, <2>1
    <3> QED
      BY <2>2, <3>1 DEF FromEntries
  <2>4. FromEntries(rows[d][1], m, Len(h))' /\ rows'[d][1].folio = f /\ DOMAIN rows'[d] = {1}
    BY <1>5, <1>12, <2>3 DEF FromEntries, TookLast
  <2> QED
    BY <1>2, <1>6, <1>12, <1>13, <2>1, <2>4 DEF RowsFromEntries
<1>15. Stages(d)' /\ Moves(d)' /\ Figures(d)' /\ Walk(d)'
  BY <1>12, <1>13 DEF Stages, Moves, Watching, Figures, Details, Walk, OneWalk, Lists
<1>16. \A e \in Readers \ {d} : Unmoved(e)
  BY <1>1, <1>9, <1>10 DEF ReportesTypeOK, Unmoved
<1> QED
  BY <1>11, <1>14, <1>15, <1>16, OnlyReader DEF Reading

-----------------------------------------------------------------------------
(* The theorems.                                                           *)

LEMMA ReportesInitInv == ReportesInit => ReportesIInv
<1> SUFFICES ASSUME ReportesInit
             PROVE  ReportesIInv
  OBVIOUS
<1>1. (CHOOSE q \in Queries : TRUE) \in Queries
  BY QueryAssumption
<1>2. historial \in [Folios -> Seq(HistorialEntry)]
  <2>1. PICK before \in SUBSET Folios :
          historial = [f \in Folios |-> IF f \in before THEN Filing(f) ELSE <<>>]
    BY DEF ReportesInit, TablesInit
  <2>2. \A f \in Folios : Filing(f) \in Seq(HistorialEntry)
    BY RowAssumption DEF Filing, HistorialEntry, Estados
  <2> QED
    BY <2>1, <2>2
<1>3. NoCounts \in [byTipo : Nat, byMonth : Nat] /\ 1 \in Nat \ {0}
  BY DEF NoCounts
<1>4. ReportesTypeOK
  BY <1>1, <1>2, <1>3 DEF ReportesInit, TablesInit, ReportesTypeOK
<1>5. TakenBeforeFinished
  <2>1. \A f \in Folios : \A i \in DOMAIN historial[f] : historial[f][i].nuevo = "CREADA"
    BY DEF ReportesInit, TablesInit, Filing
  <2> QED
    BY <2>1 DEF TakenBeforeFinished
<1>6. ASSUME NEW d \in Readers
      PROVE  Reading(d)
  <2>1. /\ at[d] = "idle" /\ rows[d] = <<>> /\ page[d] = 1 /\ entered[d] = {} /\ left[d] = {}
    BY DEF ReportesInit
  <2> QED
    BY <2>1 DEF Reading, Stages, RowsFromEntries, Moves, Watching, Walk, ShownOnce, Figures
<1> QED
  BY <1>4, <1>5, <1>6 DEF ReportesIInv

LEMMA MeanwhileInv ==
  ASSUME ReportesIInv, Meanwhile
  PROVE  ReportesIInv'
<1>1. ReportesTypeOK /\ TakenBeforeFinished
  BY DEF ReportesIInv
<1>2. /\ historial' \in [Folios -> Seq(HistorialEntry)]
      /\ responsible' \in [Tipos -> CatalogueRoles] /\ TakenBeforeFinished'
  BY <1>1, CommitFacts DEF Meanwhile
<1>3. /\ \A d \in Readers : /\ stayed'[d] \in SUBSET Folios /\ entered'[d] \in SUBSET Folios
                            /\ left'[d] \in SUBSET Folios
  BY <1>1, WatchFacts
<1>4. /\ stayed' \in [Readers -> SUBSET Folios] /\ entered' \in [Readers -> SUBSET Folios]
      /\ left' \in [Readers -> SUBSET Folios]
  BY <1>3 DEF Meanwhile, Watch
<1>5. ReportesTypeOK'
  BY <1>1, <1>2, <1>4 DEF ReportesTypeOK, Meanwhile
<1> QED
  BY <1>2, <1>5, MeanwhileReading DEF ReportesIInv

LEMMA ReportesStepInv == ReportesIInv /\ [ReportesNext]_reportesVars => ReportesIInv'
<1> SUFFICES ASSUME ReportesIInv, [ReportesNext]_reportesVars
             PROVE  ReportesIInv'
  OBVIOUS
<1>1. CASE Meanwhile
  BY <1>1, MeanwhileInv
<1>2. ASSUME NEW d \in Readers, Read(d), UNCHANGED tables
      PROVE  ReportesIInv'
  BY <1>2, RefuseInv, CountFirstInv, SlicePageInv, CountNextInv, ByEstadoInv, ByTipoInv,
     ByMonthInv, PdfRowsInv, CsvInv, DetailRowInv, DetailHistorialInv DEF Read
<1>3. CASE UNCHANGED reportesVars
  <2>1. UNCHANGED tables /\ \A d \in Readers : Unmoved(d)
    BY <1>3 DEF reportesVars, readers, Unmoved
  <2>2. \A d \in Readers : Reading(d)'
    BY <2>1, KeptReader DEF ReportesIInv
  <2>3. ReportesTypeOK'
    BY <1>3 DEF ReportesIInv, ReportesTypeOK, reportesVars, tables, readers
  <2>4. TakenBeforeFinished'
    BY <1>3 DEF ReportesIInv, TakenBeforeFinished, reportesVars, tables
  <2> QED
    BY <2>2, <2>3, <2>4 DEF ReportesIInv
<1> QED
  BY <1>1, <1>2, <1>3 DEF ReportesNext

THEOREM ReportesInvariance == ReportesSpec => []ReportesIInv
  BY ReportesInitInv, ReportesStepInv, PTL DEF ReportesSpec

\* A row of a list or an export is one committed state, a detail never shows a
\* handler older than its estado, and what was taken or finished shows by whom.
THEOREM ReportesShowCommittedStates == ReportesSpec => []RowsAreCommittedStates
<1>1. ReportesIInv => RowsAreCommittedStates
  <2> SUFFICES ASSUME ReportesIInv, NEW d \in Readers, at[d] \in {"paged", "done"},
                      NEW k \in DOMAIN rows[d]
               PROVE  \E m, n \in DOMAIN historial[rows[d][k].folio] :
                        /\ rows[d][k].estado = historial[rows[d][k].folio][m].nuevo
                        /\ TookLast(rows[d][k].folio, n, rows[d][k].handler)
                        /\ IF query[d].view \in Details THEN m <= n ELSE m = n
                        /\ rows[d][k].estado \in {"EN_PROCESO", "FINALIZADA"}
                             => rows[d][k].handler # Nobody
    BY DEF RowsAreCommittedStates
  <2>1. PICK row \in SolicitudRow : row = rows[d][k] /\ row.folio \in Folios
    <3>1. rows[d] \in Seq(SolicitudRow)
      BY DEF ReportesIInv, ReportesTypeOK
    <3>2. \A row \in SolicitudRow : row.folio \in Folios
      BY DEF SolicitudRow
    <3> QED
      BY <3>1, <3>2
  <2>2. PICK m \in DOMAIN historial[row.folio], n \in DOMAIN historial[row.folio] :
          FromEntries(row, m, n) /\ IF query[d].view \in Details THEN m <= n ELSE m = n
    BY <2>1 DEF ReportesIInv, Reading, RowsFromEntries
  <2>3. PICK h : h = historial[row.folio] /\ h \in Seq(HistorialEntry)
    BY <2>1 DEF ReportesIInv, ReportesTypeOK
  <2>4. m \in Nat /\ n \in Nat /\ m >= 1 /\ m <= n
    BY <2>2, <2>3
  <2>5. ASSUME row.estado \in {"EN_PROCESO", "FINALIZADA"}
        PROVE  row.handler # Nobody
    <3>1. \E i \in 1 .. n : h[i].nuevo = "EN_PROCESO"
      <4>1. CASE row.estado = "EN_PROCESO"
        <5>1. h[m].nuevo = "EN_PROCESO"
          BY <2>2, <2>3, <4>1 DEF FromEntries
        <5> QED
          BY <2>4, <5>1
      <4>2. CASE row.estado = "FINALIZADA"
        <5>1. \E j \in 1 .. m - 1 : h[j].nuevo = "EN_PROCESO"
          BY <2>1, <2>2, <2>3, <4>2 DEF ReportesIInv, TakenBeforeFinished, FromEntries
        <5> QED
          BY <2>4, <5>1
      <4> QED
        BY <2>5, <4>1, <4>2
    <3>2. PICK i \in 1 .. n : h[i].actor = row.handler
      BY <2>2, <2>3, <3>1 DEF FromEntries, TookLast
    <3>3. h[i] \in HistorialEntry
      BY <2>2, <2>3, <2>4
    <3> QED
      BY <3>2, <3>3, NobodyAssumption DEF HistorialEntry
  <2> QED
    BY <2>1, <2>2, <2>5 DEF FromEntries
<1> QED
  BY <1>1, ReportesInvariance, PTL

\* A walk to the last page with one filter misses a folio that matched all along
\* only if a newer one moved, and shows one twice only if a newer one came in.
THEOREM ReportesExplainWalks == ReportesSpec => []WalksAreExplained
<1>1. ReportesIInv => WalksAreExplained
  BY DEF ReportesIInv, Reading, Walk, OneWalk, ShownOnce, WalksAreExplained
<1> QED
  BY <1>1, ReportesInvariance, PTL

\* The figures of a dashboard or a PDF differ only by what moved while it was made
\* and by what lies outside the chart.
THEOREM ReportesFiguresDiffer == ReportesSpec => []FiguresDifferByMoves
<1>1. ReportesIInv => FiguresDifferByMoves
  BY DEF ReportesIInv, Reading, Figures, FiguresDifferByMoves
<1> QED
  BY <1>1, ReportesInvariance, PTL
=============================================================================
