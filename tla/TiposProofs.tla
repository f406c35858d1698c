---------------------------- MODULE TiposProofs ----------------------------
(***************************************************************************)
(* Tipos, proved for every set of requests, slugs and candidates, and for  *)
(* every MAX_FIELDS_PER_TIPO below the offset.                             *)
(*                                                                         *)
(* WriteInv: the lock of the row and the unique slug keep transactions at  *)
(* different tipos, so that the row which a transaction saves is current   *)
(* and its overlay is that of the committed fields.  In the overlay each   *)
(* field waits with a parked order or is what an input already written     *)
(* says; at COMMIT none waits, and the overlay is what was submitted.      *)
(***************************************************************************)
EXTENDS Tipos, SequenceTheorems, TLAPS

\* A stage of a request.
Stages == {"idle"} \cup Running \cup Ended

\* r moves on and nobody else.
LEMMA PcUpdate ==
  ASSUME TypeOK, NEW r \in Requests, NEW step \in Stages, Goto(r, step)
  PROVE  /\ pc' \in [Requests -> Stages] /\ pc'[r] = step
         /\ \A s \in Requests \ {r} : pc'[s] = pc[s]
BY DEF TypeOK, Goto, Stages

\* A sequence of inputs is indexed from 1.
LEMMA FormDomain ==
  ASSUME NEW p \in Seq(Input)
  PROVE  \E n \in Nat : DOMAIN p = 1 .. n /\ \A i \in 1 .. n : p[i] \in Input
BY SeqDef

\* What a page can send back.
LEMMA FormsType ==
  ASSUME NEW ids \in SUBSET FieldId, NEW p \in Forms(ids)
  PROVE  /\ p \in Seq(Input)
         /\ \A i \in DOMAIN p :
              /\ p[i].order < MaxFields
              /\ p[i].field \in ids \cup {New}
              /\ \A j \in DOMAIN p : i # j =>
                   /\ p[i].order # p[j].order
                   /\ p[i].field = p[j].field => p[i].field = New
<1>1. PICK n \in 0 .. MaxFields : p \in [1 .. n -> [field: ids \cup {New}, order: 0 .. n - 1]]
  BY DEF Forms
<1>2. n \in Nat /\ n <= MaxFields /\ MaxFields \in Nat
  BY LimitsAssumption
<1>3. \A i \in 1 .. n : p[i] \in Input /\ p[i].field \in ids \cup {New} /\ p[i].order \in 0 .. n - 1
  BY <1>1, <1>2 DEF Input
<1>4. p \in [1 .. n -> Input]
  BY <1>1, <1>3
<1>5. p \in Seq(Input)
  BY <1>2, <1>4, SeqDef
<1>6. \A i, j \in 1 .. n : i < j =>
        /\ p[i].order # p[j].order
        /\ p[i].field \in {New, p[j].field} => p[j].field = New
  BY <1>1 DEF Forms, Valid
<1>7. \A i, j \in 1 .. n : i # j => i < j \/ j < i
  BY <1>2
<1> QED
  BY <1>1, <1>2, <1>3, <1>5, <1>6, <1>7

\* The form of a request is what it posted.
LEMMA FormOfRequest ==
  ASSUME NEW r \in Requests
  PROVE  Form(r) = posted[r] /\ Form(r)' = posted'[r]
BY SeedAssumption DEF Form

\* Who is saved stays saved, and what it submitted stays what it was.
LEMMA SavedStay ==
  ASSUME NEW r \in Requests, pc[r] # "saved",
         \A s \in Requests \ {r} : pc'[s] = pc[s] /\ posted'[s] = posted[s],
         NEW w \in Authors, Saved(w)
  PROVE  Saved(w)' /\ Submitted(w)' = Submitted(w)
<1>1. Saved(w)'
  BY DEF Saved
<1>2. Form(w)' = Form(w)
  BY DEF Saved, Form
<1> QED
  BY <1>1, <1>2 DEF Submitted

\* The rows of the two tables, field by field.
LEMMA RowTypes ==
  ASSUME TypeOK
  PROVE  /\ \A t \in tipos : t.id \in Authors /\ t.by \in Authors /\ t.slug \in Slugs
         /\ \A f \in fields : f.id \in FieldId /\ f.id[1] \in Authors /\ f.tipo \in Authors
                              /\ f.order \in Nat
BY DEF TypeOK, Tipo, Field, FieldId

\* The tables as they are while a request neither commits nor deactivates.
LEMMA TableQuiet ==
  ASSUME TypeOK, TableInv, NEW r \in Requests, pc[r] # "saved",
         \A s \in Requests \ {r} : pc'[s] = pc[s] /\ posted'[s] = posted[s],
         UNCHANGED <<tipos, fields>>
  PROVE  TableInv'
<1>1. CommittedIsSaved'
  BY SavedStay, RowTypes DEF TableInv, CommittedIsSaved
<1>2. TiposAreNamed' /\ IdsIdentify'
  BY DEF TableInv, TiposAreNamed, IdsIdentify
<1>3. OneSubmission'
  <2> SUFFICES ASSUME NEW t \in tipos
               PROVE  /\ Says(FieldsOf(t.id)) = Submitted(t.by)'
                      /\ \A f, g \in FieldsOf(t.id) : f.order = g.order => f = g
    BY DEF OneSubmission, FieldsOf, Says
  <2>1. Submitted(t.by)' = Submitted(t.by)
    BY SavedStay, RowTypes DEF TableInv, CommittedIsSaved
  <2> QED
    BY <2>1 DEF TableInv, OneSubmission
<1> QED
  BY <1>1, <1>2, <1>3 DEF TableInv

\* What others have read stays a submission.
LEMMA ReadingsStay ==
  ASSUME TypeOK, ReadingsAreWhole, NEW r \in Requests, pc[r] # "saved",
         \A s \in Requests \ {r} : /\ pc'[s] = pc[s] /\ posted'[s] = posted[s]
                                   /\ kind'[s] = kind[s] /\ seen'[s] = seen[s],
         kind'[r] \in {"edit", "snapshot"} /\ pc'[r] \in {"thinking", "posting", "shown"} \cup Writing
           => \E w \in Authors : Saved(w) /\ Says(seen'[r]) = Submitted(w)
  PROVE  ReadingsAreWhole'
<1> SUFFICES ASSUME NEW s \in Requests, kind'[s] \in {"edit", "snapshot"},
                    pc'[s] \in {"thinking", "posting", "shown"} \cup Writing
             PROVE  \E w \in Authors : Saved(w)' /\ Says(seen'[s]) = Submitted(w)'
  BY DEF ReadingsAreWhole, Writing, Says
<1>1. \E w \in Authors : Saved(w) /\ Says(seen'[s]) = Submitted(w)
  BY DEF ReadingsAreWhole
<1> QED
  BY <1>1, SavedStay

\* The order of a committed field is below MAX_FIELDS_PER_TIPO.
LEMMA OrdersAreSmall ==
  ASSUME TypeOK, OneSubmission, FormsAreLegal, NEW t \in tipos, NEW f \in FieldsOf(t.id)
  PROVE  f.order \in Nat /\ f.order < MaxFields
<1>1. f.order \in Nat /\ t.by \in Authors
  BY RowTypes DEF FieldsOf
<1>2. <<f.order, f.content>> \in Submitted(t.by)
  BY DEF OneSubmission, Says
<1>3. PICK i \in DOMAIN Form(t.by) : f.order = Form(t.by)[i].order
  BY <1>2 DEF Submitted
<1>4. CASE t.by = Seed
  BY <1>1, <1>3, <1>4, SeedAssumption, LimitsAssumption DEF Form, SeedForm
<1>5. CASE t.by \in Requests
  BY <1>1, <1>3, <1>5, FormOfRequest DEF FormsAreLegal
<1> QED
  BY <1>1, <1>4, <1>5 DEF Authors

\* Nobody starts to write.
LEMMA WritersStay ==
  ASSUME WritersAreApart,
         \A s \in Requests : pc'[s] \in Writing =>
           pc[s] \in Writing /\ kind'[s] = kind[s] /\ target'[s] = target[s] /\ row'[s] = row[s]
  PROVE  WritersAreApart'
BY DEF WritersAreApart, Writing

\* The row that s saves is still current.
LEMMA CurrentStays ==
  ASSUME NEW s \in Requests, Current(s),
         row'[s] = row[s], kind'[s] = kind[s], target'[s] = target[s],
         kind[s] = "edit" => \A t \in tipos : t.id = target[s] => t \in tipos',
         kind[s] = "create" => row[s].slug \notin Taken',
         tipos \subseteq Tipo
  PROVE  Current(s)'
<1>1. kind[s] = "edit" => \E t \in tipos' : row[s] = [t EXCEPT !.by = s]
  <2> SUFFICES ASSUME kind[s] = "edit" PROVE \E t \in tipos' : row[s] = [t EXCEPT !.by = s]
    OBVIOUS
  <2>1. PICK t \in tipos : row[s] = [t EXCEPT !.by = s]
    BY DEF Current
  <2>2. t.id = target[s]
    BY <2>1 DEF Current, Tipo
  <2> QED
    BY <2>1, <2>2
<1> QED
  BY <1>1 DEF Current

\* The same, while the tipos are not touched.
LEMMA RowsStay ==
  ASSUME RowsAreCurrent, TypeOK, UNCHANGED tipos,
         \A s \in Requests : pc'[s] \in Writing =>
           pc[s] \in Writing /\ kind'[s] = kind[s] /\ target'[s] = target[s] /\ row'[s] = row[s]
  PROVE  RowsAreCurrent'
<1>1. Taken' = Taken
  BY DEF Taken
<1> QED
  BY <1>1, CurrentStays DEF RowsAreCurrent, Current, TypeOK, Writing

\* The overlay of s, which does not move, stays sound.
LEMMA OverlayStays ==
  ASSUME NEW s \in Requests, OverlayIsSound(s),
         /\ pc'[s] = pc[s] /\ posted'[s] = posted[s] /\ target'[s] = target[s]
         /\ next'[s] = next[s] /\ gone'[s] = gone[s] /\ kept'[s] = kept[s],
         FieldsOf(target[s])' = FieldsOf(target[s])
  PROVE  OverlayIsSound(s)'
<1>1. PostedIds(s)' = PostedIds(s)
  BY FormOfRequest DEF PostedIds
<1>2. Ids(FieldsOf(target[s]))' = Ids(FieldsOf(target[s]))
  BY DEF Ids
<1>3. \A f : Overlaid(s, f) => Overlaid(s, f)'
  BY <1>2 DEF Overlaid, Parked, Written
<1>4. \A j : Placed(s, j) => Placed(s, j)'
  BY DEF Placed
<1>5. Overlay(s) => Overlay(s)'
  BY <1>2, <1>3, <1>4 DEF Overlay
<1> QED
  BY <1>1, <1>2, <1>5 DEF OverlayIsSound

\* The same for all but r, while the fields are not touched.
LEMMA OverlaysStay ==
  ASSUME OverlaysAreSound, NEW r \in Requests, OverlayIsSound(r)',
         \A s \in Requests \ {r} : /\ pc'[s] = pc[s] /\ posted'[s] = posted[s]
                                   /\ target'[s] = target[s] /\ next'[s] = next[s]
                                   /\ gone'[s] = gone[s] /\ kept'[s] = kept[s],
         UNCHANGED fields
  PROVE  OverlaysAreSound'
<1>1. ASSUME NEW s \in Requests \ {r} PROVE FieldsOf(target[s])' = FieldsOf(target[s])
  BY DEF FieldsOf
<1> QED
  BY <1>1, OverlayStays DEF OverlaysAreSound

\* A step of r outside of its transaction leaves the writers alone.
LEMMA OutsideStays ==
  ASSUME TypeOK, WritersAreApart, RowsAreCurrent, OverlaysAreSound,
         NEW r \in Requests, pc'[r] \notin Writing,
         \A s \in Requests \ {r} :
           /\ pc'[s] = pc[s] /\ posted'[s] = posted[s] /\ target'[s] = target[s]
           /\ kind'[s] = kind[s] /\ row'[s] = row[s]
           /\ next'[s] = next[s] /\ gone'[s] = gone[s] /\ kept'[s] = kept[s],
         UNCHANGED <<tipos, fields>>
  PROVE  WritersAreApart' /\ RowsAreCurrent' /\ OverlaysAreSound'
<1>1. \A s \in Requests : pc'[s] \in Writing =>
        pc[s] \in Writing /\ kind'[s] = kind[s] /\ target'[s] = target[s] /\ row'[s] = row[s]
  OBVIOUS
<1>2. OverlayIsSound(r)'
  BY DEF OverlayIsSound, Writing
<1> QED
  BY <1>1, <1>2, WritersStay, RowsStay, OverlaysStay

\* The initial states.
LEMMA InitHolds == Init => IInv
<1> SUFFICES ASSUME Init PROVE IInv
  OBVIOUS
<1>1. TypeOK
  <2>1. tipos \subseteq Tipo /\ row \in [Requests -> Tipo] /\ target \in [Requests -> Authors]
    BY SeedAssumption DEF Init, Tipo, SeedTipo, Authors
  <2>2. fields \subseteq Field
    BY SeedAssumption, LimitsAssumption DEF Init, Field, FieldId, Authors
  <2>3. <<>> \in Seq(Slugs) /\ <<>> \in Seq(Input)
    OBVIOUS
  <2> QED
    BY <2>1, <2>2, <2>3 DEF Init, TypeOK
<1>2. StagesAreSound /\ WritersAreApart /\ OverlaysAreSound /\ RowsAreCurrent /\ TargetsExist
  BY DEF OverlayIsSound, Init, StagesAreSound, WritersAreApart, OverlaysAreSound,
     RowsAreCurrent, TargetsExist,
         Writing
<1>3. FormsAreLegal /\ PagesAreOld /\ ReadingsAreWhole /\ SlugsWereTaken /\ OnlyRacesConflict
      /\ OrdersNeverCollide
  BY DEF Init, FormsAreLegal, PagesAreOld, ReadingsAreWhole, SlugsWereTaken, OnlyRacesConflict,
         OrdersNeverCollide
<1>4. CommittedIsSaved /\ TiposAreNamed /\ IdsIdentify
  <2>1. CommittedIsSaved /\ TiposAreNamed
    BY DEF Init, CommittedIsSaved, TiposAreNamed, Saved, SeedTipo
  <2>2. \A f, g \in fields : f.id = g.id => f = g
    BY SeedAssumption DEF Init
  <2> QED
    BY <2>1, <2>2 DEF IdsIdentify
<1>5. OneSubmission
  <2> DEFINE N == 1 .. SeedSize
  <2>1. FieldsOf(Seed) = fields
    BY DEF Init, FieldsOf
  <2>2. Says(fields) = { <<i - 1, <<Seed, i>>>> : i \in N }
    <3>1. ASSUME NEW x \in Says(fields) PROVE x \in { <<i - 1, <<Seed, i>>>> : i \in N }
      BY DEF Init, Says
    <3>2. ASSUME NEW i \in N PROVE <<i - 1, <<Seed, i>>>> \in Says(fields)
      <4> DEFINE f == [id |-> <<Seed, i>>, tipo |-> Seed, order |-> i - 1, content |-> <<Seed, i>>]
      <4>1. f \in fields
        BY DEF Init
      <4>2. <<f.order, f.content>> = <<i - 1, <<Seed, i>>>>
        OBVIOUS
      <4> HIDE DEF f
      <4> QED
        BY <4>1, <4>2 DEF Says
    <3> QED
      BY <3>1, <3>2
  <2>3. Submitted(Seed) = { <<i - 1, <<Seed, i>>>> : i \in N }
    <3>1. DOMAIN Form(Seed) = N /\ \A i \in N : Form(Seed)[i].order = i - 1
      BY DEF Form, SeedForm
    <3> QED
      BY <3>1 DEF Submitted
  <2>4. \A f, g \in fields : f.order = g.order => f = g
    BY SeedAssumption DEF Init
  <2>5. tipos = {SeedTipo} /\ SeedTipo.id = Seed /\ SeedTipo.by = Seed
    BY DEF Init, SeedTipo
  <2> QED
    BY <2>1, <2>2, <2>3, <2>4, <2>5 DEF OneSubmission
<1> QED
  BY <1>1, <1>2, <1>3, <1>4, <1>5 DEF IInv, TableInv, PageInv, WriteInv, NameInv

-----------------------------------------------------------------------------
(***************************************************************************)
(* The steps.                                                              *)
(***************************************************************************)
LEMMA ReadRowStep ==
  ASSUME IInv, NEW r \in Requests, ReadRow(r)
  PROVE  IInv'
<1>1. PICK t \in tipos, k \in {"edit", "snapshot"} :
        /\ kind' = [kind EXCEPT ![r] = k]
        /\ target' = [target EXCEPT ![r] = t.id]
        /\ Goto(r, IF k = "snapshot" /\ ~t.activo THEN "refused" ELSE "reading")
  BY DEF ReadRow
<1> DEFINE step == IF k = "snapshot" /\ ~t.activo THEN "refused" ELSE "reading"
<1>2. /\ pc[r] = "idle" /\ TypeOK /\ t.id \in Authors
      /\ UNCHANGED <<tipos, fields, names, before, seen, posted, row, next, gone, kept>>
  BY RowTypes DEF ReadRow, IInv, naming, txn
<1>3. /\ pc' \in [Requests -> Stages] /\ pc'[r] = step /\ step \in {"refused", "reading"}
      /\ \A s \in Requests \ {r} : pc'[s] = pc[s]
  BY <1>1, <1>2, PcUpdate DEF Stages, Running, Ended
<1>4. /\ kind'[r] = k /\ target'[r] = t.id
      /\ \A s \in Requests \ {r} : kind'[s] = kind[s] /\ target'[s] = target[s]
  BY <1>1, <1>2 DEF TypeOK
<1>5. TypeOK'
  BY <1>1, <1>2, <1>3 DEF TypeOK, Stages
<1>6. StagesAreSound'
  BY <1>2, <1>3, <1>4 DEF IInv, StagesAreSound, Writing
<1>7. TableInv'
  BY <1>2, <1>3, TableQuiet DEF IInv
<1>8. ReadingsAreWhole'
  BY <1>2, <1>3, <1>4, ReadingsStay DEF IInv, PageInv, Writing
<1>9. PageInv'
  BY <1>2, <1>8 DEF IInv, PageInv, FormsAreLegal, PagesAreOld
<1>10. TargetsExist'
  BY <1>1, <1>2, <1>4 DEF IInv, WriteInv, TargetsExist
<1>11. WritersAreApart' /\ RowsAreCurrent' /\ OverlaysAreSound'
  BY <1>2, <1>3, <1>4, OutsideStays DEF IInv, WriteInv, Writing
<1>12. NameInv' /\ OrdersNeverCollide'
  BY <1>2, <1>3 DEF IInv, NameInv, SlugsWereTaken, OnlyRacesConflict, OrdersNeverCollide, Taken
<1> QED
  BY <1>5, <1>6, <1>7, <1>9, <1>10, <1>11, <1>12 DEF IInv, WriteInv

LEMMA ReadFieldsStep ==
  ASSUME IInv, NEW r \in Requests, ReadFields(r)
  PROVE  IInv'
<1> DEFINE step == IF kind[r] = "edit" THEN "thinking" ELSE "shown"
<1>1. /\ pc[r] = "reading" /\ TypeOK /\ Goto(r, step)
      /\ seen' = [seen EXCEPT ![r] = FieldsOf(target[r])]
      /\ UNCHANGED <<tipos, fields, kind, target, names, before, posted, row, next, gone, kept>>
  BY DEF ReadFields, IInv, naming, txn
<1>2. /\ pc' \in [Requests -> Stages] /\ pc'[r] = step /\ step \in {"thinking", "shown"}
      /\ \A s \in Requests \ {r} : pc'[s] = pc[s]
  BY <1>1, PcUpdate DEF Stages, Running, Ended
<1>3. /\ FieldsOf(target[r]) \subseteq fields
      /\ seen' \in [Requests -> SUBSET Field] /\ seen'[r] = FieldsOf(target[r])
      /\ \A s \in Requests \ {r} : seen'[s] = seen[s]
  BY <1>1 DEF TypeOK, FieldsOf
<1>4. TypeOK'
  BY <1>1, <1>2, <1>3 DEF TypeOK, Stages
<1>5. StagesAreSound'
  BY <1>1, <1>2 DEF IInv, StagesAreSound, Writing
<1>6. TableInv'
  BY <1>1, <1>2, TableQuiet DEF IInv
<1>7. \E w \in Authors : Saved(w) /\ Says(seen'[r]) = Submitted(w)
  <2>1. kind[r] \in {"edit", "snapshot"}
    BY <1>1 DEF IInv, StagesAreSound
  <2>2. PICK t \in tipos : t.id = target[r]
    BY <2>1 DEF IInv, WriteInv, TargetsExist
  <2>3. Saved(t.by) /\ t.by \in Authors /\ Says(FieldsOf(t.id)) = Submitted(t.by)
    BY <1>1, RowTypes DEF IInv, TableInv, CommittedIsSaved, OneSubmission
  <2> QED
    BY <1>3, <2>2, <2>3
<1>8. ReadingsAreWhole'
  BY <1>1, <1>2, <1>3, <1>7, ReadingsStay DEF IInv, PageInv
<1>9. PagesAreOld'
  <2>1. \A f \in fields : f.id[1] # r
    BY <1>1, SeedAssumption DEF IInv, TableInv, CommittedIsSaved, Saved
  <2> QED
    BY <1>3, <2>1 DEF IInv, PageInv, PagesAreOld
<1>10. PageInv'
  BY <1>1, <1>8, <1>9 DEF IInv, PageInv, FormsAreLegal
<1>11. TargetsExist'
  BY <1>1 DEF IInv, WriteInv, TargetsExist
<1>12. WritersAreApart' /\ RowsAreCurrent' /\ OverlaysAreSound'
  BY <1>1, <1>2, OutsideStays DEF IInv, WriteInv, Writing
<1>13. NameInv' /\ OrdersNeverCollide'
  BY <1>1, <1>2 DEF IInv, NameInv, SlugsWereTaken, OnlyRacesConflict, OrdersNeverCollide, Taken
<1> QED
  BY <1>4, <1>5, <1>6, <1>10, <1>11, <1>12, <1>13 DEF IInv, WriteInv

LEMMA PostStep ==
  ASSUME IInv, NEW r \in Requests, Post(r)
  PROVE  IInv'
<1>1. PICK p \in Forms(Ids(seen[r])) : posted' = [posted EXCEPT ![r] = p]
  BY DEF Post
<1>2. /\ pc[r] = "thinking" /\ TypeOK /\ Goto(r, "posting")
      /\ UNCHANGED <<tipos, fields, kind, target, names, before, seen, row, next, gone, kept>>
  BY DEF Post, IInv, naming, txn
<1>3. /\ pc' \in [Requests -> Stages] /\ pc'[r] = "posting"
      /\ \A s \in Requests \ {r} : pc'[s] = pc[s]
  BY <1>2, PcUpdate DEF Stages, Running
<1>4. Ids(seen[r]) \subseteq FieldId
  BY <1>2 DEF TypeOK, Field, Ids
<1>5. p \in Seq(Input)
  BY <1>4, FormsType
<1>6. /\ posted' \in [Requests -> Seq(Input)] /\ posted'[r] = p
      /\ \A s \in Requests \ {r} : posted'[s] = posted[s]
  BY <1>1, <1>2, <1>5 DEF TypeOK
<1>7. TypeOK'
  BY <1>2, <1>3, <1>6 DEF TypeOK, Stages
<1>8. StagesAreSound'
  BY <1>2, <1>3 DEF IInv, StagesAreSound, Writing
<1>9. TableInv'
  BY <1>2, <1>3, <1>6, TableQuiet DEF IInv
<1>10. ReadingsAreWhole'
  <2>1. kind[r] = "edit"
    BY <1>2 DEF IInv, StagesAreSound
  <2>2. \E w \in Authors : Saved(w) /\ Says(seen[r]) = Submitted(w)
    BY <1>2, <2>1 DEF IInv, PageInv, ReadingsAreWhole
  <2> QED
    BY <1>2, <1>3, <1>6, <2>2, ReadingsStay DEF IInv, PageInv
<1>11. FormsAreLegal'
  <2>1. \A x \in Ids(seen[r]) : x[1] # r
    BY DEF IInv, PageInv, PagesAreOld, Ids
  <2>2. \A i \in DOMAIN p :
          /\ p[i].order < MaxFields
          /\ p[i].field = New \/ p[i].field[1] # r
          /\ \A j \in DOMAIN p : i # j =>
               /\ p[i].order # p[j].order
               /\ p[i].field = p[j].field => p[i].field = New
    BY <1>4, <2>1, FormsType
  <2> QED
    BY <1>6, <2>2 DEF IInv, PageInv, FormsAreLegal
<1>12. PageInv'
  BY <1>2, <1>10, <1>11 DEF IInv, PageInv, PagesAreOld
<1>13. TargetsExist'
  BY <1>2 DEF IInv, WriteInv, TargetsExist
<1>14. WritersAreApart' /\ RowsAreCurrent' /\ OverlaysAreSound'
  BY <1>2, <1>3, <1>6, OutsideStays DEF IInv, WriteInv, Writing
<1>15. NameInv' /\ OrdersNeverCollide'
  BY <1>2, <1>3 DEF IInv, NameInv, SlugsWereTaken, OnlyRacesConflict, OrdersNeverCollide, Taken
<1> QED
  BY <1>7, <1>8, <1>9, <1>12, <1>13, <1>14, <1>15 DEF IInv, WriteInv

LEMMA CreateStep ==
  ASSUME IInv, NEW r \in Requests, Create(r)
  PROVE  IInv'
<1>1. PICK c \in Candidates, p \in Forms({}) :
        names' = [names EXCEPT ![r] = c] /\ posted' = [posted EXCEPT ![r] = p]
  BY DEF Create
<1>2. /\ pc[r] = "idle" /\ TypeOK /\ Goto(r, "naming")
      /\ UNCHANGED <<tipos, fields, seen, row, next, gone, kept>>
  BY DEF Create, IInv, txn
<1>3. /\ pc' \in [Requests -> Stages] /\ pc'[r] = "naming"
      /\ \A s \in Requests \ {r} : pc'[s] = pc[s]
  BY <1>2, PcUpdate DEF Stages, Running
<1>4. /\ p \in Seq(Input) /\ c \in Seq(Slugs) /\ r \in Authors
      /\ \A i \in DOMAIN p :
           /\ p[i].order < MaxFields
           /\ p[i].field = New
           /\ \A j \in DOMAIN p : i # j => p[i].order # p[j].order
  BY FormsType, NamesAssumption DEF Authors
<1>5. /\ posted' \in [Requests -> Seq(Input)] /\ posted'[r] = p /\ kind'[r] = "create"
      /\ target' \in [Requests -> Authors] /\ target'[r] = r
      /\ names' \in [Requests -> Seq(Slugs)] /\ before'[r] = Taken
      /\ \A s \in Requests \ {r} :
           /\ posted'[s] = posted[s] /\ kind'[s] = kind[s] /\ target'[s] = target[s]
           /\ names'[s] = names[s] /\ before'[s] = before[s]
  BY <1>1, <1>2, <1>4 DEF TypeOK, Create
<1>6. /\ before' \in [Requests -> SUBSET Slugs]
      /\ kind' \in [Requests -> {"none", "edit", "snapshot", "create", "deactivate"}]
  BY <1>2, RowTypes DEF TypeOK, Taken, Create
<1>7. TypeOK'
  BY <1>2, <1>3, <1>5, <1>6 DEF TypeOK, Stages
<1>8. StagesAreSound'
  <2>1. \A s \in Requests \ {r} : pc'[s] = pc[s] /\ kind'[s] = kind[s] /\ names'[s] = names[s]
    BY <1>3, <1>5
  <2>2. kept'[r] = {} /\ next'[r] = 1 /\ gone'[r] = {}
    BY <1>2 DEF IInv, StagesAreSound, Writing
  <2>3. kept' = kept /\ next' = next /\ gone' = gone /\ pc'[r] = "naming" /\ kind'[r] = "create"
    BY <1>2, <1>3, <1>5
  <2> QED
    BY <2>1, <2>2, <2>3 DEF IInv, StagesAreSound, Writing
<1>9. TableInv'
  BY <1>2, <1>3, <1>5, TableQuiet DEF IInv
<1>10. ReadingsAreWhole'
  BY <1>2, <1>3, <1>5, ReadingsStay DEF IInv, PageInv
<1>11. FormsAreLegal'
  <2>1. \A s \in Requests \ {r} : posted'[s] = posted[s]
    BY <1>5
  <2>2. posted'[r] = p
    BY <1>5
  <2> QED
    BY <1>4, <2>1, <2>2 DEF IInv, PageInv, FormsAreLegal
<1>12. PageInv'
  BY <1>2, <1>10, <1>11 DEF IInv, PageInv, PagesAreOld
<1>13. TargetsExist'
  BY <1>2, <1>5 DEF IInv, WriteInv, TargetsExist
<1>14. WritersAreApart' /\ RowsAreCurrent' /\ OverlaysAreSound'
  <2>1. /\ pc'[r] \notin Writing /\ UNCHANGED <<tipos, fields>>
        /\ TypeOK /\ WritersAreApart /\ RowsAreCurrent /\ OverlaysAreSound
    BY <1>2, <1>3 DEF IInv, WriteInv, Writing
  <2>2. \A s \in Requests \ {r} :
          /\ pc'[s] = pc[s] /\ posted'[s] = posted[s] /\ target'[s] = target[s]
          /\ kind'[s] = kind[s] /\ row'[s] = row[s]
          /\ next'[s] = next[s] /\ gone'[s] = gone[s] /\ kept'[s] = kept[s]
    BY <1>2, <1>3, <1>5
  <2> QED
    BY <2>1, <2>2, OutsideStays
<1>15. NameInv' /\ OrdersNeverCollide'
  BY <1>2, <1>3, <1>5 DEF IInv, NameInv, SlugsWereTaken, OnlyRacesConflict, OrdersNeverCollide, Taken
<1> QED
  BY <1>7, <1>8, <1>9, <1>12, <1>13, <1>14, <1>15 DEF IInv, WriteInv

LEMMA TryNameStep ==
  ASSUME IInv, NEW r \in Requests, TryName(r)
  PROVE  IInv'
<1>1. /\ pc[r] = "naming" /\ names[r] # <<>> /\ TypeOK
      /\ UNCHANGED <<tipos, fields, kind, target, before, seen, posted, row, next, gone, kept>>
  BY DEF TryName, IInv, txn
<1>2. names[r] \in Seq(Slugs) /\ Tail(names[r]) \in Seq(Slugs)
  BY <1>1, HeadTailProperties DEF TypeOK
<1>3. /\ pc' \in [Requests -> Stages] /\ pc'[r] \in {"naming", "inserting"}
      /\ \A s \in Requests \ {r} : pc'[s] = pc[s]
  BY <1>1, PcUpdate DEF TryName, TypeOK, Stages, Running
<1>4. /\ names' \in [Requests -> Seq(Slugs)]
      /\ \A s \in Requests \ {r} : names'[s] = names[s]
      /\ pc'[r] = "inserting" => names'[r] = names[r] /\ Head(names[r]) \notin Taken
  BY <1>1, <1>2 DEF TryName, TypeOK, Goto
<1>5. TypeOK'
  BY <1>1, <1>3, <1>4 DEF TypeOK, Stages
<1>6. StagesAreSound'
  BY <1>1, <1>3, <1>4 DEF IInv, StagesAreSound, Writing
<1>7. TableInv'
  BY <1>1, <1>3, TableQuiet DEF IInv
<1>8. ReadingsAreWhole'
  BY <1>1, <1>3, ReadingsStay DEF IInv, PageInv, Writing
<1>9. PageInv'
  BY <1>1, <1>8 DEF IInv, PageInv, PagesAreOld, FormsAreLegal
<1>10. TargetsExist'
  BY <1>1 DEF IInv, WriteInv, TargetsExist
<1>11. WritersAreApart' /\ RowsAreCurrent' /\ OverlaysAreSound'
  BY <1>1, <1>3, OutsideStays DEF IInv, WriteInv, Writing
<1>12. NameInv' /\ OrdersNeverCollide'
  BY <1>1, <1>3, <1>4 DEF IInv, NameInv, SlugsWereTaken, OnlyRacesConflict, OrdersNeverCollide, Taken
<1> QED
  BY <1>5, <1>6, <1>7, <1>9, <1>10, <1>11, <1>12 DEF IInv, WriteInv

LEMMA DeactivateStep ==
  ASSUME IInv, NEW r \in Requests, Deactivate(r)
  PROVE  IInv'
<1>1. PICK t \in tipos : target' = [target EXCEPT ![r] = t.id]
  BY DEF Deactivate
<1>2. /\ pc[r] = "idle" /\ TypeOK /\ Goto(r, "deactivating") /\ t.id \in Authors
      /\ kind' = [kind EXCEPT ![r] = "deactivate"]
      /\ UNCHANGED <<tipos, fields, names, before, seen, posted, row, next, gone, kept>>
  BY RowTypes DEF Deactivate, IInv, naming, txn
<1>3. /\ pc' \in [Requests -> Stages] /\ pc'[r] = "deactivating"
      /\ \A s \in Requests \ {r} : pc'[s] = pc[s]
  BY <1>2, PcUpdate DEF Stages, Running
<1>4. /\ target' \in [Requests -> Authors] /\ target'[r] = t.id /\ kind'[r] = "deactivate"
      /\ \A s \in Requests \ {r} : kind'[s] = kind[s] /\ target'[s] = target[s]
  BY <1>1, <1>2 DEF TypeOK
<1>5. TypeOK'
  BY <1>2, <1>3, <1>4 DEF TypeOK, Stages
<1>6. StagesAreSound'
  BY <1>2, <1>3, <1>4 DEF IInv, StagesAreSound, Writing
<1>7. TableInv'
  BY <1>2, <1>3, TableQuiet DEF IInv
<1>8. ReadingsAreWhole'
  BY <1>2, <1>3, <1>4, ReadingsStay DEF IInv, PageInv
<1>9. PageInv'
  BY <1>2, <1>8 DEF IInv, PageInv, PagesAreOld, FormsAreLegal
<1>10. TargetsExist'
  BY <1>2, <1>4 DEF IInv, WriteInv, TargetsExist
<1>11. WritersAreApart' /\ RowsAreCurrent' /\ OverlaysAreSound'
  BY <1>2, <1>3, <1>4, OutsideStays DEF IInv, WriteInv, Writing
<1>12. NameInv' /\ OrdersNeverCollide'
  BY <1>2, <1>3 DEF IInv, NameInv, SlugsWereTaken, OnlyRacesConflict, OrdersNeverCollide, Taken
<1> QED
  BY <1>5, <1>6, <1>7, <1>9, <1>10, <1>11, <1>12 DEF IInv, WriteInv

-----------------------------------------------------------------------------
(***************************************************************************)
(* The steps of a transaction.                                             *)
(***************************************************************************)
\* Two transactions are at two tipos, an edit and a create too.
LEMMA TargetsApart ==
  ASSUME IInv, NEW r \in Requests, NEW s \in Requests, r # s,
         pc[r] \in Writing, pc[s] \in Writing
  PROVE  target[r] # target[s]
<1>1. \A u \in Requests : pc[u] \in Writing => kind[u] \in {"edit", "create"}
  BY DEF IInv, StagesAreSound, Writing
<1>2. ASSUME NEW u \in Requests, NEW w \in Requests, pc[u] \in Writing, pc[w] \in Writing,
             kind[u] = "edit", kind[w] = "create"
      PROVE  target[u] # target[w]
  <2>1. target[w] = w /\ \E t \in tipos : t.id = target[u]
    BY <1>2 DEF IInv, WriteInv, TargetsExist
  <2>2. \A t \in tipos : Saved(t.id)
    BY DEF IInv, TableInv, CommittedIsSaved
  <2> QED
    BY <1>2, <2>1, <2>2, SeedAssumption DEF Saved, Writing
<1> QED
  BY <1>1, <1>2 DEF IInv, WriteInv, WritersAreApart

LEMMA LockTipoStep ==
  ASSUME IInv, NEW r \in Requests, LockTipo(r)
  PROVE  IInv'
<1>1. PICK t \in tipos : t.id = target[r] /\ row' = [row EXCEPT ![r] = [t EXCEPT !.by = r]]
  BY DEF LockTipo
<1>2. /\ pc[r] = "posting" /\ TypeOK /\ Goto(r, "deleting") /\ t \in Tipo
      /\ \A s \in Requests \ {r} : ~Holds(s, target[r])
      /\ UNCHANGED <<tipos, fields, kind, target, names, before, seen, posted, next, gone, kept>>
  BY DEF LockTipo, IInv, naming, TypeOK
<1>3. /\ pc' \in [Requests -> Stages] /\ pc'[r] = "deleting"
      /\ \A s \in Requests \ {r} : pc'[s] = pc[s]
  BY <1>2, PcUpdate DEF Stages, Running, Writing
<1> DEFINE mine == [t EXCEPT !.by = r]
<1>4. mine \in Tipo /\ mine.id = target[r] /\ mine.by = r
  BY <1>1, <1>2 DEF Tipo, Authors
<1>5. /\ row' \in [Requests -> Tipo] /\ row'[r] = mine
      /\ \A s \in Requests \ {r} : row'[s] = row[s]
  <2> HIDE DEF mine
  <2>1. row' = [row EXCEPT ![r] = mine]
    BY <1>1 DEF mine
  <2> QED
    BY <1>2, <1>4, <2>1 DEF TypeOK
<1> HIDE DEF mine
<1>6. TypeOK'
  BY <1>2, <1>3, <1>5 DEF TypeOK, Stages
<1>7. kind[r] = "edit" /\ gone[r] = {}
  BY <1>2 DEF IInv, StagesAreSound, Writing
<1>8. StagesAreSound'
  BY <1>2, <1>3, <1>7 DEF IInv, StagesAreSound, Writing
<1>9. TableInv'
  BY <1>2, <1>3, TableQuiet DEF IInv
<1>10. ReadingsAreWhole'
  <2>1. \E w \in Authors : Saved(w) /\ Says(seen[r]) = Submitted(w)
    BY <1>2, <1>7 DEF IInv, PageInv, ReadingsAreWhole
  <2> QED
    BY <1>2, <1>3, <2>1, ReadingsStay DEF IInv, PageInv
<1>11. PageInv'
  BY <1>2, <1>10 DEF IInv, PageInv, FormsAreLegal, PagesAreOld
<1>12. TargetsExist'
  BY <1>2 DEF IInv, WriteInv, TargetsExist
<1>13. WritersAreApart'
  <2> SUFFICES ASSUME NEW s \in Requests \ {r}, pc[s] \in Writing
               PROVE  /\ kind[r] = kind[s] => target[r] # target[s]
                      /\ ~(kind[r] = "create" /\ kind[s] = "create")
    BY <1>2, <1>3, <1>5 DEF IInv, WriteInv, WritersAreApart, Writing
  <2> QED
    BY <1>2, <1>7 DEF Holds
<1>14. RowsAreCurrent'
  <2>1. Current(r)'
    <3>1. row'[r] = [t EXCEPT !.by = r]
      BY <1>5 DEF mine
    <3> QED
      BY <1>2, <1>4, <1>5, <1>7, <3>1 DEF Current
  <2>2. Taken' = Taken
    BY <1>2 DEF Taken
  <2>3. ASSUME NEW s \in Requests \ {r}, pc[s] \in Writing PROVE Current(s)'
    <3>1. Current(s)
      BY <2>3 DEF IInv, WriteInv, RowsAreCurrent
    <3> QED
      BY <1>2, <1>5, <2>2, <3>1, CurrentStays DEF Current, TypeOK
  <2> QED
    BY <1>3, <2>1, <2>3 DEF RowsAreCurrent, Writing
<1>15. OverlaysAreSound'
  <2>1. OverlayIsSound(r)'
    BY <1>3 DEF OverlayIsSound
  <2> QED
    BY <1>2, <1>3, <2>1, OverlaysStay DEF IInv, WriteInv
<1>16. NameInv' /\ OrdersNeverCollide'
  BY <1>2, <1>3 DEF IInv, NameInv, SlugsWereTaken, OnlyRacesConflict, OrdersNeverCollide, Taken
<1> QED
  BY <1>6, <1>8, <1>9, <1>11, <1>12, <1>13, <1>14, <1>15, <1>16 DEF IInv, WriteInv

\* The slug was taken meanwhile.
LEMMA ConflictStep ==
  ASSUME IInv, NEW r \in Requests, InsertTipo(r), Head(names[r]) \in Taken
  PROVE  IInv'
<1>1. /\ pc[r] = "inserting" /\ TypeOK /\ Goto(r, "conflict")
      /\ UNCHANGED <<tipos, fields, kind, target, names, before, seen, posted, row, next, gone, kept>>
  BY DEF InsertTipo, IInv, naming
<1>2. /\ pc' \in [Requests -> Stages] /\ pc'[r] = "conflict"
      /\ \A s \in Requests \ {r} : pc'[s] = pc[s]
  BY <1>1, PcUpdate DEF Stages, Ended
<1>3. TypeOK'
  BY <1>1, <1>2 DEF TypeOK, Stages
<1>4. StagesAreSound'
  BY <1>1, <1>2 DEF IInv, StagesAreSound, Writing
<1>5. TableInv'
  BY <1>1, <1>2, TableQuiet DEF IInv
<1>6. ReadingsAreWhole'
  BY <1>1, <1>2, ReadingsStay DEF IInv, PageInv, Writing
<1>7. PageInv'
  BY <1>1, <1>6 DEF IInv, PageInv, FormsAreLegal, PagesAreOld
<1>8. TargetsExist'
  BY <1>1 DEF IInv, WriteInv, TargetsExist
<1>9. WritersAreApart' /\ RowsAreCurrent' /\ OverlaysAreSound'
  BY <1>1, <1>2, OutsideStays DEF IInv, WriteInv, Writing
<1>10. NameInv' /\ OrdersNeverCollide'
  BY <1>1, <1>2 DEF IInv, NameInv, SlugsWereTaken, OnlyRacesConflict, OrdersNeverCollide, Taken
<1> QED
  BY <1>3, <1>4, <1>5, <1>7, <1>8, <1>9, <1>10 DEF IInv, WriteInv

LEMMA InsertStep ==
  ASSUME IInv, NEW r \in Requests, InsertTipo(r), Head(names[r]) \notin Taken
  PROVE  IInv'
<1> DEFINE new == [id |-> r, slug |-> Head(names[r]), activo |-> TRUE, by |-> r]
<1>1. /\ pc[r] = "inserting" /\ TypeOK /\ Goto(r, "writing")
      /\ row' = [row EXCEPT ![r] = new]
      /\ \A s \in Requests \ {r} :
           ~(pc[s] = "writing" /\ kind[s] = "create" /\ row[s].slug = Head(names[r]))
      /\ UNCHANGED <<tipos, fields, kind, target, names, before, seen, posted, next, gone, kept>>
  BY DEF InsertTipo, IInv, naming
<1>2. /\ pc' \in [Requests -> Stages] /\ pc'[r] = "writing"
      /\ \A s \in Requests \ {r} : pc'[s] = pc[s]
  BY <1>1, PcUpdate DEF Stages, Running, Writing
<1>3. kind[r] = "create" /\ names[r] # <<>> /\ target[r] = r /\ gone[r] = {} /\ kept[r] = {} /\ next[r] = 1
  BY <1>1 DEF IInv, StagesAreSound, WriteInv, TargetsExist, Writing
<1>4. Head(names[r]) \in Slugs
  BY <1>1, <1>3, HeadTailProperties DEF TypeOK
<1>5. new \in Tipo
  BY <1>4 DEF Tipo, Authors
<1>6. /\ row' \in [Requests -> Tipo] /\ row'[r] = new
      /\ \A s \in Requests \ {r} : row'[s] = row[s]
  <2> HIDE DEF new
  <2> QED
    BY <1>1, <1>5 DEF TypeOK
<1>7. new.id = r /\ new.slug = Head(names[r]) /\ new.activo /\ new.by = r
  OBVIOUS
<1> HIDE DEF new
<1>8. TypeOK'
  BY <1>1, <1>2, <1>6 DEF TypeOK, Stages
<1>9. StagesAreSound'
  BY <1>1, <1>2, <1>3 DEF IInv, StagesAreSound, Writing
<1>10. TableInv'
  BY <1>1, <1>2, TableQuiet DEF IInv
<1>11. ReadingsAreWhole'
  BY <1>1, <1>2, <1>3, ReadingsStay DEF IInv, PageInv
<1>12. PageInv'
  BY <1>1, <1>11 DEF IInv, PageInv, FormsAreLegal, PagesAreOld
<1>13. TargetsExist'
  BY <1>1 DEF IInv, WriteInv, TargetsExist
<1>14. WritersAreApart'
  <2> SUFFICES ASSUME NEW s \in Requests \ {r}, pc[s] \in Writing, kind[s] = "create"
               PROVE  target[r] # target[s] /\ row[s].slug # Head(names[r])
    BY <1>1, <1>2, <1>3, <1>6, <1>7 DEF IInv, WriteInv, WritersAreApart, Writing
  <2>1. target[s] = s
    BY DEF IInv, WriteInv, TargetsExist
  <2>2. pc[s] = "writing"
    BY DEF IInv, StagesAreSound, Writing
  <2> QED
    BY <1>1, <1>3, <2>1, <2>2
<1>15. RowsAreCurrent'
  <2>1. Taken' = Taken
    BY <1>1 DEF Taken
  <2>2. Current(r)'
    BY <1>1, <1>3, <1>6, <1>7, <2>1 DEF Current
  <2>3. ASSUME NEW s \in Requests \ {r}, pc[s] \in Writing PROVE Current(s)'
    <3>1. Current(s)
      BY <2>3 DEF IInv, WriteInv, RowsAreCurrent
    <3> QED
      BY <1>1, <1>6, <2>1, <3>1, CurrentStays DEF Current, TypeOK
  <2> QED
    BY <1>2, <2>2, <2>3 DEF RowsAreCurrent, Writing
<1>16. OverlaysAreSound'
  <2>1. FieldsOf(r) = {}
    <3>1. \A t \in tipos : t.id # r
      BY <1>1, SeedAssumption DEF IInv, TableInv, CommittedIsSaved, Saved
    <3> QED
      BY <3>1 DEF IInv, TableInv, CommittedIsSaved, FieldsOf
  <2>2. /\ FieldsOf(target[r])' = {} /\ gone'[r] = {} /\ kept'[r] = {} /\ next'[r] = 1
        /\ posted'[r] = posted[r]
    BY <1>1, <1>3, <2>1 DEF FieldsOf
  <2>3. \A j \in DOMAIN posted[r] : ~(j < 1)
    <3>1. posted[r] \in Seq(Input)
      BY <1>1 DEF TypeOK
    <3> QED
      BY <3>1, FormDomain
  <2>4. Overlay(r)'
    BY <2>2, <2>3 DEF Overlay, Ids
  <2>5. OverlayIsSound(r)'
    BY <1>2, <2>2, <2>4 DEF OverlayIsSound, Ids
  <2> QED
    BY <1>1, <1>2, <2>5, OverlaysStay DEF IInv, WriteInv
<1>17. NameInv' /\ OrdersNeverCollide'
  BY <1>1, <1>2 DEF IInv, NameInv, SlugsWereTaken, OnlyRacesConflict, OrdersNeverCollide, Taken
<1> QED
  BY <1>8, <1>9, <1>10, <1>12, <1>13, <1>14, <1>15, <1>16, <1>17 DEF IInv, WriteInv

LEMMA DeleteOthersStep ==
  ASSUME IInv, NEW r \in Requests, DeleteOthers(r)
  PROVE  IInv'
<1> DEFINE del == Ids(FieldsOf(target[r])) \ PostedIds(r)
<1>1. /\ pc[r] = "deleting" /\ TypeOK /\ Goto(r, "parking") /\ gone' = [gone EXCEPT ![r] = del]
      /\ UNCHANGED <<tipos, fields, kind, target, names, before, seen, posted, row, next, kept>>
  BY DEF DeleteOthers, IInv, naming
<1>2. /\ pc' \in [Requests -> Stages] /\ pc'[r] = "parking"
      /\ \A s \in Requests \ {r} : pc'[s] = pc[s]
  BY <1>1, PcUpdate DEF Stages, Running, Writing
<1>3. del \in SUBSET FieldId
  BY <1>1, RowTypes DEF Ids, FieldsOf
<1>4. /\ gone' \in [Requests -> SUBSET FieldId] /\ gone'[r] = del
      /\ \A s \in Requests \ {r} : gone'[s] = gone[s]
  <2> HIDE DEF del
  <2> QED
    BY <1>1, <1>3 DEF TypeOK
<1>5. OverlayIsSound(r)'
  <2>1. PostedIds(r)' = PostedIds(r) /\ Ids(FieldsOf(target[r]))' = Ids(FieldsOf(target[r]))
    BY <1>1, FormOfRequest DEF PostedIds, Ids, FieldsOf
  <2> QED
    BY <1>2, <1>4, <2>1 DEF OverlayIsSound
<1> HIDE DEF del
<1>6. TypeOK'
  BY <1>1, <1>2, <1>4 DEF TypeOK, Stages
<1>7. StagesAreSound'
  BY <1>1, <1>2, <1>4 DEF IInv, StagesAreSound, Writing
<1>8. TableInv'
  BY <1>1, <1>2, TableQuiet DEF IInv
<1>9. ReadingsAreWhole'
  <2>1. kind[r] = "edit" => \E w \in Authors : Saved(w) /\ Says(seen[r]) = Submitted(w)
    BY <1>1 DEF IInv, PageInv, ReadingsAreWhole, Writing
  <2>2. kind[r] = "edit"
    BY <1>1 DEF IInv, StagesAreSound
  <2> QED
    BY <1>1, <1>2, <2>1, <2>2, ReadingsStay DEF IInv, PageInv
<1>10. PageInv'
  BY <1>1, <1>9 DEF IInv, PageInv, FormsAreLegal, PagesAreOld
<1>11. TargetsExist'
  BY <1>1 DEF IInv, WriteInv, TargetsExist
<1>12. WritersAreApart' /\ RowsAreCurrent'
  BY <1>1, <1>2, WritersStay, RowsStay DEF IInv, WriteInv, Writing
<1>13. OverlaysAreSound'
  BY <1>1, <1>2, <1>4, <1>5, OverlaysStay DEF IInv, WriteInv
<1>14. NameInv' /\ OrdersNeverCollide'
  BY <1>1, <1>2 DEF IInv, NameInv, SlugsWereTaken, OnlyRacesConflict, OrdersNeverCollide, Taken
<1> QED
  BY <1>6, <1>7, <1>8, <1>10, <1>11, <1>12, <1>13, <1>14 DEF IInv, WriteInv

\* Every order is small, so that none is in the way of a parked one.
LEMMA ParkStep ==
  ASSUME IInv, NEW r \in Requests, Park(r)
  PROVE  IInv'
<1> DEFINE up(f)  == [f EXCEPT !.order = @ + Offset]
           parked == { up(f) : f \in View(r) }
<1>1. /\ pc[r] = "parking" /\ TypeOK /\ IF \E f, g \in View(r) : f.order + Offset = g.order
                                       THEN Goto(r, "collided") /\ UNCHANGED kept
                                       ELSE kept' = [kept EXCEPT ![r] = parked] /\ Goto(r, "writing")
      /\ UNCHANGED <<tipos, fields, kind, target, names, before, seen, posted, row, next, gone>>
  BY DEF Park, IInv, naming
<1>2. kind[r] = "edit" /\ kept[r] = {} /\ next[r] = 1
  BY <1>1 DEF IInv, StagesAreSound
<1>3. PICK t \in tipos : t.id = target[r]
  BY <1>2 DEF IInv, WriteInv, TargetsExist
<1>4. gone[r] = Ids(FieldsOf(target[r])) \ PostedIds(r)
  BY <1>1 DEF IInv, WriteInv, OverlaysAreSound, OverlayIsSound
<1>5. View(r) = { f \in FieldsOf(target[r]) : f.id \notin gone[r] }
  BY <1>2 DEF View, Ids
<1>6. \A f \in FieldsOf(target[r]) : f \in Field /\ f.tipo = target[r] /\ f.order \in Nat /\ f.order < MaxFields
  BY <1>1, <1>3, OrdersAreSmall DEF IInv, TableInv, PageInv, FieldsOf, TypeOK
<1>7. ~\E f, g \in View(r) : f.order + Offset = g.order
  BY <1>5, <1>6, LimitsAssumption
<1>8. Goto(r, "writing") /\ kept' = [kept EXCEPT ![r] = parked]
  BY <1>1, <1>7
<1>9. /\ pc' \in [Requests -> Stages] /\ pc'[r] = "writing"
      /\ \A s \in Requests \ {r} : pc'[s] = pc[s]
  BY <1>1, <1>8, PcUpdate DEF Stages, Running, Writing
<1>10. \A f \in View(r) : /\ up(f) \in Field /\ up(f).id = f.id /\ up(f).tipo = f.tipo
                          /\ up(f).order = f.order + Offset
  BY <1>5, <1>6, LimitsAssumption DEF Field
<1> HIDE DEF up
<1>11. parked \in SUBSET Field
  BY <1>10
<1>12. /\ kept' \in [Requests -> SUBSET Field] /\ kept'[r] = parked
       /\ \A s \in Requests \ {r} : kept'[s] = kept[s]
  <2> HIDE DEF parked
  <2> QED
    BY <1>1, <1>8, <1>11 DEF TypeOK
<1>13. Overlay(r)'
  <2>1. FieldsOf(target[r])' = FieldsOf(target[r])
    BY <1>1 DEF FieldsOf
  <2>2. ASSUME NEW x \in Ids(FieldsOf(target[r])), x \notin gone[r] PROVE x \in Ids(kept'[r])
    <3>1. PICK f \in FieldsOf(target[r]) : f.id = x
      BY DEF Ids
    <3>2. f \in View(r)
      BY <1>5, <2>2, <3>1
    <3>3. up(f) \in kept'[r] /\ up(f).id = x
      BY <1>10, <1>12, <3>1, <3>2
    <3> QED
      BY <3>3 DEF Ids
  <2>3. ASSUME NEW f \in View(r) PROVE Overlaid(r, up(f))'
    <3>1. up(f).tipo = target[r] /\ f.id \in Ids(FieldsOf(target[r]))
      BY <1>5, <1>6, <1>10 DEF Ids
    <3>2. f.id \in PostedIds(r)
      BY <1>4, <1>5, <3>1
    <3>3. PICK j \in DOMAIN posted[r] : posted[r][j].field = f.id
      BY <3>2, FormOfRequest DEF PostedIds
    <3>4. next[r] <= j
      <4>1. posted[r] \in Seq(Input)
        BY <1>1 DEF TypeOK
      <4> QED
        BY <1>2, <4>1, FormDomain
    <3>5. Offset <= up(f).order
      BY <1>5, <1>6, <1>10, LimitsAssumption
    <3>6. Parked(r, up(f))'
      BY <1>1, <1>10, <3>3, <3>4, <3>5 DEF Parked
    <3> QED
      BY <1>1, <1>10, <2>1, <3>1, <3>6 DEF Overlaid, Ids
  <2>4. \A f, g \in View(r) : f.id = g.id \/ f.order = g.order => f = g
    BY <1>3, <1>5, ZenonT(20) DEF IInv, TableInv, IdsIdentify, OneSubmission, FieldsOf
  <2>5. \A f, g \in View(r) : up(f).id = up(g).id \/ up(f).order = up(g).order => f = g
    BY <1>5, <1>6, <1>10, <2>4, LimitsAssumption
  <2>6. \A f, g \in kept'[r] : f.id = g.id \/ f.order = g.order => f = g
    BY <1>12, <2>5
  <2>7. \A j \in DOMAIN posted[r] : ~(j < next[r])
    <3>1. posted[r] \in Seq(Input)
      BY <1>1 DEF TypeOK
    <3> QED
      BY <1>2, <3>1, FormDomain
  <2>8. Ids(FieldsOf(target[r]))' \subseteq (gone[r] \cup Ids(kept[r]))'
    BY <1>1, <2>1, <2>2 DEF Ids
  <2>9. \A f \in kept'[r] : Overlaid(r, f)'
    BY <1>12, <2>3
  <2> QED
    BY <1>1, <2>6, <2>7, <2>8, <2>9 DEF Overlay
<1> HIDE DEF parked
<1>14. OverlayIsSound(r)'
  <2>1. PostedIds(r)' = PostedIds(r) /\ Ids(FieldsOf(target[r]))' = Ids(FieldsOf(target[r]))
    BY <1>1, FormOfRequest DEF PostedIds, Ids, FieldsOf
  <2> QED
    BY <1>1, <1>4, <1>13, <2>1 DEF OverlayIsSound
<1>15. TypeOK'
  BY <1>1, <1>9, <1>12 DEF TypeOK, Stages
<1>16. StagesAreSound'
  BY <1>1, <1>2, <1>9, <1>12 DEF IInv, StagesAreSound, Writing
<1>17. TableInv'
  BY <1>1, <1>9, TableQuiet DEF IInv
<1>18. ReadingsAreWhole'
  <2>1. \E w \in Authors : Saved(w) /\ Says(seen[r]) = Submitted(w)
    BY <1>1, <1>2 DEF IInv, PageInv, ReadingsAreWhole, Writing
  <2> QED
    BY <1>1, <1>9, <2>1, ReadingsStay DEF IInv, PageInv
<1>19. PageInv'
  BY <1>1, <1>18 DEF IInv, PageInv, FormsAreLegal, PagesAreOld
<1>20. TargetsExist'
  BY <1>1 DEF IInv, WriteInv, TargetsExist
<1>21. WritersAreApart' /\ RowsAreCurrent'
  BY <1>1, <1>9, WritersStay, RowsStay DEF IInv, WriteInv, Writing
<1>22. OverlaysAreSound'
  BY <1>1, <1>9, <1>12, <1>14, OverlaysStay DEF IInv, WriteInv
<1>23. NameInv' /\ OrdersNeverCollide'
  BY <1>1, <1>9 DEF IInv, NameInv, SlugsWereTaken, OnlyRacesConflict, OrdersNeverCollide, Taken
<1> QED
  BY <1>15, <1>16, <1>17, <1>19, <1>20, <1>21, <1>22, <1>23 DEF IInv, WriteInv

LEMMA FailStep ==
  ASSUME IInv, NEW r \in Requests, Fail(r)
  PROVE  IInv'
<1>1. /\ pc[r] \in Writing /\ TypeOK /\ Goto(r, "failed")
      /\ UNCHANGED <<tipos, fields, kind, target, names, before, seen, posted, row>>
  BY DEF Fail, IInv, naming
<1>2. /\ pc' \in [Requests -> Stages] /\ pc'[r] = "failed"
      /\ \A s \in Requests \ {r} : pc'[s] = pc[s]
  BY <1>1, PcUpdate DEF Stages, Ended
<1>3. /\ next' \in [Requests -> Nat \ {0}] /\ gone' \in [Requests -> SUBSET FieldId]
      /\ kept' \in [Requests -> SUBSET Field]
      /\ next'[r] = 1 /\ gone'[r] = {} /\ kept'[r] = {}
      /\ \A s \in Requests \ {r} : next'[s] = next[s] /\ gone'[s] = gone[s] /\ kept'[s] = kept[s]
  BY <1>1 DEF Fail, Discard, TypeOK
<1>4. TypeOK'
  BY <1>1, <1>2, <1>3 DEF TypeOK, Stages
<1>5. StagesAreSound'
  BY <1>1, <1>2, <1>3 DEF IInv, StagesAreSound, Writing
<1>6. TableInv'
  BY <1>1, <1>2, TableQuiet DEF IInv, Writing
<1>7. ReadingsAreWhole'
  BY <1>1, <1>2, ReadingsStay DEF IInv, PageInv, Writing
<1>8. PageInv'
  BY <1>1, <1>7 DEF IInv, PageInv, FormsAreLegal, PagesAreOld
<1>9. TargetsExist'
  BY <1>1 DEF IInv, WriteInv, TargetsExist
<1>10. WritersAreApart' /\ RowsAreCurrent' /\ OverlaysAreSound'
  BY <1>1, <1>2, <1>3, OutsideStays DEF IInv, WriteInv, Writing
<1>11. NameInv' /\ OrdersNeverCollide'
  BY <1>1, <1>2 DEF IInv, NameInv, SlugsWereTaken, OnlyRacesConflict, OrdersNeverCollide, Taken
<1> QED
  BY <1>4, <1>5, <1>6, <1>8, <1>9, <1>10, <1>11 DEF IInv, WriteInv

\* In the overlay nothing but the row of an input has the order of that input.
LEMMA PlacedRow ==
  ASSUME IInv, NEW r \in Requests, pc[r] = "writing", NEW f \in kept[r],
         NEW i \in DOMAIN posted[r], f.order = posted[r][i].order
  PROVE  i < next[r] /\ f.content = <<r, i>> /\ f.id \in {posted[r][i].field, <<r, i>>}
<1>1. Overlaid(r, f)
  BY DEF IInv, WriteInv, OverlaysAreSound, OverlayIsSound, Overlay
<1>2. posted[r] \in Seq(Input)
  BY DEF IInv, TypeOK
<1>3. posted[r][i].order \in Nat /\ posted[r][i].order < MaxFields
  BY <1>2, FormDomain DEF IInv, PageInv, FormsAreLegal, Input
<1>4. ~Parked(r, f)
  BY <1>3, LimitsAssumption DEF Parked
<1>5. PICK j \in DOMAIN posted[r] :
        /\ j < next[r] /\ f.content = <<r, j>> /\ f.order = posted[r][j].order
        /\ f.id \in {posted[r][j].field, <<r, j>>}
  BY <1>1, <1>4 DEF Overlaid, Written
<1>6. i = j
  <2>1. posted[r][i].order = posted[r][j].order
    BY <1>5
  <2>2. \A m, n \in DOMAIN posted[r] : posted[r][m].order = posted[r][n].order => m = n
    BY DEF IInv, PageInv, FormsAreLegal
  <2> QED
    BY <2>1, <2>2, Zenon
<1> QED
  BY <1>5, <1>6

LEMMA WriteFieldStep ==
  ASSUME IInv, NEW r \in Requests, WriteField(r)
  PROVE  IInv'
<1> PICK f : f = NewRow(r)
  OBVIOUS
<1> DEFINE k    == next[r]
           more == { g \in kept[r] : g.id # f.id } \cup {f}
<1>1. /\ pc[r] = "writing" /\ k \in DOMAIN posted[r] /\ TypeOK
      /\ IF \E g \in View(r) : g.order = f.order /\ g.id # f.id
         THEN Goto(r, "collided") /\ UNCHANGED <<next, kept>>
         ELSE /\ kept' = [kept EXCEPT ![r] = { g \in @ : g.id # f.id } \cup {f}]
              /\ next' = [next EXCEPT ![r] = k + 1]
              /\ UNCHANGED pc
      /\ UNCHANGED <<tipos, fields, kind, target, names, before, seen, posted, row, gone>>
  BY DEF WriteField, IInv, naming
<1>2. /\ Overlay(r) /\ posted[r] \in Seq(Input) /\ kept[r] \in SUBSET Field
      /\ k \in Nat \ {0} /\ target[r] \in Authors
  BY <1>1 DEF IInv, WriteInv, OverlaysAreSound, OverlayIsSound, TypeOK
<1>3. /\ posted[r][k] \in Input /\ k \in Nat
      /\ DOMAIN posted[r] \subseteq Nat
  BY <1>1, <1>2, FormDomain
<1>4. /\ f.tipo = target[r] /\ f.order = posted[r][k].order /\ f.content = <<r, k>>
      /\ f.id = IF posted[r][k].field \in Ids(kept[r]) THEN posted[r][k].field ELSE <<r, k>>
  BY DEF NewRow
<1>5. Ids(kept[r]) \subseteq FieldId
  BY <1>2 DEF Ids, Field
<1>6. f \in Field
  <2>1. f.id \in FieldId /\ <<r, k>> \in FieldId /\ f.order \in Nat
    BY <1>3, <1>4, <1>5 DEF FieldId, Authors, Input
  <2> QED
    BY <1>2, <2>1 DEF NewRow, Field, FieldId
<1>7. View(r) = kept[r]
  BY <1>2 DEF View, Overlay, Ids, FieldsOf
<1>8. ~\E g \in View(r) : g.order = f.order
  BY <1>1, <1>4, <1>7, <1>3, PlacedRow
<1>9. /\ kept' = [kept EXCEPT ![r] = more] /\ next' = [next EXCEPT ![r] = k + 1] /\ UNCHANGED pc
  BY <1>1, <1>8
<1>10. more \in SUBSET Field /\ k + 1 \in Nat \ {0}
  BY <1>2, <1>3, <1>6
<1>11. /\ kept' \in [Requests -> SUBSET Field] /\ kept'[r] = more
       /\ next' \in [Requests -> Nat \ {0}] /\ next'[r] = k + 1
       /\ \A s \in Requests \ {r} : kept'[s] = kept[s] /\ next'[s] = next[s]
  <2> HIDE DEF more, k
  <2> QED
    BY <1>1, <1>9, <1>10 DEF TypeOK
<1>12. Overlay(r)'
  <2>1. Ids(FieldsOf(target[r]))' = Ids(FieldsOf(target[r])) /\ gone'[r] = gone[r] /\ posted'[r] = posted[r]
        /\ target'[r] = target[r]
    BY <1>1 DEF FieldsOf
  <2>2. Ids(kept[r]) \subseteq Ids(more)
    BY DEF Ids
  <2>3. Ids(FieldsOf(target[r]))' \subseteq (gone[r] \cup Ids(kept[r]))'
    <3>1. Ids(kept[r])' = Ids(more)
      BY <1>11 DEF Ids
    <3> QED
      BY <1>2, <2>1, <2>2, <3>1 DEF Overlay
  <2>4. Overlaid(r, f)'
    <3>1. f.id \in Ids(FieldsOf(target[r])) \/ f.id[1] = r
      BY <1>2, <1>4, SMTT(20) DEF Overlay, Overlaid, Ids
    <3>2. Written(r, f)'
      BY <1>1, <1>3, <1>4, <1>11, <2>1 DEF Written
    <3> QED
      BY <1>4, <2>1, <3>1, <3>2 DEF Overlaid
  <2>5. ASSUME NEW g \in kept[r], g.id # f.id PROVE Overlaid(r, g)'
    <3>1. Overlaid(r, g)
      BY <1>2 DEF Overlay
    <3>2. CASE Written(r, g)
      <4>1. Written(r, g)'
        BY <1>3, <1>11, <2>1, <3>2 DEF Written
      <4> QED
        BY <2>1, <3>1, <4>1 DEF Overlaid
    <3>3. CASE Parked(r, g)
      <4>1. PICK j \in DOMAIN posted[r] : k <= j /\ posted[r][j].field = g.id
        BY <3>3 DEF Parked
      <4>2. j # k
        BY <1>4, <2>5, <4>1 DEF Ids
      <4>3. k + 1 <= j
        BY <1>3, <4>1, <4>2
      <4>4. Parked(r, g)'
        BY <1>11, <2>1, <3>3, <4>1, <4>3 DEF Parked
      <4> QED
        BY <2>1, <3>1, <4>4 DEF Overlaid
    <3> QED
      BY <3>1, <3>2, <3>3 DEF Overlaid
  <2>6. \A g \in kept'[r] : Overlaid(r, g)'
    BY <1>11, <2>4, <2>5
  <2>7. \A g, h \in kept'[r] : g.id = h.id \/ g.order = h.order => g = h
    BY <1>2, <1>7, <1>8, <1>11 DEF Overlay
  <2>8. ASSUME NEW j \in DOMAIN posted[r], j < k
        PROVE  \E g \in more : g.content = <<r, j>> /\ g.order = posted[r][j].order
    <3>1. PICK g \in kept[r] : g.content = <<r, j>> /\ g.order = posted[r][j].order
      BY <1>2, <2>8 DEF Overlay, Placed
    <3>2. g.id \in {posted[r][j].field, <<r, j>>}
      BY <1>1, <3>1, PlacedRow
    <3>3. g.id \in FieldId /\ g.id # New
      BY <1>2, NewAssumption DEF Field
    <3>4. j # k
      BY <1>3, <2>8
    <3>5. /\ posted[r][j].field = New \/ posted[r][j].field[1] # r
          /\ posted[r][k].field = New \/ posted[r][k].field[1] # r
          /\ posted[r][j].field = posted[r][k].field => posted[r][j].field = New
      BY <1>1, <3>4 DEF IInv, PageInv, FormsAreLegal
    <3>6. f.id \in {posted[r][k].field, <<r, k>>} /\ f.id # New
      BY <1>4, <1>6, NewAssumption DEF Field
    <3>7. g.id # f.id
      BY <3>2, <3>3, <3>4, <3>5, <3>6
    <3> QED
      BY <3>1, <3>7
  <2>9. \A j \in DOMAIN posted'[r] : j < next'[r] => Placed(r, j)'
    <3> SUFFICES ASSUME NEW j \in DOMAIN posted[r], j < k + 1 PROVE Placed(r, j)'
      BY <1>11, <2>1
    <3>1. j < k \/ j = k
      BY <1>3
    <3>2. CASE j < k
      <4>1. PICK g \in more : g.content = <<r, j>> /\ g.order = posted[r][j].order
        BY <2>8, <3>2
      <4>2. g \in kept'[r] /\ posted'[r][j].order = posted[r][j].order
        BY <1>11, <2>1, <4>1
      <4> QED
        BY <4>1, <4>2 DEF Placed
    <3>3. CASE j = k
      BY <1>4, <1>11, <2>1, <3>3 DEF Placed
    <3> QED
      BY <3>1, <3>2, <3>3
  <2> QED
    BY <2>3, <2>6, <2>7, <2>9 DEF Overlay
<1> HIDE DEF more, k
<1>13. OverlayIsSound(r)'
  <2>1. PostedIds(r)' = PostedIds(r) /\ Ids(FieldsOf(target[r]))' = Ids(FieldsOf(target[r]))
    BY <1>1, FormOfRequest DEF PostedIds, Ids, FieldsOf
  <2> QED
    BY <1>1, <1>9, <1>12, <2>1 DEF IInv, WriteInv, OverlaysAreSound, OverlayIsSound
<1>14. TypeOK'
  BY <1>1, <1>9, <1>11 DEF TypeOK
<1>15. StagesAreSound'
  BY <1>1, <1>9, <1>11 DEF IInv, StagesAreSound, Writing
<1>16. TableInv'
  BY <1>1, <1>9, TableQuiet DEF IInv
<1>17. ReadingsAreWhole'
  <2>1. kind[r] = "edit" \/ kind[r] = "create"
    BY <1>1 DEF IInv, StagesAreSound
  <2>2. kind[r] = "edit" => \E w \in Authors : Saved(w) /\ Says(seen[r]) = Submitted(w)
    BY <1>1 DEF IInv, PageInv, ReadingsAreWhole, Writing
  <2> QED
    BY <1>1, <1>9, <2>1, <2>2, ReadingsStay DEF IInv, PageInv
<1>18. PageInv'
  BY <1>1, <1>17 DEF IInv, PageInv, FormsAreLegal, PagesAreOld
<1>19. TargetsExist'
  BY <1>1 DEF IInv, WriteInv, TargetsExist
<1>20. WritersAreApart' /\ RowsAreCurrent'
  BY <1>1, <1>9, WritersStay, RowsStay DEF IInv, WriteInv, Writing
<1>21. OverlaysAreSound'
  BY <1>1, <1>9, <1>11, <1>13, OverlaysStay DEF IInv, WriteInv
<1>22. NameInv' /\ OrdersNeverCollide'
  BY <1>1, <1>9 DEF IInv, NameInv, SlugsWereTaken, OnlyRacesConflict, OrdersNeverCollide, Taken
<1> QED
  BY <1>14, <1>15, <1>16, <1>18, <1>19, <1>20, <1>21, <1>22 DEF IInv, WriteInv

LEMMA SetInactiveStep ==
  ASSUME IInv, NEW r \in Requests, SetInactive(r)
  PROVE  IInv'
<1> PICK x : x = target[r]
  OBVIOUS
<1> DEFINE off(t) == IF t.id = x THEN [t EXCEPT !.activo = FALSE] ELSE t
<1>1. /\ pc[r] = "deactivating" /\ TypeOK /\ Goto(r, "deactivated")
      /\ tipos' = { off(t) : t \in tipos }
      /\ \A s \in Requests \ {r} : ~Holds(s, target[r])
      /\ UNCHANGED <<fields, kind, target, names, before, seen, posted, row, next, gone, kept>>
  BY DEF SetInactive, IInv, naming, txn
<1>2. /\ pc' \in [Requests -> Stages] /\ pc'[r] = "deactivated"
      /\ \A s \in Requests \ {r} : pc'[s] = pc[s]
  BY <1>1, PcUpdate DEF Stages, Ended
<1>3. \A t \in tipos : /\ off(t) \in Tipo /\ off(t).id = t.id /\ off(t).slug = t.slug
                       /\ off(t).by = t.by /\ (t.id # x => off(t) = t)
  <2> SUFFICES ASSUME NEW t \in tipos
               PROVE  /\ off(t) \in Tipo /\ off(t).id = t.id /\ off(t).slug = t.slug
                      /\ off(t).by = t.by /\ (t.id # x => off(t) = t)
    OBVIOUS
  <2>1. t \in Tipo
    BY <1>1 DEF TypeOK
  <2>2. CASE t.id = x
    BY <2>1, <2>2 DEF Tipo
  <2>3. CASE t.id # x
    BY <2>1, <2>3
  <2> QED
    BY <2>2, <2>3
<1> HIDE DEF off
<1>4. TypeOK'
  <2>1. tipos' \subseteq Tipo
    BY <1>1, <1>3
  <2> QED
    BY <1>1, <1>2, <2>1 DEF TypeOK, Stages
<1>5. StagesAreSound'
  BY <1>1, <1>2 DEF IInv, StagesAreSound, Writing
<1>6. \A w \in Authors : Saved(w) => Saved(w)' /\ Submitted(w)' = Submitted(w)
  BY <1>1, <1>2, SavedStay
<1>7. CommittedIsSaved'
  <2>1. \A t \in tipos' : Saved(t.id)' /\ Saved(t.by)'
    BY <1>1, <1>3, <1>6, RowTypes DEF IInv, TableInv, CommittedIsSaved
  <2>2. ASSUME NEW f \in fields PROVE Saved(f.id[1])' /\ \E t \in tipos' : t.id = f.tipo
    <3>1. Saved(f.id[1]) /\ \E t \in tipos : t.id = f.tipo
      BY DEF IInv, TableInv, CommittedIsSaved
    <3> QED
      BY <1>1, <1>3, <1>6, <3>1, RowTypes
  <2> QED
    BY <1>1, <2>1, <2>2 DEF CommittedIsSaved
<1>8. TiposAreNamed' /\ IdsIdentify'
  <2>1. TiposAreNamed'
    BY <1>1, <1>3 DEF IInv, TableInv, TiposAreNamed
  <2> QED
    BY <1>1, <2>1 DEF IInv, TableInv, IdsIdentify
<1>9. OneSubmission'
  <2> SUFFICES ASSUME NEW t \in tipos
               PROVE  /\ Says(FieldsOf(off(t).id)) = Submitted(off(t).by)'
                      /\ \A f, g \in FieldsOf(off(t).id) : f.order = g.order => f = g
    BY <1>1 DEF OneSubmission, FieldsOf, Says
  <2>1. Submitted(t.by)' = Submitted(t.by)
    BY <1>1, <1>6, RowTypes DEF IInv, TableInv, CommittedIsSaved
  <2>2. off(t).id = t.id /\ off(t).by = t.by
    BY <1>3
  <2>3. Submitted(off(t).by)' = Submitted(t.by)'
    BY <2>2 DEF Submitted, Form
  <2> QED
    BY <2>1, <2>2, <2>3 DEF IInv, TableInv, OneSubmission
<1>10. ReadingsAreWhole'
  BY <1>1, <1>2, ReadingsStay DEF IInv, PageInv, Writing
<1>11. PageInv'
  BY <1>1, <1>10 DEF IInv, PageInv, FormsAreLegal, PagesAreOld
<1>12. TargetsExist'
  BY <1>1, <1>3 DEF IInv, WriteInv, TargetsExist
<1>13. WritersAreApart'
  BY <1>1, <1>2, WritersStay DEF IInv, WriteInv, Writing
<1>14. Taken' = Taken
  BY <1>1, <1>3 DEF Taken
<1>15. RowsAreCurrent'
  <2> SUFFICES ASSUME NEW s \in Requests \ {r}, pc[s] \in Writing PROVE Current(s)'
    BY <1>2 DEF RowsAreCurrent, Writing
  <2>1. Current(s)
    BY DEF IInv, WriteInv, RowsAreCurrent
  <2>2. kind[s] = "edit" => \A t \in tipos : t.id = target[s] => t \in tipos'
    BY <1>1, <1>3 DEF Holds
  <2>3. kind[s] = "create" => row[s].slug \notin Taken'
    BY <1>14, <2>1 DEF Current
  <2> QED
    BY <1>1, <2>1, <2>2, <2>3, CurrentStays DEF TypeOK
<1>16. OverlaysAreSound'
  <2>1. OverlayIsSound(r)'
    BY <1>2 DEF OverlayIsSound
  <2> QED
    BY <1>1, <1>2, <2>1, OverlaysStay DEF IInv, WriteInv
<1>17. NameInv' /\ OrdersNeverCollide'
  BY <1>1, <1>2, <1>14 DEF IInv, NameInv, SlugsWereTaken, OnlyRacesConflict, OrdersNeverCollide
<1> QED
  BY <1>4, <1>5, <1>7, <1>8, <1>9, <1>11, <1>12, <1>13, <1>15, <1>16, <1>17 DEF IInv, TableInv, WriteInv

\* At COMMIT no row is parked: the overlay is what was submitted.
LEMMA WholeOverlay ==
  ASSUME IInv, NEW r \in Requests, pc[r] = "writing", next[r] \notin DOMAIN posted[r]
  PROVE  /\ View(r) = kept[r] /\ kept[r] \in SUBSET Field
         /\ \A f \in kept[r] : /\ f.tipo = target[r]
                               /\ f.id \in Ids(FieldsOf(target[r])) \/ f.id[1] = r
         /\ \A f, g \in kept[r] : f.id = g.id \/ f.order = g.order => f = g
         /\ Says(kept[r]) = Submitted(r)
<1>1. Overlay(r) /\ posted[r] \in Seq(Input) /\ next[r] \in Nat \ {0} /\ kept[r] \in SUBSET Field
  BY DEF IInv, WriteInv, OverlaysAreSound, OverlayIsSound, TypeOK
<1>2. View(r) = kept[r]
  BY <1>1 DEF View, Overlay, Ids
<1>3. \A j \in DOMAIN posted[r] : j < next[r] /\ ~(next[r] <= j)
  BY <1>1, FormDomain
<1>4. \A f \in kept[r] : \E j \in DOMAIN posted[r] : f.content = <<r, j>> /\ f.order = posted[r][j].order
  BY <1>1, <1>3 DEF Overlay, Overlaid, Parked, Written
<1>5. \A j \in DOMAIN posted[r] : \E f \in kept[r] : f.content = <<r, j>> /\ f.order = posted[r][j].order
  BY <1>1, <1>3 DEF Overlay, Placed
<1>6. Submitted(r) = { <<posted[r][j].order, <<r, j>>>> : j \in DOMAIN posted[r] }
  BY FormOfRequest DEF Submitted
<1>7. Says(kept[r]) = Submitted(r)
  BY <1>4, <1>5, <1>6, SMTT(20) DEF Says
<1> QED
  BY <1>1, <1>2, <1>7 DEF Overlay, Overlaid

\* The tables before and after a COMMIT.
LEMMA CommitTables ==
  ASSUME IInv, NEW r \in Requests, Commit(r), NEW x, x = target[r], NEW n, n = row[r],
         NEW K, K = kept[r]
  PROVE  /\ pc[r] = "writing" /\ kind[r] \in {"edit", "create"} /\ x \in Authors
         /\ n \in Tipo /\ n.id = x /\ n.by = r /\ K \in SUBSET Field
         /\ tipos' = { t \in tipos : t.id # x } \cup {n}
         /\ fields' = { f \in fields : f.tipo # x } \cup K
         /\ FieldsOf(x)' = K
         /\ \A y : y # x => FieldsOf(y)' = FieldsOf(y)
         /\ kind[r] = "edit" =>
              \E t \in tipos : t.id = x /\ t.slug = n.slug /\ t.activo = n.activo
         /\ kind[r] = "create" =>
              x = r /\ n.activo /\ n.slug \notin Taken /\ \A t \in tipos : t.id # x
<1>1. /\ pc[r] = "writing" /\ TypeOK /\ Current(r)
      /\ next[r] \notin DOMAIN posted[r]
  BY DEF Commit, IInv, WriteInv, RowsAreCurrent, Writing
<1>2. /\ View(r) = K /\ K \in SUBSET Field /\ \A f \in K : f.tipo = x
  <2>1. View(r) = kept[r] /\ kept[r] \in SUBSET Field /\ \A f \in kept[r] : f.tipo = target[r]
    BY <1>1, WholeOverlay
  <2> QED
    BY <2>1
<1>3. /\ tipos' = { t \in tipos : t.id # x } \cup {n}
      /\ fields' = { f \in fields : f.tipo # x } \cup K
  BY <1>2 DEF Commit
<1>4. /\ FieldsOf(x)' = K
      /\ \A y : y # x => FieldsOf(y)' = FieldsOf(y)
  BY <1>2, <1>3 DEF FieldsOf
<1>5. kind[r] \in {"edit", "create"} /\ x \in Authors /\ n \in Tipo /\ n.id = x /\ n.by = r
  BY <1>1 DEF IInv, StagesAreSound, TypeOK, Current
<1>6. ASSUME kind[r] = "edit"
      PROVE  \E t \in tipos : t.id = x /\ t.slug = n.slug /\ t.activo = n.activo
  <2>1. PICK t \in tipos : n = [t EXCEPT !.by = r]
    BY <1>1, <1>6 DEF Current
  <2>2. t \in Tipo
    BY <1>1 DEF TypeOK
  <2> QED
    BY <1>5, <2>1, <2>2 DEF Tipo
<1>7. ASSUME kind[r] = "create"
      PROVE  x = r /\ n.activo /\ n.slug \notin Taken /\ \A t \in tipos : t.id # x
  <2>1. x = r
    BY <1>7 DEF IInv, WriteInv, TargetsExist
  <2>2. \A t \in tipos : t.id # r
    BY <1>1, SeedAssumption DEF IInv, TableInv, CommittedIsSaved, Saved
  <2> QED
    BY <1>1, <1>7, <2>1, <2>2 DEF Current
<1> QED
  BY <1>1, <1>2, <1>3, <1>4, <1>5, <1>6, <1>7

LEMMA CommitStep ==
  ASSUME IInv, NEW r \in Requests, Commit(r)
  PROVE  IInv'
<1> PICK x : x = target[r]
  OBVIOUS
<1> PICK n : n = row[r]
  OBVIOUS
<1> PICK K : K = kept[r]
  OBVIOUS
<1>1. /\ pc[r] = "writing" /\ kind[r] \in {"edit", "create"} /\ x \in Authors
      /\ n \in Tipo /\ n.id = x /\ n.by = r /\ K \in SUBSET Field
      /\ tipos' = { t \in tipos : t.id # x } \cup {n}
      /\ fields' = { f \in fields : f.tipo # x } \cup K
  BY CommitTables
<1>2. /\ FieldsOf(x)' = K
      /\ \A y : y # x => FieldsOf(y)' = FieldsOf(y)
  BY CommitTables
<1>3. kind[r] = "edit" => \E t \in tipos : t.id = x /\ t.slug = n.slug /\ t.activo = n.activo
  BY CommitTables
<1>4. kind[r] = "create" => x = r /\ n.activo /\ n.slug \notin Taken /\ \A t \in tipos : t.id # x
  BY CommitTables
<1>5. /\ TypeOK /\ Goto(r, "saved") /\ next[r] \notin DOMAIN posted[r]
      /\ UNCHANGED <<kind, target, names, before, seen, posted, row>>
  BY DEF Commit, IInv, naming
<1>6. /\ pc' \in [Requests -> Stages] /\ pc'[r] = "saved"
      /\ \A s \in Requests \ {r} : pc'[s] = pc[s]
  BY <1>5, PcUpdate DEF Stages, Ended
<1>7. /\ next' \in [Requests -> Nat \ {0}] /\ gone' \in [Requests -> SUBSET FieldId]
      /\ kept' \in [Requests -> SUBSET Field]
      /\ next'[r] = 1 /\ gone'[r] = {} /\ kept'[r] = {}
      /\ \A s \in Requests \ {r} : next'[s] = next[s] /\ gone'[s] = gone[s] /\ kept'[s] = kept[s]
  BY <1>5 DEF Commit, Discard, TypeOK
<1>8. TypeOK'
  <2>1. tipos' \subseteq Tipo /\ fields' \subseteq Field
    BY <1>1, <1>5 DEF TypeOK
  <2> QED
    BY <1>5, <1>6, <1>7, <2>1 DEF TypeOK, Stages
<1>9. StagesAreSound'
  BY <1>5, <1>6, <1>7 DEF IInv, StagesAreSound, Writing
<1>10. \A w \in Authors : Saved(w) => Saved(w)' /\ Submitted(w)' = Submitted(w)
  BY <1>1, <1>5, <1>6, SavedStay
<1>11. Saved(r)' /\ Submitted(r)' = Submitted(r) /\ ~Saved(r) /\ r \in Authors
  BY <1>1, <1>5, <1>6, FormOfRequest, SeedAssumption DEF Saved, Submitted, Authors
<1>12. \A f \in K : f.id \in Ids(FieldsOf(x)) \/ f.id[1] = r
  BY <1>1, <1>5, WholeOverlay
<1>13. \A f \in K : f.tipo = x
  <2>1. \A f \in kept[r] : f.tipo = target[r]
    BY <1>1, <1>5, WholeOverlay
  <2> QED
    BY <2>1
<1>14. Saved(x)'
  BY <1>1, <1>3, <1>4, <1>10, <1>11 DEF IInv, TableInv, CommittedIsSaved
<1>15. CommittedIsSaved'
  <2>1. \A t \in tipos' : Saved(t.id)' /\ Saved(t.by)'
    BY <1>1, <1>5, <1>10, <1>11, <1>14, RowTypes DEF IInv, TableInv, CommittedIsSaved
  <2>2. ASSUME NEW f \in fields PROVE Saved(f.id[1])'
    BY <1>5, <1>10, RowTypes DEF IInv, TableInv, CommittedIsSaved
  <2>3. ASSUME NEW f \in K PROVE Saved(f.id[1])'
    <3>1. CASE f.id \in Ids(FieldsOf(x))
      BY <2>2, <3>1 DEF Ids, FieldsOf
    <3>2. CASE f.id[1] = r
      BY <1>11, <3>2
    <3> QED
      BY <1>12, <3>1, <3>2
  <2>4. \A f \in fields' : \E t \in tipos' : t.id = f.tipo
    BY <1>1, <1>13 DEF IInv, TableInv, CommittedIsSaved
  <2> QED
    BY <1>1, <2>1, <2>2, <2>3, <2>4 DEF CommittedIsSaved
<1>16. TiposAreNamed'
  <2>1. \A t \in tipos : t.id # x => t.slug # n.slug
    BY <1>1, <1>3, <1>4 DEF IInv, TableInv, TiposAreNamed, Taken
  <2> QED
    BY <1>1, <2>1 DEF IInv, TableInv, TiposAreNamed
<1>17. IdsIdentify'
  <2>1. \A f, g \in K : f.id = g.id => f = g
    BY <1>1, <1>5, WholeOverlay
  <2>2. ASSUME NEW f \in K, NEW g \in fields, g.tipo # x PROVE f.id # g.id
    <3>1. CASE f.id \in Ids(FieldsOf(x))
      <4>1. PICK h \in fields : h.tipo = x /\ h.id = f.id
        BY <3>1 DEF Ids, FieldsOf
      <4> QED
        BY <2>2, <4>1 DEF IInv, TableInv, IdsIdentify
    <3>2. CASE f.id[1] = r
      BY <1>11, <3>2 DEF IInv, TableInv, CommittedIsSaved
    <3> QED
      BY <1>12, <3>1, <3>2
  <2> QED
    BY <1>1, <2>1, <2>2 DEF IInv, TableInv, IdsIdentify
<1>18. OneSubmission'
  <2>1. /\ Says(K) = Submitted(r) /\ \A f, g \in K : f.order = g.order => f = g
    BY <1>1, <1>5, WholeOverlay
  <2>2. ASSUME NEW t \in tipos, t.id # x
        PROVE  /\ Says(FieldsOf(t.id)) = Submitted(t.by)'
               /\ \A f, g \in FieldsOf(t.id) : f.order = g.order => f = g
    BY <1>5, <1>10, RowTypes DEF IInv, TableInv, CommittedIsSaved, OneSubmission
  <2> SUFFICES ASSUME NEW u \in tipos'
               PROVE  /\ Says(FieldsOf(u.id)') = Submitted(u.by)'
                      /\ \A f, g \in FieldsOf(u.id)' : f.order = g.order => f = g
    BY DEF OneSubmission, Says
  <2>3. CASE u = n
    <3>1. Submitted(u.by)' = Submitted(r)'
      BY <1>1, <2>3
    <3>2. FieldsOf(u.id)' = K
      BY <1>1, <1>2, <2>3
    <3> QED
      BY <1>11, <2>1, <3>1, <3>2
  <2>4. CASE u \in tipos /\ u.id # x
    <3>1. FieldsOf(u.id)' = FieldsOf(u.id)
      BY <1>2, <2>4
    <3> QED
      BY <2>2, <2>4, <3>1
  <2> QED
    BY <1>1, <2>3, <2>4
<1>19. ReadingsAreWhole'
  BY <1>1, <1>5, <1>6, ReadingsStay DEF IInv, PageInv, Writing
<1>20. PageInv'
  BY <1>5, <1>19 DEF IInv, PageInv, FormsAreLegal, PagesAreOld
<1>21. TargetsExist'
  BY <1>1, <1>5 DEF IInv, WriteInv, TargetsExist
<1>22. WritersAreApart'
  BY <1>5, <1>6, WritersStay DEF IInv, WriteInv, Writing
<1>23. ASSUME NEW s \in Requests \ {r}, pc[s] \in Writing PROVE target[s] # x
  BY <1>1, <1>23, TargetsApart DEF Writing
<1>24. RowsAreCurrent'
  <2> SUFFICES ASSUME NEW s \in Requests \ {r}, pc[s] \in Writing PROVE Current(s)'
    BY <1>6 DEF RowsAreCurrent, Writing
  <2>1. Current(s)
    BY DEF IInv, WriteInv, RowsAreCurrent
  <2>2. \A t \in tipos : t.id = target[s] => t \in tipos'
    BY <1>1, <1>23
  <2>3. ASSUME kind[s] = "create" PROVE row[s].slug \notin Taken'
    <3>1. row[s].slug \notin Taken
      BY <2>1, <2>3 DEF Current
    <3>2. row[s].slug # n.slug
      <4>1. CASE kind[r] = "create"
        BY <1>1, <2>3, <4>1 DEF IInv, WriteInv, WritersAreApart, Writing
      <4>2. CASE kind[r] = "edit"
        BY <1>3, <3>1, <4>2 DEF Taken
      <4> QED
        BY <1>1, <4>1, <4>2
    <3> QED
      BY <1>1, <3>1, <3>2 DEF Taken
  <2> QED
    BY <1>5, <2>1, <2>2, <2>3, CurrentStays DEF TypeOK
<1>25. OverlaysAreSound'
  <2>1. OverlayIsSound(r)'
    BY <1>6 DEF OverlayIsSound
  <2>2. ASSUME NEW s \in Requests \ {r}, pc[s] \in Writing PROVE OverlayIsSound(s)'
    <3>1. FieldsOf(target[s])' = FieldsOf(target[s])
      <4>1. PICK y : y = target[s]
        OBVIOUS
      <4>2. FieldsOf(y)' = FieldsOf(y)
        BY <1>2, <1>23, <2>2, <4>1
      <4> QED
        BY <1>5, <4>1, <4>2 DEF FieldsOf
    <3> QED
      BY <1>5, <1>6, <1>7, <3>1, OverlayStays DEF IInv, WriteInv, OverlaysAreSound
  <2>3. ASSUME NEW s \in Requests \ {r}, pc[s] \notin Writing PROVE OverlayIsSound(s)'
    BY <1>6, <2>3 DEF OverlayIsSound, Writing
  <2> QED
    BY <2>1, <2>2, <2>3 DEF OverlaysAreSound
<1>26. Taken \subseteq Taken'
  BY <1>1, <1>3, <1>4 DEF IInv, TableInv, TiposAreNamed, Taken
<1>27. NameInv' /\ OrdersNeverCollide'
  BY <1>5, <1>6, <1>26 DEF IInv, NameInv, SlugsWereTaken, OnlyRacesConflict, OrdersNeverCollide
<1> QED
  BY <1>8, <1>9, <1>15, <1>16, <1>17, <1>18, <1>20, <1>21, <1>22, <1>24, <1>25, <1>27
     DEF IInv, TableInv, WriteInv

LEMMA StutterStep ==
  ASSUME IInv, UNCHANGED vars
  PROVE  IInv'
<1>1. UNCHANGED <<tipos, fields, pc, kind, target, names, before, seen, posted, row, next, gone, kept>>
  BY DEF vars, naming, txn
<1>2. TypeOK' /\ StagesAreSound'
  BY <1>1 DEF IInv, TypeOK, StagesAreSound
<1>3. \A w : Saved(w)' <=> Saved(w)
  BY <1>1 DEF Saved
<1>4. \A w : Submitted(w)' = Submitted(w)
  BY <1>1 DEF Submitted, Form
<1>5. \A y : FieldsOf(y)' = FieldsOf(y)
  BY <1>1 DEF FieldsOf
<1>6. TableInv'
  BY <1>1, <1>3, <1>4, <1>5 DEF IInv, TableInv, CommittedIsSaved, TiposAreNamed, IdsIdentify,
     OneSubmission
<1>7. PageInv'
  BY <1>1, <1>3, <1>4 DEF IInv, PageInv, FormsAreLegal, PagesAreOld, ReadingsAreWhole
<1>8. TargetsExist'
  BY <1>1 DEF IInv, WriteInv, TargetsExist
<1>9. WritersAreApart' /\ RowsAreCurrent'
  BY <1>1, WritersStay, RowsStay DEF IInv, WriteInv
<1>10. OverlaysAreSound'
  BY <1>1, <1>5, OverlayStays DEF IInv, WriteInv, OverlaysAreSound
<1>11. NameInv' /\ OrdersNeverCollide'
  BY <1>1 DEF IInv, NameInv, SlugsWereTaken, OnlyRacesConflict, OrdersNeverCollide, Taken
<1> QED
  BY <1>2, <1>6, <1>7, <1>8, <1>9, <1>10, <1>11 DEF IInv, WriteInv

\* Every step keeps the invariant.
LEMMA NextHolds == ASSUME IInv, [Next]_vars PROVE IInv'
<1>1. ASSUME NEW r \in Requests, Arrive(r) \/ Post(r) \/ Step(r) \/ Fail(r) PROVE IInv'
  <2>1. CASE Arrive(r)
    BY <2>1, ReadRowStep, CreateStep, DeactivateStep DEF Arrive
  <2>2. CASE Post(r) \/ Fail(r)
    BY <2>2, PostStep, FailStep
  <2>3. CASE Step(r)
    BY <2>3, ReadFieldsStep, TryNameStep, ConflictStep, InsertStep, LockTipoStep, DeleteOthersStep,
       ParkStep, WriteFieldStep, CommitStep, SetInactiveStep DEF Step
  <2> QED
    BY <1>1, <2>1, <2>2, <2>3
<1> QED
  BY <1>1, StutterStep DEF Next

\* The inductive invariant of Tipos.
THEOREM Invariance == Spec => []IInv
BY InitHolds, NextHolds, PTL DEF Spec

\* Every variable keeps its type.
THEOREM TypeCorrect == Spec => []TypeOK
<1>1. IInv => TypeOK
  BY DEF IInv
<1> QED
  BY <1>1, Invariance, PTL

\* update replaces the fields under the row lock: a tipo is what one administrator
\* submitted, whoever edits it at the same time and from whatever page.
THEOREM TiposAreOneSubmission == Spec => []OneSubmission
<1>1. IInv => OneSubmission
  BY DEF IInv, TableInv
<1> QED
  BY <1>1, Invariance, PTL

\* get_by_id and get_by_slug return the fields of one submission.
THEOREM ReadingsAreOfOneSubmission == Spec => []ReadingsAreWhole
<1>1. IInv => ReadingsAreWhole
  BY DEF IInv, PageInv
<1> QED
  BY <1>1, Invariance, PTL

\* _replace_fields never meets the unique constraint on (tipo, order).
THEOREM OrdersDoNotCollide == Spec => []OrdersNeverCollide
<1>1. IInv => OrdersNeverCollide
  BY DEF IInv
<1> QED
  BY <1>1, Invariance, PTL

\* create refuses a nombre only when another request took its slug after this one
\* arrived.
THEOREM ConflictsAreRaces == Spec => []OnlyRacesConflict
<1>1. IInv => OnlyRacesConflict
  BY DEF IInv, NameInv
<1> QED
  BY <1>1, Invariance, PTL

-----------------------------------------------------------------------------
(***************************************************************************)
(* What a step may do to the tables.                                       *)
(***************************************************************************)
\* Only a COMMIT and a deactivation change the tables.
LEMMA WhoWrites ==
  ASSUME [Next]_vars
  PROVE  UNCHANGED <<tipos, fields>> \/ \E r \in Requests : Commit(r) \/ SetInactive(r)
<1>1. ASSUME NEW r \in Requests, Arrive(r) \/ Post(r) \/ Step(r) \/ Fail(r)
      PROVE  UNCHANGED <<tipos, fields>> \/ Commit(r) \/ SetInactive(r)
  BY <1>1 DEF Arrive, ReadRow, Create, Deactivate, Post, Fail, Step, ReadFields, TryName,
     InsertTipo, LockTipo, DeleteOthers, Park, WriteField
<1> QED
  BY <1>1 DEF Next, vars

\* A field that the saved form lists keeps its id: it is updated in place, and
\* never deleted and created again.
THEOREM IdsSurvive == Spec => ResubmittedIdsSurvive
<1>1. ASSUME IInv, [Next]_vars
      PROVE  [\A f \in fields : f.id \notin Ids(fields') =>
                \E t \in tipos' : t.id = f.tipo /\ f.id \notin PostedIds(t.by)]_fields
  <2>1. ASSUME NEW r \in Requests, Commit(r), NEW f \in fields, f.id \notin Ids(fields')
        PROVE  \E t \in tipos' : t.id = f.tipo /\ f.id \notin PostedIds(t.by)
    <3> PICK x : x = target[r]
      OBVIOUS
    <3> PICK n : n = row[r]
      OBVIOUS
    <3> PICK K : K = kept[r]
      OBVIOUS
    <3>1. /\ pc[r] = "writing" /\ n.id = x /\ n.by = r /\ n \in tipos'
          /\ fields' = { g \in fields : g.tipo # x } \cup K
      BY <1>1, <2>1, CommitTables
    <3>2. f.tipo = x /\ f.id \notin Ids(K)
      BY <2>1, <3>1 DEF Ids
    <3>3. Overlay(r) /\ gone[r] = Ids(FieldsOf(x)) \ PostedIds(r)
      BY <1>1, <3>1 DEF IInv, WriteInv, OverlaysAreSound, OverlayIsSound
    <3>4. f.id \in Ids(FieldsOf(x))
      BY <3>2 DEF Ids, FieldsOf
    <3>5. f.id \notin PostedIds(r)
      BY <3>2, <3>3, <3>4 DEF Overlay
    <3> QED
      BY <3>1, <3>2, <3>5
  <2>2. ASSUME NEW r \in Requests, SetInactive(r) PROVE UNCHANGED fields
    BY <2>2 DEF SetInactive
  <2> QED
    BY <1>1, <2>1, <2>2, WhoWrites
<1> QED
  BY <1>1, Invariance, PTL DEF Spec, ResubmittedIdsSurvive

\* The value of a tipo.
Value(t) == [id |-> t.id, slug |-> t.slug, activo |-> t.activo, form |-> Says(FieldsOf(t.id))]

\* The fields of a tipo are a form of one author without two fields of one order.
LEMMA ValuesAreForms ==
  ASSUME NEW F, NEW w, Says(F) = Submitted(w), \A f, g \in F : f.order = g.order => f = g
  PROVE  Promise!OneSubmissionForm(Says(F))
<1> SUFFICES ASSUME NEW x \in Says(F), NEW y \in Says(F)
             PROVE  x[2][1] = y[2][1] /\ (x[1] = y[1] => x = y)
  BY DEF Promise!OneSubmissionForm
<1>1. x[2][1] = w /\ y[2][1] = w
  BY DEF Submitted
<1>2. PICK f \in F : x = <<f.order, f.content>>
  BY DEF Says
<1>3. PICK g \in F : y = <<g.order, g.content>>
  BY DEF Says
<1> QED
  BY <1>1, <1>2, <1>3

LEMMA CatalogueIsSound == IInv => Promise!CatalogueInit
<1> SUFFICES ASSUME IInv PROVE Promise!CatalogueInit
  OBVIOUS
<1>1. \A t \in tipos : Promise!OneSubmissionForm(Says(FieldsOf(t.id)))
  BY ValuesAreForms DEF IInv, TableInv, OneSubmission
<1>2. \A t, u \in tipos : t.id = u.id \/ t.slug = u.slug => t = u
  BY DEF IInv, TableInv, TiposAreNamed
<1> QED
  BY <1>1, <1>2 DEF Promise!CatalogueInit, Promise!Named

\* The COMMIT of a create enters a value, and that of an update rewrites one.
LEMMA CommitIsPromised ==
  ASSUME IInv, IInv', NEW r \in Requests, Commit(r)
  PROVE  Promise!Enter \/ Promise!Rewrite
<1> PICK x : x = target[r]
  OBVIOUS
<1> PICK n : n = row[r]
  OBVIOUS
<1> PICK K : K = kept[r]
  OBVIOUS
<1> PICK d : d = [id |-> x, slug |-> n.slug, activo |-> n.activo, form |-> Says(K)]
  OBVIOUS
<1> PICK old : old = { Value(t) : t \in tipos }
  OBVIOUS
<1> PICK rest : rest = { Value(t) : t \in { u \in tipos : u.id # x } }
  OBVIOUS
<1>1. /\ pc[r] = "writing" /\ kind[r] \in {"edit", "create"} /\ n.id = x
      /\ tipos' = { t \in tipos : t.id # x } \cup {n}
  BY CommitTables
<1>2. FieldsOf(x)' = K /\ \A y : y # x => FieldsOf(y)' = FieldsOf(y)
  BY CommitTables
<1>3. kind[r] = "edit" => \E t \in tipos : t.id = x /\ t.slug = n.slug /\ t.activo = n.activo
  BY CommitTables
<1>4. kind[r] = "create" => n.activo /\ n.slug \notin Taken /\ \A t \in tipos : t.id # x
  BY CommitTables
<1>5. Promise!OneSubmissionForm(Says(K))
  BY <1>1, WholeOverlay, ValuesAreForms DEF Commit
<1>6. { Value(t) : t \in tipos }' = rest \cup {d}
  <2>1. ASSUME NEW t, t.id # x PROVE Value(t)' = Value(t)
    <3>1. FieldsOf(t.id)' = FieldsOf(t.id)
      BY <1>2, <2>1
    <3> QED
      BY <3>1 DEF Value, Says
  <2>2. Value(n)' = d
    <3>1. FieldsOf(n.id)' = K
      BY <1>1, <1>2
    <3> QED
      BY <1>1, <3>1 DEF Value, Says
  <2> QED
    BY <1>1, <2>1, <2>2
<1>7. CASE kind[r] = "create"
  <2>1. rest = old
    BY <1>4, <1>7
  <2>2. \A c \in old : c.id # d.id /\ c.slug # d.slug
    BY <1>4, <1>7 DEF Taken, Value
  <2>3. Promise!Enter
    <3> HIDE DEF Value
    <3>1. d.activo /\ d.form = Says(K)
      BY <1>4, <1>7
    <3> QED
      BY <1>5, <1>6, <2>1, <2>2, <3>1 DEF Promise!Enter, Value
  <2> QED
    BY <2>3
<1>8. CASE kind[r] = "edit"
  <2>1. PICK t \in tipos : t.id = x /\ t.slug = n.slug /\ t.activo = n.activo
    BY <1>3, <1>8
  <2> PICK c : c = Value(t)
    OBVIOUS
  <2>2. c \in old /\ c.id = x /\ c.slug = n.slug /\ c.activo = n.activo
    BY <2>1 DEF Value
  <2>3. rest = old \ {c}
    BY <2>1, <2>2 DEF Value, IInv, TableInv, TiposAreNamed
  <2>4. d.id = x /\ d.slug = n.slug /\ d.activo = n.activo /\ d.form = Says(K)
    OBVIOUS
  <2>5. Promise!Rewrite
    BY <1>5, <1>6, <2>2, <2>3, <2>4 DEF Promise!Rewrite, Value
  <2> QED
    BY <2>5
<1> QED
  BY <1>1, <1>7, <1>8

\* A deactivation retires a value, or does nothing.
LEMMA RetirementIsPromised ==
  ASSUME IInv, NEW r \in Requests, SetInactive(r)
  PROVE  Promise!Retire \/ UNCHANGED <<tipos, fields>>
<1> PICK x : x = target[r]
  OBVIOUS
<1> DEFINE off(t) == IF t.id = x THEN [t EXCEPT !.activo = FALSE] ELSE t
<1>1. tipos' = { off(t) : t \in tipos } /\ UNCHANGED fields /\ tipos \subseteq Tipo
  BY DEF SetInactive, IInv, TypeOK
<1>2. \A F : Says(F)' = Says(F)
  BY DEF Says
<1>3. \A y : FieldsOf(y)' = FieldsOf(y)
  BY <1>1 DEF FieldsOf
<1>4. CASE \E t \in tipos : t.id = x
  <2>1. PICK t \in tipos : t.id = x
    BY <1>4
  <2> PICK c : c = Value(t)
    OBVIOUS
  <2> PICK d : d = [c EXCEPT !.activo = FALSE]
    OBVIOUS
  <2>2. \A u \in tipos : u.id = x => u = t
    BY <2>1 DEF IInv, TableInv, TiposAreNamed
  <2>3. tipos' = { u \in tipos : u.id # x } \cup {off(t)}
    BY <1>1, <2>1, <2>2
  <2>4. Value(off(t))' = d
    <3>1. off(t).id = t.id /\ off(t).slug = t.slug /\ off(t).activo = FALSE
      BY <1>1, <2>1 DEF Tipo
    <3>2. Says(FieldsOf(off(t).id))' = Says(FieldsOf(t.id))
      BY <1>3, <3>1 DEF Says
    <3> QED
      BY <3>1, <3>2 DEF Value
  <2>5. \A u : Value(u)' = Value(u)
    BY <1>3 DEF Value, Says
  <2> PICK rest : rest = { Value(u) : u \in { v \in tipos : v.id # x } }
    OBVIOUS
  <2>6. { Value(u) : u \in tipos }' = rest \cup {d}
    <3> HIDE DEF off
    <3> QED
      BY <2>3, <2>4, <2>5
  <2>7. c \in { Value(u) : u \in tipos } /\ rest = { Value(u) : u \in tipos } \ {c}
    BY <2>1, <2>2 DEF Value
  <2>8. Promise!Retire
    BY <2>6, <2>7 DEF Promise!Retire, Value
  <2> QED
    BY <2>8
<1>5. CASE \A t \in tipos : t.id # x
  BY <1>1, <1>5
<1> QED
  BY <1>4, <1>5

\* Tipos implements the Catalogue: those who file may take a tipo for one value,
\* although it is two tables, written row by row.
THEOREM KeepsTheCatalogue == Spec => ImplementsCatalogue
<1>1. Init => Promise!CatalogueInit
  BY InitHolds, CatalogueIsSound
<1>2. IInv /\ [Next]_vars =>
        [Promise!Enter \/ Promise!Rewrite \/ Promise!Retire]_({
          [id |-> t.id, slug |-> t.slug, activo |-> t.activo, form |-> Says(FieldsOf(t.id))] :
            t \in tipos })
  <2> SUFFICES ASSUME IInv, [Next]_vars, ~UNCHANGED <<tipos, fields>>
               PROVE  Promise!Enter \/ Promise!Rewrite \/ Promise!Retire
    BY DEF Says, FieldsOf
  <2> QED
    BY NextHolds, WhoWrites, CommitIsPromised, RetirementIsPromised
<1> QED
  BY <1>1, <1>2, Invariance, PTL DEF Spec, ImplementsCatalogue, Promise!CatalogueSpec
=============================================================================
