------------------------------- MODULE Tipos -------------------------------
(***************************************************************************)
(* The catalogue of tipos as administrators edit it: creation under a slug *)
(* that nobody has, the rewrite of a tipo with its fields under its row    *)
(* lock, deactivation, and the two queries with which all others read it.  *)
(*                                                                         *)
(* The transaction of an edit is an overlay on the committed fields: rows  *)
(* it deleted (gone) and rows it wrote (kept).  A field row is one value:  *)
(* content <<w, i>> is what row i of the form of w said of it.             *)
(***************************************************************************)
EXTENDS Naturals, Sequences, FiniteSets

CONSTANTS
  Requests,    \* the requests of administrators and of those who file
  Slugs,
  Candidates,  \* for each nombre, the slugs in the order in which they are tried
  Seed,        \* an earlier request, which created the first tipo
  SeedSlug,
  SeedSize,    \* how many fields that tipo has
  New,         \* field_id of an added row
  MaxFields,   \* MAX_FIELDS_PER_TIPO
  Offset       \* where orders are parked

Authors == Requests \cup {Seed}
FieldId == Authors \X Nat

ASSUME SeedAssumption   == Seed \notin Requests /\ SeedSlug \in Slugs /\ SeedSize \in 0 .. MaxFields
ASSUME LimitsAssumption == MaxFields \in Nat /\ Offset \in Nat /\ MaxFields < Offset
ASSUME NewAssumption    == New \notin FieldId
ASSUME NamesAssumption  == Candidates \subseteq Seq(Slugs)

VARIABLES
  tipos,   \* the committed TipoSolicitud rows
  fields,  \* the committed FieldDefinition rows
  pc,      \* pc[r]: how far the request is
  kind,    \* kind[r]: what it does
  target,  \* target[r]: the tipo it works on
  names,   \* names[r]: the slugs it has still to try
  before,  \* before[r]: the slugs that were taken when it arrived
  seen,    \* seen[r]: the fields its page shows
  posted,  \* posted[r]: the rows of its form
  row,     \* row[r]: the tipo row that it saves
  next,    \* next[r]: the row of its form that it writes next
  gone,    \* gone[r]: the ids of the fields it deleted
  kept     \* kept[r]: the field rows it wrote

naming == <<names, before>>
txn    == <<row, next, gone, kept>>
vars   == <<tipos, fields, pc, kind, target, naming, seen, posted, txn>>

Tipo  == [id: Authors, slug: Slugs, activo: BOOLEAN, by: Authors]
Field == [id: FieldId, tipo: Authors, order: Nat, content: Authors \X Nat]

SeedTipo == [id |-> Seed, slug |-> SeedSlug, activo |-> TRUE, by |-> Seed]

Input == [field: FieldId \cup {New}, order: Nat]

\* What CreateTipoInput demands of the rows together.
Valid(p) ==
  /\ Len(p) <= MaxFields
  /\ \A i, j \in DOMAIN p : i < j => p[i].order # p[j].order

\* The forms that show the fields ids.  Added rows come last; on submit the script
\* of the page numbers the rows 0, 1, ... in the order to which they were dragged.
Forms(ids) ==
  { p \in UNION { [1 .. n -> [field: ids \cup {New}, order: 0 .. n - 1]] : n \in 0 .. MaxFields } :
      /\ Valid(p)
      /\ \A i, j \in DOMAIN p : i < j =>
           (p[i].field \in {New, p[j].field} => p[j].field = New) }

SeedForm == [i \in 1 .. SeedSize |-> [field |-> New, order |-> i - 1]]
Form(w)  == IF w = Seed THEN SeedForm ELSE posted[w]

Ids(F)      == { f.id : f \in F }
FieldsOf(t) == { f \in fields : f.tipo = t }
Taken       == { t.slug : t \in tipos }

Writing == {"deleting", "parking", "writing"}
Running == {"naming", "inserting", "reading", "thinking", "posting", "deactivating"} \cup Writing
Ended   == {"saved", "conflict", "collided", "shown", "refused", "deactivated", "failed"}

Init ==
  /\ tipos = {SeedTipo}
  /\ fields = { [id |-> <<Seed, i>>, tipo |-> Seed, order |-> i - 1, content |-> <<Seed, i>>] :
                  i \in 1 .. SeedSize }
  /\ pc = [r \in Requests |-> "idle"]
  /\ kind = [r \in Requests |-> "none"]
  /\ target = [r \in Requests |-> Seed]
  /\ names = [r \in Requests |-> <<>>]
  /\ before = [r \in Requests |-> {}]
  /\ seen = [r \in Requests |-> {}]
  /\ posted = [r \in Requests |-> <<>>]
  /\ row = [r \in Requests |-> SeedTipo]
  /\ next = [r \in Requests |-> 1]
  /\ gone = [r \in Requests |-> {}]
  /\ kept = [r \in Requests |-> {}]

Goto(r, step) == pc' = [pc EXCEPT ![r] = step]
-----------------------------------------------------------------------------
(***************************************************************************)
(* Reading a tipo: get_by_id fetches the row, and then its fields.         *)
(***************************************************************************)
\* The page of an edit shows any tipo; a snapshot for a solicitud or its form
\* is refused when the tipo is not active.
ReadRow(r) ==
  /\ pc[r] = "idle"
  /\ \E t \in tipos : \E k \in {"edit", "snapshot"} :
       /\ kind' = [kind EXCEPT ![r] = k]
       /\ target' = [target EXCEPT ![r] = t.id]
       /\ Goto(r, IF k = "snapshot" /\ ~t.activo THEN "refused" ELSE "reading")
  /\ UNCHANGED <<tipos, fields, naming, seen, posted, txn>>

ReadFields(r) ==
  /\ pc[r] = "reading"
  /\ seen' = [seen EXCEPT ![r] = FieldsOf(target[r])]
  /\ Goto(r, IF kind[r] = "edit" THEN "thinking" ELSE "shown")
  /\ UNCHANGED <<tipos, fields, kind, target, naming, posted, txn>>

\* The administrator sends the page back, whatever happened to the tipo since.
Post(r) ==
  /\ pc[r] = "thinking"
  /\ \E p \in Forms(Ids(seen[r])) : posted' = [posted EXCEPT ![r] = p]
  /\ Goto(r, "posting")
  /\ UNCHANGED <<tipos, fields, kind, target, naming, seen, txn>>
-----------------------------------------------------------------------------
(***************************************************************************)
(* create: the slug is looked for, and inserted later.                     *)
(***************************************************************************)
Create(r) ==
  /\ pc[r] = "idle"
  /\ kind' = [kind EXCEPT ![r] = "create"]
  /\ target' = [target EXCEPT ![r] = r]
  /\ \E c \in Candidates : names' = [names EXCEPT ![r] = c]
  /\ before' = [before EXCEPT ![r] = Taken]
  /\ \E p \in Forms({}) : posted' = [posted EXCEPT ![r] = p]
  /\ Goto(r, "naming")
  /\ UNCHANGED <<tipos, fields, seen, txn>>

\* _build_unique_slug: is the candidate taken?
TryName(r) ==
  /\ pc[r] = "naming" /\ names[r] # <<>>
  /\ IF Head(names[r]) \in Taken
     THEN names' = [names EXCEPT ![r] = Tail(@)] /\ UNCHANGED pc
     ELSE Goto(r, "inserting") /\ UNCHANGED names
  /\ UNCHANGED <<tipos, fields, kind, target, before, seen, posted, txn>>

\* The INSERT waits for one of the same slug that is not decided.  A slug that
\* was committed meanwhile is a TipoSlugConflict.
InsertTipo(r) ==
  /\ pc[r] = "inserting"
  /\ \A s \in Requests \ {r} :
       ~(pc[s] = "writing" /\ kind[s] = "create" /\ row[s].slug = Head(names[r]))
  /\ IF Head(names[r]) \in Taken
     THEN Goto(r, "conflict") /\ UNCHANGED row
     ELSE /\ row' = [row EXCEPT ![r] =
                 [id |-> r, slug |-> Head(names[r]), activo |-> TRUE, by |-> r]]
          /\ Goto(r, "writing")
  /\ UNCHANGED <<tipos, fields, kind, target, naming, seen, posted, next, gone, kept>>
-----------------------------------------------------------------------------
(***************************************************************************)
(* update: the whole row is saved and the fields are replaced, under the   *)
(* lock of the row.                                                        *)
(***************************************************************************)
\* s holds the row of tipo t.
Holds(s, t) == pc[s] \in Writing /\ kind[s] = "edit" /\ target[s] = t

\* Mutant: get() without select_for_update().
ReadTipo(r) ==
  /\ pc[r] = "posting"
  /\ \E t \in tipos : t.id = target[r] /\ row' = [row EXCEPT ![r] = [t EXCEPT !.by = r]]
  /\ Goto(r, "deleting")
  /\ UNCHANGED <<tipos, fields, kind, target, naming, seen, posted, next, gone, kept>>

\* select_for_update, the columns of the form, save(), which writes them all.
LockTipo(r) ==
  /\ pc[r] = "posting"
  /\ \A s \in Requests \ {r} : ~Holds(s, target[r])
  /\ \E t \in tipos : t.id = target[r] /\ row' = [row EXCEPT ![r] = [t EXCEPT !.by = r]]
  /\ Goto(r, "deleting")
  /\ UNCHANGED <<tipos, fields, kind, target, naming, seen, posted, next, gone, kept>>

PostedIds(w) == { Form(w)[i].field : i \in DOMAIN Form(w) }

\* Mutant: delete and recreate.
DeleteAll(r) ==
  /\ pc[r] = "deleting"
  /\ gone' = [gone EXCEPT ![r] = Ids(FieldsOf(target[r]))]
  /\ Goto(r, "parking")
  /\ UNCHANGED <<tipos, fields, kind, target, naming, seen, posted, row, next, kept>>

\* Fields that the form does not list are deleted.
DeleteOthers(r) ==
  /\ pc[r] = "deleting"
  /\ gone' = [gone EXCEPT ![r] = Ids(FieldsOf(target[r])) \ PostedIds(r)]
  /\ Goto(r, "parking")
  /\ UNCHANGED <<tipos, fields, kind, target, naming, seen, posted, row, next, kept>>

\* The fields of its tipo as its transaction sees them.
View(r) ==
  { f \in FieldsOf(target[r]) : f.id \notin gone[r] \cup Ids(kept[r]) } \cup kept[r]

\* Mutant: orders are not parked.
ParkNothing(r) ==
  /\ pc[r] = "parking"
  /\ kept' = [kept EXCEPT ![r] = View(r)]
  /\ Goto(r, "writing")
  /\ UNCHANGED <<tipos, fields, kind, target, naming, seen, posted, row, next, gone>>

\* The orders of the rest are moved out of the way, unless one is in the way of
\* another (IntegrityError).
Park(r) ==
  /\ pc[r] = "parking"
  /\ IF \E f, g \in View(r) : f.order + Offset = g.order
     THEN Goto(r, "collided") /\ UNCHANGED kept
     ELSE /\ kept' = [kept EXCEPT ![r] = { [f EXCEPT !.order = @ + Offset] : f \in View(r) }]
          /\ Goto(r, "writing")
  /\ UNCHANGED <<tipos, fields, kind, target, naming, seen, posted, row, next, gone>>

\* The row that the next input makes: in place when its field is still there, and
\* with a new id otherwise, also when somebody deleted it after the page was shown.
NewRow(r) ==
  LET input == posted[r][next[r]] IN
    [id      |-> IF input.field \in Ids(kept[r]) THEN input.field ELSE <<r, next[r]>>,
     tipo    |-> target[r],
     order   |-> input.order,
     content |-> <<r, next[r]>>]

\* One input is written, unless its order is taken (IntegrityError).
WriteField(r) ==
  /\ pc[r] = "writing" /\ next[r] \in DOMAIN posted[r]
  /\ LET f == NewRow(r) IN
       IF \E g \in View(r) : g.order = f.order /\ g.id # f.id
       THEN Goto(r, "collided") /\ UNCHANGED <<next, kept>>
       ELSE /\ kept' = [kept EXCEPT ![r] = { g \in @ : g.id # f.id } \cup {f}]
            /\ next' = [next EXCEPT ![r] = @ + 1]
            /\ UNCHANGED pc
  /\ UNCHANGED <<tipos, fields, kind, target, naming, seen, posted, row, gone>>

\* The overlay is no more: it was committed, or rolled back.
Discard(r) ==
  /\ next' = [next EXCEPT ![r] = 1]
  /\ gone' = [gone EXCEPT ![r] = {}]
  /\ kept' = [kept EXCEPT ![r] = {}]

\* COMMIT of a create or of an update.
Commit(r) ==
  /\ pc[r] = "writing" /\ next[r] \notin DOMAIN posted[r]
  /\ tipos' = { t \in tipos : t.id # target[r] } \cup {row[r]}
  /\ fields' = { f \in fields : f.tipo # target[r] } \cup View(r)
  /\ Discard(r)
  /\ Goto(r, "saved")
  /\ UNCHANGED <<kind, target, naming, seen, posted, row>>
-----------------------------------------------------------------------------
Deactivate(r) ==
  /\ pc[r] = "idle"
  /\ \E t \in tipos : target' = [target EXCEPT ![r] = t.id]
  /\ kind' = [kind EXCEPT ![r] = "deactivate"]
  /\ Goto(r, "deactivating")
  /\ UNCHANGED <<tipos, fields, naming, seen, posted, txn>>

\* Mutant: it does not wait for the transaction of an edit.
SetInactiveAtOnce(r) ==
  /\ pc[r] = "deactivating"
  /\ tipos' = { IF t.id = target[r] THEN [t EXCEPT !.activo = FALSE] ELSE t : t \in tipos }
  /\ Goto(r, "deactivated")
  /\ UNCHANGED <<fields, kind, target, naming, seen, posted, txn>>

\* One UPDATE of activo alone, which waits for the row.
SetInactive(r) ==
  /\ pc[r] = "deactivating"
  /\ \A s \in Requests \ {r} : ~Holds(s, target[r])
  /\ tipos' = { IF t.id = target[r] THEN [t EXCEPT !.activo = FALSE] ELSE t : t \in tipos }
  /\ Goto(r, "deactivated")
  /\ UNCHANGED <<fields, kind, target, naming, seen, posted, txn>>

\* An error of the database, or the death of the worker, in a transaction:
\* ROLLBACK.  Outside of one it changes nothing that others see.
Fail(r) ==
  /\ pc[r] \in Writing
  /\ Discard(r)
  /\ Goto(r, "failed")
  /\ UNCHANGED <<tipos, fields, kind, target, naming, seen, posted, row>>

Arrive(r) == ReadRow(r) \/ Create(r) \/ Deactivate(r)

\* What the process that runs r does next; the administrator thinks at leisure.
Step(r) ==
  \/ ReadFields(r) \/ TryName(r) \/ InsertTipo(r) \/ LockTipo(r) \/ DeleteOthers(r)
  \/ Park(r) \/ WriteField(r) \/ Commit(r) \/ SetInactive(r)

Next == \E r \in Requests : Arrive(r) \/ Post(r) \/ Step(r) \/ Fail(r)

Spec == Init /\ [][Next]_vars

-----------------------------------------------------------------------------
TypeOK ==
  /\ tipos \subseteq Tipo
  /\ fields \subseteq Field
  /\ pc \in [Requests -> {"idle"} \cup Running \cup Ended]
  /\ kind \in [Requests -> {"none", "edit", "snapshot", "create", "deactivate"}]
  /\ target \in [Requests -> Authors]
  /\ names \in [Requests -> Seq(Slugs)]
  /\ before \in [Requests -> SUBSET Slugs]
  /\ seen \in [Requests -> SUBSET Field]
  /\ posted \in [Requests -> Seq(Input)]
  /\ row \in [Requests -> Tipo]
  /\ next \in [Requests -> Nat \ {0}]
  /\ gone \in [Requests -> SUBSET FieldId]
  /\ kept \in [Requests -> SUBSET Field]

\* What w submitted, and what a set of field rows says.
Submitted(w) == { <<Form(w)[i].order, <<w, i>>>> : i \in DOMAIN Form(w) }
Says(F)      == { <<f.order, f.content>> : f \in F }

Saved(w) == w = Seed \/ (w \in Requests /\ pc[w] = "saved")

\* A tipo and its fields are one submission, the last that was saved: of two
\* overlapping edits nothing is merged, and of one nothing is lost or doubled.
OneSubmission ==
  \A t \in tipos :
    /\ Says(FieldsOf(t.id)) = Submitted(t.by)
    /\ \A f, g \in FieldsOf(t.id) : f.order = g.order => f = g

\* A field keeps its id as long as those who save the tipo list it: what a
\* solicitud answered stays attached to it, across edits by stale pages.
ResubmittedIdsSurvive ==
  [][\A f \in fields : f.id \notin Ids(fields') =>
       \E t \in tipos' : t.id = f.tipo /\ f.id \notin PostedIds(t.by)]_fields

\* The two queries of a reading take the fields from one submission, although
\* edits are saved before, between and after them.
ReadingsAreWhole ==
  \A r \in Requests :
    kind[r] \in {"edit", "snapshot"} /\ pc[r] \in {"thinking", "posting", "shown"} \cup Writing =>
      \E w \in Authors : Saved(w) /\ Says(seen[r]) = Submitted(w)

\* Reordering, whatever was there before and whatever the page showed, never
\* trips over the uniqueness of (tipo, order).
OrdersNeverCollide == \A r \in Requests : pc[r] # "collided"

\* TipoSlugConflict is told only to who lost a race: somebody took the slug after
\* the request arrived.
OnlyRacesConflict ==
  \A r \in Requests : pc[r] = "conflict" => Head(names[r]) \in Taken \ before[r]

\* The catalogue that readers may assume.
Promise == INSTANCE Catalogue WITH catalogo <-
  { [id |-> t.id, slug |-> t.slug, activo |-> t.activo, form |-> Says(FieldsOf(t.id))] :
      t \in tipos }

ImplementsCatalogue == Promise!CatalogueSpec

-----------------------------------------------------------------------------
(***************************************************************************)
(* The inductive strengthening.                                            *)
(***************************************************************************)
CommittedIsSaved ==
  /\ \A t \in tipos : Saved(t.id) /\ Saved(t.by)
  /\ \A f \in fields : Saved(f.id[1]) /\ \E t \in tipos : t.id = f.tipo

TiposAreNamed == \A t, u \in tipos : t.id = u.id \/ t.slug = u.slug => t = u

IdsIdentify == \A f, g \in fields : f.id = g.id => f = g

FormsAreLegal ==
  \A r \in Requests : \A i \in DOMAIN posted[r] :
    /\ posted[r][i].order < MaxFields
    /\ posted[r][i].field = New \/ posted[r][i].field[1] # r
    /\ \A j \in DOMAIN posted[r] : i # j =>
         /\ posted[r][i].order # posted[r][j].order
         /\ posted[r][i].field = posted[r][j].field => posted[r][i].field = New

PagesAreOld == \A r \in Requests : \A f \in seen[r] : f.id[1] # r

StagesAreSound ==
  \A r \in Requests :
    /\ pc[r] = "idle" => kind[r] = "none"
    /\ pc[r] \in {"reading", "shown"} => kind[r] \in {"edit", "snapshot"}
    /\ pc[r] \in {"thinking", "posting", "deleting", "parking"} => kind[r] = "edit"
    /\ pc[r] \in {"naming", "inserting"} => kind[r] = "create"
    /\ pc[r] = "inserting" => names[r] # <<>>
    /\ pc[r] = "writing" => kind[r] \in {"edit", "create"}
    /\ pc[r] \notin Writing \/ pc[r] = "deleting" => gone[r] = {}
    /\ pc[r] # "writing" => kept[r] = {} /\ next[r] = 1

TargetsExist ==
  \A r \in Requests :
    /\ kind[r] = "create" => target[r] = r
    /\ kind[r] \in {"edit", "snapshot", "deactivate"} => \E t \in tipos : t.id = target[r]

\* Two transactions are at two tipos, and two new ones at two slugs.
WritersAreApart ==
  \A r, s \in Requests : pc[r] \in Writing /\ pc[s] \in Writing /\ r # s =>
    /\ kind[r] = kind[s] => target[r] # target[s]
    /\ kind[r] = "create" /\ kind[s] = "create" => row[r].slug # row[s].slug

\* Under the lock the row that is saved is the one that is there.
Current(r) ==
  /\ row[r].id = target[r] /\ row[r].by = r
  /\ kind[r] = "edit" => \E t \in tipos : row[r] = [t EXCEPT !.by = r]
  /\ kind[r] = "create" => row[r].activo /\ row[r].slug \notin Taken

RowsAreCurrent == \A r \in Requests : pc[r] \in Writing => Current(r)

\* A field row of the overlay waits for its input with a parked order, or is what
\* an input before the next one says.
Parked(r, f) ==
  /\ Offset <= f.order
  /\ \E j \in DOMAIN posted[r] : next[r] <= j /\ posted[r][j].field = f.id
Written(r, f) ==
  \E j \in DOMAIN posted[r] :
    /\ j < next[r]
    /\ f.content = <<r, j>> /\ f.order = posted[r][j].order
    /\ f.id \in {posted[r][j].field, <<r, j>>}

Overlaid(r, f) ==
  /\ f.tipo = target[r]
  /\ f.id \in Ids(FieldsOf(target[r])) \/ f.id[1] = r
  /\ Parked(r, f) \/ Written(r, f)

\* An input before the next one has its row.
Placed(r, j) == \E f \in kept[r] : f.content = <<r, j>> /\ f.order = posted[r][j].order

Overlay(r) ==
  /\ Ids(FieldsOf(target[r])) \subseteq gone[r] \cup Ids(kept[r])
  /\ \A f \in kept[r] : Overlaid(r, f)
  /\ \A f, g \in kept[r] : f.id = g.id \/ f.order = g.order => f = g
  /\ \A j \in DOMAIN posted[r] : j < next[r] => Placed(r, j)

OverlayIsSound(r) ==
  /\ pc[r] \in {"parking", "writing"} => gone[r] = Ids(FieldsOf(target[r])) \ PostedIds(r)
  /\ pc[r] = "writing" => Overlay(r)

OverlaysAreSound == \A r \in Requests : OverlayIsSound(r)

SlugsWereTaken ==
  \A r \in Requests :
    /\ before[r] \subseteq Taken
    /\ pc[r] = "inserting" => Head(names[r]) \notin before[r]

TableInv == CommittedIsSaved /\ TiposAreNamed /\ IdsIdentify /\ OneSubmission
PageInv  == FormsAreLegal /\ PagesAreOld /\ ReadingsAreWhole
WriteInv == TargetsExist /\ WritersAreApart /\ RowsAreCurrent /\ OverlaysAreSound
NameInv  == SlugsWereTaken /\ OnlyRacesConflict

IInv == TypeOK /\ StagesAreSound /\ TableInv /\ PageInv /\ WriteInv /\ NameInv /\ OrdersNeverCollide
=============================================================================
