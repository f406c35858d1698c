---------------------------- MODULE Formularios ----------------------------
(***************************************************************************)
(* The dynamic form of a tipo: what an administrator may declare in the    *)
(* editor, what a solicitante may then post against it, and what is left   *)
(* in the solicitud.  The POST of a filing reads the fields twice, once to *)
(* build the form and once for the row; an edit may come in between.  The  *)
(* values the form never asks for come from the profile, which other       *)
(* requests of the person fill at the same time (Perfil).                  *)
(***************************************************************************)
EXTENDS Perfil, Naturals, FiniteSets, Sequences

CONSTANTS
  Requests,   \* POSTs of CreateSolicitudView, all of one solicitante
  Yo,         \* that solicitante
  FieldIds,   \* ids of FieldDefinition rows
  Blanco,     \* an input left empty, a limit that is not set
  Options,    \* options a SELECT may offer
  Largo, Numero, Fecha, \* strings: over 200 characters; a number; a date
  Cuenta,     \* the email or the matricula, which no profile lacks
  Archivos,   \* files a client may attach: records [ext, mb]
  EditorRows, \* the rows the administrator may fill in or leave behind
  MaxEdits    \* bound: edits of the tipo

FieldType == {"TEXT", "TEXTAREA", "NUMBER", "DATE", "SELECT", "FILE"}

\* _SOURCE_TO_USER_ATTR; the email and the matricula are never empty.
SourceAttr == [USER_FULL_NAME |-> "full_name", USER_PROGRAMA |-> "programa",
               USER_SEMESTRE |-> "semestre"]
FieldSource == DOMAIN SourceAttr \cup {"USER_INPUT", "USER_EMAIL", "USER_MATRICULA"}

\* FIELD_SOURCE_ALLOWED_TYPES.
AllowedTypes(source) == CASE source = "USER_INPUT"    -> FieldType
                          [] source = "USER_SEMESTRE" -> {"NUMBER"}
                          [] OTHER                    -> {"TEXT"}

Extensions == {".pdf", ".PDF", "pdf", ".exe"}

\* A row as the editor posts it, a csv cut at its commas; what is no number is as
\* bad as a number out of range.
EditorRow == [field_type : FieldType, required : BOOLEAN, options_csv : Seq({Blanco} \cup Options),
              accepted_extensions_csv : Seq({Blanco} \cup Extensions), max_size_mb : {Blanco} \cup Nat,
              max_chars : {Blanco} \cup Nat, source : {Blanco} \cup FieldSource]

\* Every source a row names is a column of the profile.
ASSUME FormulariosAssumption ==
  /\ Yo \in Matriculas
  /\ Blanco \notin Valores \cup {Cuenta} \cup Archivos
  /\ Blanco \notin Extensions
  /\ EditorRows \subseteq EditorRow
  /\ \A row \in EditorRows : row.source \in DOMAIN SourceAttr => SourceAttr[row.source] \in Campos

MAX_FIELDS_PER_TIPO == 50
GLOBAL_MAX_MB       == 10

VARIABLES
  campos,    \* the FieldDefinition rows of the tipo, by id
  used,      \* ids handed out so far: uuid4 repeats none
  edits,
  pc,
  missing,   \* missing[r]: has_missing_required of its preview
  asked,     \* asked[r]: the snapshot the form of the POST is built from
  files,     \* files[r]: request.FILES, by field id
  valores,   \* valores[r]
  snapshot,  \* snapshot[r]: the one create takes for the row
  stored     \* stored[r]: the archivos, by field id

admin == <<campos, used, edits>>
local == <<pc, missing, asked, files, valores, snapshot, stored>>
vars  == <<admin, local, perfil>>

Field == [field_type : FieldType, required : BOOLEAN, options : Seq(Options),
          accepted_extensions : Seq(Extensions), max_size_mb : 1..50,
          max_chars : (1..2000) \cup {Blanco}, source : FieldSource]

NoEntries == [i \in {} |-> Blanco]
Running   == {"valid", "read", "resolved"}
Ended     == {"invalid", "incomplete", "refused", "filed"}

Init ==
  /\ campos = [i \in {} |-> Blanco]
  /\ used = {} /\ edits = 0
  /\ pc = [r \in Requests |-> "idle"]
  /\ missing = [r \in Requests |-> FALSE]
  /\ asked = [r \in Requests |-> NoEntries]
  /\ files = [r \in Requests |-> NoEntries]
  /\ valores = [r \in Requests |-> NoEntries]
  /\ snapshot = [r \in Requests |-> NoEntries]
  /\ stored = [r \in Requests |-> NoEntries]
  /\ PerfilInit

-----------------------------------------------------------------------------
(* The editor: FieldForm, _collect_fields, CreateFieldInput.               *)

Textual(type) == type \in {"TEXT", "TEXTAREA"}

\* A csv is the list of its trimmed parts in their order; empty ones are dropped.
Parts(csv)     == { k \in DOMAIN csv : csv[k] # Blanco }
PartAt(csv, n) == CHOOSE k \in Parts(csv) : Cardinality(Parts(csv) \cap 1 .. k) = n
SplitCsv(csv)  == [n \in 1 .. Cardinality(Parts(csv)) |-> csv[PartAt(csv, n)]]

Lower(ext) == IF ext = ".PDF" THEN ".pdf" ELSE ext
LowerAll(exts) == [k \in DOMAIN exts |-> Lower(exts[k])]
Dotted(ext) == ext # "pdf"

\* The declared limits of the inputs.
InputsInRange(row) ==
  /\ row.max_size_mb = Blanco \/ row.max_size_mb \in 1..50
  /\ row.max_chars = Blanco \/ row.max_chars \in 1..2000

OptionsAccepted(row) == row.field_type = "SELECT" <=> SplitCsv(row.options_csv) # <<>>

ExtensionsAccepted(row) ==
  LET exts == SplitCsv(row.accepted_extensions_csv)
  IN /\ row.field_type = "FILE" <=> exts # <<>>
     /\ \A k \in DOMAIN exts : Dotted(exts[k])

RowAccepted(row) == InputsInRange(row) /\ OptionsAccepted(row) /\ ExtensionsAccepted(row)

\* _normalize_type_only_fields: inputs the browser hides are dropped.
DropHidden(row) ==
  [row EXCEPT !.max_size_mb = IF row.field_type = "FILE" THEN @ ELSE 10,
              !.max_chars   = IF Textual(row.field_type) THEN @ ELSE Blanco]

\* _normalize_source.
SourceOf(row) ==
  IF row.source # Blanco /\ row.field_type \in AllowedTypes(row.source)
  THEN row.source ELSE "USER_INPUT"

\* clean, then one row of _collect_fields.
Collected(row) ==
  LET clean == DropHidden(row)
  IN [field_type |-> clean.field_type, required |-> clean.required,
      options |-> SplitCsv(clean.options_csv),
      accepted_extensions |-> LowerAll(SplitCsv(clean.accepted_extensions_csv)),
      max_size_mb |-> IF clean.max_size_mb = Blanco THEN 10 ELSE clean.max_size_mb,
      max_chars |-> clean.max_chars, source |-> SourceOf(row)]

\* The validators of CreateFieldInput.
SchemaAccepts(f) ==
  /\ f.field_type = "SELECT" <=> f.options # <<>>
  /\ f.field_type = "FILE" <=> f.accepted_extensions # <<>>
  /\ f.max_chars # Blanco => Textual(f.field_type)
  /\ f.field_type \in AllowedTypes(f.source)

\* Mutant: the page leaves the limit of characters blank.
InitialNoChars(f) ==
  [field_type |-> f.field_type, required |-> f.required, options_csv |-> f.options,
   accepted_extensions_csv |-> f.accepted_extensions, max_size_mb |-> f.max_size_mb,
   max_chars |-> Blanco, source |-> f.source]

\* fieldset_initial_from_dto: the row the edit page shows for a field.
Initial(f) ==
  [field_type |-> f.field_type, required |-> f.required, options_csv |-> f.options,
   accepted_extensions_csv |-> f.accepted_extensions, max_size_mb |-> f.max_size_mb,
   max_chars |-> f.max_chars, source |-> f.source]

\* POST of the editor.  The rows of existing fields come as the page showed them,
\* changed, or marked for deletion; rows without an id get a new one.
SaveTipo ==
  \E kept \in SUBSET DOMAIN campos, fresh \in SUBSET (FieldIds \ used) :
    \E rows \in [kept \cup fresh -> EditorRows \cup {Initial(campos[i]) : i \in kept}] :
      /\ edits < MaxEdits /\ edits' = edits + 1
      /\ Cardinality(kept \cup fresh) <= MAX_FIELDS_PER_TIPO
      /\ \A i \in DOMAIN rows : RowAccepted(rows[i]) /\ SchemaAccepts(Collected(rows[i]))
      /\ campos' = [i \in DOMAIN rows |-> Collected(rows[i])]
      /\ used' = used \cup fresh
      /\ UNCHANGED <<local, perfil>>

-----------------------------------------------------------------------------
(* The dynamic form: build_django_form and its fields.                     *)

AutoFill(f) == f.source # "USER_INPUT"

Length(s) == IF s = Largo THEN 300 ELSE 5
Limit(f) == CASE f.max_chars # Blanco      -> f.max_chars
              [] f.field_type = "TEXT"     -> 200
              [] f.field_type = "TEXTAREA" -> 2000

\* What reaches a field: request.FILES for a FILE, request.POST for the others.
Reaches(f, x) == IF (f.field_type = "FILE") = (x \in Archivos) THEN x ELSE Blanco

Allows(f, x) == \E k \in DOMAIN f.accepted_extensions : Lower(f.accepted_extensions[k]) = Lower(x.ext)

\* make_extension_validator and make_size_validator.
FileAccepted(f, x) == Allows(f, x) /\ x.mb <= f.max_size_mb

\* The check of each type's form field.
TypeAccepts(f, v) ==
  CASE Textual(f.field_type)   -> Length(v) <= Limit(f)
    [] f.field_type = "NUMBER" -> v = Numero
    [] f.field_type = "DATE"   -> v = Fecha
    [] f.field_type = "SELECT" -> \E k \in DOMAIN f.options : f.options[k] = v
    [] f.field_type = "FILE"   -> FileAccepted(f, v)

\* Field.clean: required first, and an empty optional input is not checked.
InputAccepted(f, x) ==
  LET v == Reaches(f, x) IN IF v = Blanco THEN ~f.required ELSE TypeAccepts(f, v)

\* build_django_form leaves out the auto-fill fields.
Asked(s) == {i \in DOMAIN s : ~AutoFill(s[i])}

\* to_values_dict: None is left out, "" is kept.
ValuesDict(s, post) ==
  [i \in {j \in Asked(s) : \/ Reaches(s[j], post[j]) # Blanco
                           \/ Textual(s[j].field_type) \/ s[j].field_type = "SELECT"}
     |-> Reaches(s[i], post[i])]

\* _extract, of the row hydrate_from_siga returns.
Extract(source) ==
  IF source \in DOMAIN SourceAttr THEN perfil[Yo][SourceAttr[source]] ELSE Cuenta

\* resolve refuses when a required auto-fill field comes back empty.
Lacks(s) == \E i \in DOMAIN s : AutoFill(s[i]) /\ s[i].required /\ Extract(s[i].source) = Vacio

\* Mutant: an empty value is shown as a dash and not counted.
OnlyShows(s) == FALSE

\* preview: has_missing_required.
Previewed(s) == Lacks(s)

\* POST: the form is built from the fields as they are now and validated.  The
\* client may send anything under any id, whatever its page showed.
Post(r) ==
  /\ pc[r] = "idle"
  /\ \E post \in [used -> {Largo, Numero, Fecha, Blanco} \cup Options \cup Archivos] :
       IF \A i \in Asked(campos) : InputAccepted(campos[i], post[i])
       THEN /\ missing' = [missing EXCEPT ![r] = Previewed(campos)]
            /\ asked' = [asked EXCEPT ![r] = campos]
            /\ valores' = [valores EXCEPT ![r] = ValuesDict(campos, post)]
            /\ files' = [files EXCEPT ![r] = [i \in {j \in used : post[j] \in Archivos} |-> post[i]]]
            /\ pc' = [pc EXCEPT ![r] = "valid"]
       ELSE /\ pc' = [pc EXCEPT ![r] = "invalid"]
            /\ UNCHANGED <<missing, asked, valores, files>>
  /\ UNCHANGED <<admin, snapshot, stored, perfil>>

-----------------------------------------------------------------------------
(* create: the snapshot of the row, the resolver, the files.               *)

TakeSnapshot(r) ==
  /\ pc[r] = "valid"
  /\ snapshot' = [snapshot EXCEPT ![r] = campos]
  /\ pc' = [pc EXCEPT ![r] = "read"]
  /\ UNCHANGED <<admin, missing, asked, files, valores, stored, perfil>>

\* Mutant: what the client sent wins over the profile.
ClientFirst(typed, auto) ==
  [i \in DOMAIN typed \cup DOMAIN auto |-> IF i \in DOMAIN typed THEN typed[i] ELSE auto[i]]

\* {**valores, **auto_values}.
MergeValores(typed, auto) ==
  [i \in DOMAIN typed \cup DOMAIN auto |-> IF i \in DOMAIN auto THEN auto[i] ELSE typed[i]]

\* resolve: empty optional values are dropped, empty required ones refuse it.
Resolve(r) ==
  LET s    == snapshot[r]
      have == {i \in DOMAIN s : AutoFill(s[i]) /\ Extract(s[i].source) # Vacio}
  IN
  /\ pc[r] = "read"
  /\ IF Lacks(s)
     THEN pc' = [pc EXCEPT ![r] = "incomplete"] /\ UNCHANGED valores
     ELSE /\ pc' = [pc EXCEPT ![r] = "resolved"]
          /\ valores' = [valores EXCEPT ![r] =
                           MergeValores(@, [i \in have |-> Extract(s[i].source)])]
  /\ UNCHANGED <<admin, missing, asked, files, snapshot, stored, perfil>>

\* Mutant: only the field's own limit.
StoreFieldCap(f, x) == (f.accepted_extensions = <<>> \/ Allows(f, x)) /\ x.mb <= f.max_size_mb

\* _validate_upload: an empty list allows any extension; the smaller cap wins.
StoreAccepts(f, x) ==
  /\ f.accepted_extensions = <<>> \/ Allows(f, x)
  /\ x.mb <= f.max_size_mb /\ x.mb <= GLOBAL_MAX_MB

\* Every file of the request is stored, or the whole filing is rolled back.
StoreFiles(r) ==
  /\ pc[r] = "resolved"
  /\ IF \A i \in DOMAIN files[r] :
          i \in DOMAIN snapshot[r] /\ StoreAccepts(snapshot[r][i], files[r][i])
     THEN pc' = [pc EXCEPT ![r] = "filed"] /\ stored' = [stored EXCEPT ![r] = files[r]]
     ELSE pc' = [pc EXCEPT ![r] = "refused"] /\ UNCHANGED stored
  /\ UNCHANGED <<admin, missing, asked, files, valores, snapshot, perfil>>

Next ==
  \/ SaveTipo
  \/ \E r \in Requests : Post(r) \/ TakeSnapshot(r) \/ Resolve(r) \/ StoreFiles(r)
  \/ Learn(Yo) /\ UNCHANGED <<admin, local>>

Spec == Init /\ [][Next]_vars

-----------------------------------------------------------------------------
(* Properties.                                                             *)

TypeOK ==
  /\ used \subseteq FieldIds /\ edits \in 0..MaxEdits
  /\ DOMAIN campos \subseteq used
  /\ \A i \in DOMAIN campos : campos[i] \in Field
  /\ pc \in [Requests -> {"idle"} \cup Running \cup Ended]
  /\ \A r \in Requests : DOMAIN valores[r] \cup DOMAIN files[r] \cup DOMAIN stored[r] \subseteq used

\* Whatever an administrator has saved, stale hidden inputs included, opening its
\* edit page and saving it untouched is accepted and changes no field.
EditPageKeepsTheTipo ==
  \A i \in DOMAIN campos :
    /\ RowAccepted(Initial(campos[i]))
    /\ Collected(Initial(campos[i])) = campos[i]

\* Each value is the profile's, or was typed into a field that was asked for.
Explained(r) ==
  \A i \in DOMAIN valores[r] :
    LET v == valores[r][i]
        auto == i \in DOMAIN snapshot[r] /\ AutoFill(snapshot[r][i])
    IN \/ auto /\ v \in Valores \cup {Cuenta}
       \/ /\ i \in DOMAIN asked[r] /\ ~AutoFill(asked[r][i]) /\ InputAccepted(asked[r][i], v)
          /\ auto => ~snapshot[r][i].required /\ asked[r] # snapshot[r]

\* A value of a filed solicitud is the profile's, under an auto-fill field of its
\* snapshot, or was typed into a field that was asked for; under an auto-fill
\* field of the snapshot something typed is left only where an edit came between
\* the form and the row, and the row does not require it.
ValoresAreExplained == \A r \in Requests : pc[r] = "filed" => Explained(r)

\* There is a value for field i of the form s where it is required, and the file
\* under i is the one the value names, of an extension the field allows.
Complete(s, i, values, held) ==
  /\ s[i].required => i \in DOMAIN values /\ values[i] # Blanco
  /\ s[i].field_type = "FILE" =>
       /\ i \in DOMAIN held <=> i \in DOMAIN values
       /\ i \in DOMAIN held => held[i] = values[i] /\ Allows(s[i], held[i])

\* Filed with no edit in between, a solicitud holds a value for every field its own
\* snapshot requires, and its files are those its values name, within the limits
\* of the field and the 10 MB of the store.
OneFormIsComplete ==
  \A r \in Requests : pc[r] = "filed" /\ asked[r] = snapshot[r] =>
    \A i \in DOMAIN snapshot[r] :
      /\ Complete(snapshot[r], i, valores[r], stored[r])
      /\ i \in DOMAIN stored[r] => stored[r][i].mb <= GLOBAL_MAX_MB

\* A filing is refused for a missing profile value only if its own preview said
\* so, or the fields changed after it: what preview found, resolve finds again.
RefusalWasAnnounced ==
  \A r \in Requests : pc[r] = "incomplete" => missing[r] \/ asked[r] # snapshot[r]

(***************************************************************************)
(* The inductive strengthening.                                            *)
(***************************************************************************)
Fits(s) ==
  \A i \in DOMAIN s :
    /\ s[i].field_type \in AllowedTypes(s[i].source)
    /\ s[i].source \in DOMAIN SourceAttr => SourceAttr[s[i].source] \in Campos

\* What the form of the POST has established, until the resolver runs.
Validated(r) ==
  pc[r] \in {"valid", "read"} =>
    /\ Fits(asked[r])
    /\ Lacks(asked[r]) => missing[r]
    /\ \A i \in DOMAIN valores[r] : i \in Asked(asked[r]) /\ InputAccepted(asked[r][i], valores[r][i])
    /\ \A i \in Asked(asked[r]) : Complete(asked[r], i, valores[r], files[r])

\* What the resolver has added to it.
Resolved(r) ==
  pc[r] \in {"resolved", "filed"} =>
    /\ Explained(r)
    /\ asked[r] = snapshot[r] => \A i \in DOMAIN snapshot[r] : Complete(snapshot[r], i, valores[r], files[r])

Stored(r) ==
  pc[r] = "filed" =>
    /\ stored[r] = files[r]
    /\ \A i \in DOMAIN stored[r] : stored[r][i].mb <= GLOBAL_MAX_MB

IsLocal(f) == f = [r \in Requests |-> f[r]]

IInv ==
  /\ perfil \in [Matriculas -> Perfiles]
  /\ DOMAIN campos \subseteq used /\ Fits(campos)
  /\ IsLocal(pc) /\ IsLocal(missing) /\ IsLocal(asked) /\ IsLocal(files)
  /\ IsLocal(valores) /\ IsLocal(snapshot) /\ IsLocal(stored)
  /\ \A r \in Requests : /\ pc[r] = "read" => Fits(snapshot[r])
                         /\ Validated(r) /\ Resolved(r) /\ Stored(r)
  /\ RefusalWasAnnounced
=============================================================================
