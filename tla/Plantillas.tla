----------------------------- MODULE Plantillas -----------------------------
(***************************************************************************)
(* The PDF templates, the images they embed, and the renders that read     *)
(* both.  An image is a row and a file that no transaction ties together:  *)
(* an upload writes the file and then inserts the row, a deletion reads    *)
(* the row, removes the file and then removes the row, and a render lists  *)
(* the rows and then opens the files.  A name that was freed is used again.*)
(***************************************************************************)
EXTENDS Integers, Sequences, FiniteSets

CONSTANTS
  Requests,
  Ids,         \* PlantillaSolicitud rows
  Old,         \* images uploaded before
  Slugs,       \* slugs that fit their column of 64
  LargeSlug,   \* a slug that does not
  NoSlug,      \* what slugify leaves of a name without letters or digits
  Paths,       \* names under MEDIA_ROOT/plantilla_assets
  Htmls, Csss, \* contents of templates
  Malformed,   \* Htmls that do not parse
  RaisesOn,    \* <<html, f>>: html parses, and raises where its context has f
  Syntactic,   \* Htmls that raise a TemplateSyntaxError then: widthratio, extends, include
  Campos,      \* the fields of the solicitud that is rendered: what their labels
               \* slugify to and what was answered, None for nothing
  OldRow,      \* their rows: a function of Old; their files are there
  OldPlantilla, \* the plantillas as they are at first: a function of Ids
  Jobs,        \* what requests may be sent for
  None

\* PlantillaAsset ids: that of an upload is its request.  Each stands for the bytes
\* uploaded for it too.
Images == Requests \cup Old

ASSUME PlantillasAssumption ==
  /\ Requests \cap Old = {}
  /\ \A a, b \in Old : OldRow[a].path = OldRow[b].path => a = b
  /\ \A a, b \in Old : OldRow[a].slug = OldRow[b].slug /\ OldRow[a].scope = OldRow[b].scope => a = b
  /\ None \notin Ids \cup Images \cup Paths
  /\ NoSlug \notin Slugs /\ LargeSlug \notin Slugs

Global == "global"
Scopes == Ids \cup {Global}

VARIABLES
  plantillas, \* plantillas[p]: the row, or None
  usa,        \* TipoSolicitud.plantilla of the tipo of the solicitud that is rendered
  images,     \* images[i]: the PlantillaAsset row, or None
  disk,       \* disk[f]: the image whose bytes the file holds, or None
  borrador,   \* session["plantilla_draft"] of the administrator
  pc,
  job,        \* job[r]: what the request was sent for
  row,        \* row[r]: the row of an image that delete has read
  doc,        \* doc[r]: the template a render has read
  page,       \* page[r]: the edit page of the tipo, in the browser that will post it
  listed,     \* listed[r]: what list_for_render answered: the rows by slug
  embedded    \* embedded[r]: the data: URIs so far, None for an empty one

tables == <<plantillas, usa>>
files  == <<images, disk>>
local  == <<job, row, doc, page, listed, embedded>>
vars   == <<tables, files, borrador, pc, local>>

Form  == [html : Htmls, css : Csss, activo : BOOLEAN]
Image == [slug : Slugs, scope : Scopes, path : Paths]
Draft == [html : Htmls, css : Csss, de : Ids \cup {None}]

\* The image as the upload form sees it: accepted, accepted but refused by Pillow,
\* or refused for its size, extension or type.
Uploads == [op : {"upload"}, scope : Scopes,
            slug : Slugs \cup {LargeSlug, NoSlug}, file : {"image", "renamed", "refused"}]
Deletes == [op : {"delete"}, id : Images]
Edits   == [op : {"create"}, form : Form] \cup [op : {"save"}, id : Ids, form : Form]
             \cup [op : {"off"}, id : Ids] \cup [op : {"tipo"}]
Renders == [op : {"solicitud"}, role : {"ALUMNO", "CONTROL_ESCOLAR", "RESPONSABLE_PROGRAMA", "ADMIN"}]
             \cup [op : {"sample"}, id : Ids]
             \cup [op : {"preview"}, draft : Draft, persist : BOOLEAN]
             \cup [op : {"draft"}]

\* What is there at first was accepted once, by the same forms and validators.
ASSUME OldAssumption ==
  /\ OldRow \in [Old -> Image] /\ None \notin [slug : Slugs \cup {LargeSlug}, scope : Scopes, path : Paths]
  /\ OldPlantilla \in [Ids -> Form \cup {None}] /\ None \notin Form
  /\ \A p \in Ids : OldPlantilla[p] # None => OldPlantilla[p].html \notin Malformed

ASSUME JobsAssumption == Jobs \subseteq Uploads \cup Deletes \cup Edits \cup Renders /\ None \notin Jobs

\* What the context of a render has: something in any case, the values of a
\* solicitud or none, a person and a solicitud or placeholders, an image or none.
Features == {"always", "values", "no values", "person", "placeholder", "image", "no image"}

ASSUME HtmlsAssumption == Malformed \cup Syntactic \subseteq Htmls /\ RaisesOn \subseteq Htmls \X Features

Running == {"saving", "form", "page", "saved", "deleting", "read", "unlinked",
            "rendering", "listing", "embedding"}
Ended   == {"ok", "invalid", "duplicate", "error", "notfound", "unauthorized", "banner", "dead"}

NoImages == [s \in {} |-> None]

Init ==
  /\ plantillas = OldPlantilla
  /\ usa \in {None} \cup {p \in Ids : plantillas[p] # None}
  /\ borrador = None
  /\ images = [i \in Images |-> IF i \in Old THEN OldRow[i] ELSE None]
  /\ disk \in [Paths -> Old \cup {None}]
  /\ \A f \in Paths : IF disk[f] = None THEN \A i \in Old : OldRow[i].path # f
                                         ELSE OldRow[disk[f]].path = f
  /\ pc = [r \in Requests |-> "idle"]
  /\ job = [r \in Requests |-> None]
  /\ row = [r \in Requests |-> None]
  /\ doc = [r \in Requests |-> None]
  /\ page = [r \in Requests |-> None]
  /\ listed = [r \in Requests |-> NoImages]
  /\ embedded = [r \in Requests |-> NoImages]

Goto(r, l) == pc' = [pc EXCEPT ![r] = l]

Entry(op) == CASE op = "upload" -> "saving" [] op = "delete" -> "deleting"
               [] op \in {"create", "save", "off"} -> "form" [] op = "tipo" -> "page"
               [] OTHER -> "rendering"

\* _plantilla_choices, with "Sin plantilla".
Choices == {None} \cup {p \in Ids : plantillas[p] # None /\ plantillas[p].activo}

\* A request comes in.  One for a tipo is the GET of its edit page: the select shows
\* its first option where the plantilla in use is not among them.
Arrive(r) ==
  /\ pc[r] = "idle"
  /\ \E j \in Jobs :
       /\ job' = [job EXCEPT ![r] = j]
       /\ page' = [page EXCEPT ![r] =
            IF j.op # "tipo" THEN None
            ELSE [had |-> usa, select |-> IF usa \in Choices THEN usa ELSE None, touched |-> FALSE]]
       /\ Goto(r, Entry(j.op))
  /\ UNCHANGED <<tables, files, borrador, row, doc, listed, embedded>>

-----------------------------------------------------------------------------
(* The catalogue of plantillas, and the tipo that uses one.                *)

\* Mutant: the template is not tried.
AnyTemplate(html) == TRUE

\* _validate_template.
Parses(html) == html \notin Malformed

\* Every column comes from the form.
Write(r, p) ==
  IF Parses(job[r].form.html)
  THEN Goto(r, "ok") /\ plantillas' = [plantillas EXCEPT ![p] = job[r].form]
  ELSE Goto(r, "invalid") /\ UNCHANGED plantillas

CreatePlantilla(r) ==
  /\ pc[r] = "form" /\ job[r].op = "create"
  /\ \E p \in Ids : plantillas[p] = None /\ Write(r, p)
  /\ UNCHANGED <<usa, files, borrador, local>>

UpdatePlantilla(r) ==
  /\ pc[r] = "form" /\ job[r].op = "save"
  /\ IF plantillas[job[r].id] # None
     THEN Write(r, job[r].id)
     ELSE Goto(r, "notfound") /\ UNCHANGED plantillas
  /\ UNCHANGED <<usa, files, borrador, local>>

\* deactivate: one UPDATE of one column.
DeactivatePlantilla(r) ==
  /\ pc[r] = "form" /\ job[r].op = "off"
  /\ IF plantillas[job[r].id] # None
     THEN Goto(r, "ok") /\ plantillas' = [plantillas EXCEPT ![job[r].id].activo = FALSE]
     ELSE Goto(r, "notfound") /\ UNCHANGED plantillas
  /\ UNCHANGED <<usa, files, borrador, local>>

ChoosePlantilla(r) ==
  /\ pc[r] = "page" /\ ~page[r].touched
  /\ \E p \in Choices : page' = [page EXCEPT ![r].select = p, ![r].touched = TRUE]
  /\ UNCHANGED <<tables, files, borrador, pc, job, row, doc, listed, embedded>>

\* POST of the page: the options are read again, and the tipo takes the one selected.
SaveTipo(r) ==
  /\ pc[r] = "page"
  /\ IF page[r].select \in Choices
     THEN usa' = page[r].select /\ Goto(r, "ok")
     ELSE Goto(r, "invalid") /\ UNCHANGED usa
  /\ UNCHANGED <<plantillas, files, borrador, local>>

-----------------------------------------------------------------------------
(* Requests on images.                                                     *)

\* AssetUploadForm: size, extension and type as the browser declares them.
FormAccepts(j) == j.file # "refused"

\* DefaultAssetService: the checks again, Pillow, and a slug.
ServiceAccepts(j) == j.file = "image" /\ j.slug # NoSlug

\* Mutant: the name is used as it comes.
AnyName(f) == TRUE

\* get_available_name, then O_EXCL.
FreeName(f) == disk[f] = None

\* imagen.save, and the row it is for.
SaveFile(r) ==
  /\ pc[r] = "saving"
  /\ IF FormAccepts(job[r]) /\ ServiceAccepts(job[r])
     THEN /\ \E f \in Paths : /\ FreeName(f)
                              /\ disk' = [disk EXCEPT ![f] = r]
                              /\ row' = [row EXCEPT ![r] = [slug |-> job[r].slug,
                                           scope |-> job[r].scope, path |-> f]]
          /\ Goto(r, "saved")
     ELSE Goto(r, "invalid") /\ UNCHANGED <<disk, row>>
  /\ UNCHANGED <<tables, images, borrador, job, doc, page, listed, embedded>>

\* unique_global_asset_slug and unique_plantilla_asset_slug.
Duplicate(new) ==
  \E i \in Images : images[i] # None /\ images[i].slug = new.slug /\ images[i].scope = new.scope

\* A plantilla that is not there, or a slug longer than its column.
Violates(new) == \/ new.slug = LargeSlug
                 \/ new.scope # Global /\ plantillas[new.scope] = None

\* row.save(): the file stays on the disk whatever the database answers.
InsertRow(r) ==
  /\ pc[r] = "saved"
  /\ IF Violates(row[r]) \/ Duplicate(row[r])
     THEN /\ Goto(r, IF Violates(row[r]) THEN "error" ELSE "duplicate")
          /\ UNCHANGED images
     ELSE /\ images' = [images EXCEPT ![r] = row[r]]
          /\ Goto(r, "ok")
  /\ UNCHANGED <<tables, disk, borrador, local>>

\* delete: objects.get.
ReadRow(r) ==
  /\ pc[r] = "deleting"
  /\ row' = [row EXCEPT ![r] = images[job[r].id]]
  /\ Goto(r, IF images[job[r].id] = None THEN "notfound" ELSE "read")
  /\ UNCHANGED <<tables, files, borrador, job, doc, page, listed, embedded>>

\* Mutant: the file is left.
LeaveFile(r) == pc[r] = "read" /\ Goto(r, "unlinked") /\ UNCHANGED <<tables, files, borrador, local>>

\* imagen.delete(): by name, whoever the file belongs to; none is no error.
Unlink(r) ==
  /\ pc[r] = "read"
  /\ disk' = [disk EXCEPT ![row[r].path] = None]
  /\ Goto(r, "unlinked")
  /\ UNCHANGED <<tables, images, borrador, local>>

DeleteRow(r) ==
  /\ pc[r] = "unlinked"
  /\ images' = [images EXCEPT ![job[r].id] = None]
  /\ Goto(r, "ok")
  /\ UNCHANGED <<tables, disk, borrador, local>>

-----------------------------------------------------------------------------
(* Renders.                                                                *)

\* What a render is of: the tipo's plantilla, one by its id, the draft it was sent
\* or the draft of the session; with the plantilla whose images it may use.
Source(r) ==
  LET j == job[r]
      Stored(p) == IF p = None \/ plantillas[p] = None THEN None
                   ELSE [html |-> plantillas[p].html, css |-> plantillas[p].css, de |-> p]
  IN CASE j.op = "solicitud" -> Stored(usa)
       [] j.op = "sample"    -> Stored(j.id)
       [] j.op = "preview"   -> j.draft
       [] j.op = "draft"     -> borrador

\* _authorise: personal and administrators.
Authorised(j) == j.op = "solicitud" => j.role # "ALUMNO"

\* "notfound": no such plantilla, a tipo without one, or no draft in the session.
ReadTemplate(r) ==
  /\ pc[r] = "rendering"
  /\ doc' = [doc EXCEPT ![r] = IF Authorised(job[r]) THEN Source(r) ELSE None]
  /\ Goto(r, IF ~Authorised(job[r]) THEN "unauthorized"
             ELSE IF Source(r) = None THEN "notfound" ELSE "listing")
  /\ UNCHANGED <<tables, files, borrador, job, row, page, listed, embedded>>

\* list_for_render: an image of the plantilla hides the global one of its slug.
Winner(p, s) == CHOOSE i \in Images :
  /\ images[i] # None /\ images[i].slug = s /\ images[i].scope \in {Global, p}
  /\ \A k \in Images \ {i} : images[k] # None /\ images[k].slug = s => images[k].scope # p

ListImages(r) ==
  LET p == doc[r].de
      slugs == {images[i].slug : i \in {k \in Images : images[k] # None
                                                       /\ images[k].scope \in {Global, p}}}
  IN
  /\ pc[r] = "listing"
  /\ listed' = [listed EXCEPT ![r] = [s \in slugs |-> [id |-> Winner(p, s),
                                                       path |-> images[Winner(p, s)].path]]]
  /\ Goto(r, "embedding")
  /\ UNCHANGED <<tables, files, borrador, job, row, doc, page, embedded>>

\* asset_to_data_uri: a file that is not there gives an empty src.
OpenFile(r, s) ==
  /\ pc[r] = "embedding"
  /\ s \in DOMAIN listed[r] \ DOMAIN embedded[r]
  /\ embedded' = [embedded EXCEPT ![r] = [t \in DOMAIN @ \cup {s} |->
                    IF t = s THEN disk[listed[r][s].path] ELSE @[t]]]
  /\ UNCHANGED <<tables, files, borrador, pc, job, row, doc, page, listed>>

\* build_render_context: of the fields whose labels slugify alike the last one counts.
Valores ==
  [s \in {Campos[i].slug : i \in DOMAIN Campos} |->
     Campos[CHOOSE i \in DOMAIN Campos :
       Campos[i].slug = s /\ \A k \in DOMAIN Campos : Campos[k].slug = s => k <= i].raw]

\* The images the render has at hand.
Pictures(r) == IF \E s \in DOMAIN embedded[r] : embedded[r][s] # None THEN {"image"} ELSE {"no image"}

\* build_synthetic_context: placeholders, and no values.
Synthetic == {"always", "no values", "placeholder"}

Context(r) ==
  Pictures(r) \cup
    IF job[r].op # "solicitud" THEN Synthetic
    ELSE {"always", "person",
          IF \E s \in DOMAIN Valores : Valores[s] # None THEN "values" ELSE "no values"}

Raises(html, context) == \E f \in context : <<html, f>> \in RaisesOn

\* The template is compiled and rendered in one go.
Fails(r) == doc[r].html \in Malformed \/ Raises(doc[r].html, Context(r))

\* The list is complete, and so are the files.
Ready(r) == pc[r] = "embedding" /\ DOMAIN embedded[r] = DOMAIN listed[r]

\* render_for_solicitud and render_sample: "invalid" for a syntax error, of the
\* template or of its rendering, an error page for what raises anything else.
RenderStored(r) ==
  /\ Ready(r) /\ job[r].op \in {"solicitud", "sample"}
  /\ Goto(r, IF ~Fails(r) THEN "ok"
             ELSE IF doc[r].html \in Malformed \cup Syntactic THEN "invalid" ELSE "error")
  /\ UNCHANGED <<tables, files, borrador, local>>

\* Whatever fails, a 200 with a banner for the iframe, and no draft; what renders
\* may go to the session.
RenderPreview(r) ==
  /\ Ready(r) /\ job[r].op = "preview"
  /\ borrador' = IF job[r].persist /\ ~Fails(r) THEN doc[r] ELSE borrador
  /\ Goto(r, IF Fails(r) THEN "banner" ELSE "ok")
  /\ UNCHANGED <<tables, files, local>>

\* Whatever fails is a validation error.
RenderDraft(r) ==
  /\ Ready(r) /\ job[r].op = "draft"
  /\ Goto(r, IF Fails(r) THEN "invalid" ELSE "ok")
  /\ UNCHANGED <<tables, files, borrador, local>>

\* The worker is killed, or the database fails.
Die(r) == pc[r] \in Running /\ Goto(r, "dead") /\ UNCHANGED <<tables, files, borrador, local>>

Step(r) ==
  \/ CreatePlantilla(r) \/ UpdatePlantilla(r) \/ DeactivatePlantilla(r) \/ ChoosePlantilla(r) \/ SaveTipo(r)
  \/ SaveFile(r) \/ InsertRow(r) \/ ReadRow(r) \/ Unlink(r) \/ DeleteRow(r)
  \/ ReadTemplate(r) \/ ListImages(r) \/ \E s \in Slugs : OpenFile(r, s)
  \/ RenderStored(r) \/ RenderPreview(r) \/ RenderDraft(r)

Next == \E r \in Requests : Arrive(r) \/ Step(r) \/ Die(r)

Spec == Init /\ [][Next]_vars

-----------------------------------------------------------------------------
(* Properties.                                                             *)

IsLocal(f) == f = [r \in Requests |-> f[r]]

TypeOK ==
  /\ plantillas \in [Ids -> Form \cup {None}]
  /\ images \in [Images -> Image \cup {None}]
  /\ disk \in [Paths -> Images \cup {None}]
  /\ pc \in [Requests -> {"idle"} \cup Running \cup Ended]
  /\ job \in [Requests -> Jobs \cup {None}]
  /\ row \in [Requests -> [slug : Slugs \cup {LargeSlug}, scope : Scopes, path : Paths] \cup {None}]
  /\ IsLocal(doc) /\ IsLocal(page) /\ IsLocal(listed) /\ IsLocal(embedded)

\* A deletion of i that has read its row.
Removes(q, i) == job[q] # None /\ job[q].op = "delete" /\ job[q].id = i /\ row[q] # None

\* The file of a row is its own, unless a deletion of that image is on its way or
\* was cut short, or two deletions of one image met and the second removed what
\* had taken the name since: a single deletion never costs another image its file.
MissingFilesAreExplained ==
  \A i \in Images : images[i] # None /\ disk[images[i].path] # i =>
    \/ \E q \in Requests : Removes(q, i) /\ pc[q] \in {"unlinked", "dead"}
    \/ \E k \in Images \ {i} : \E q1, q2 \in Requests :
         /\ q1 # q2 /\ Removes(q1, k) /\ Removes(q2, k)
         /\ row[q1].path = images[i].path /\ row[q2].path = images[i].path

\* A file without a row is that of an upload that is on its way, was refused by the
\* database or was cut short: no deletion leaves one behind.
LeftoversAreExplained ==
  \A f \in Paths : disk[f] # None /\ images[disk[f]] = None =>
    disk[f] \in Requests /\ pc[disk[f]] \in {"saved", "duplicate", "error", "dead"}

\* Rows and files go apart for these reasons only.
FilesAreExplained == MissingFilesAreExplained /\ LeftoversAreExplained

\* Under each slug a render embeds the bytes of the image it listed; it embeds
\* nothing, or an image that took the name, only where a deletion has read a row
\* with that name.
RendersShowWhatTheyListed ==
  \A r \in Requests : \A s \in DOMAIN embedded[r] :
    \/ embedded[r][s] = listed[r][s].id
    \/ \E q \in Requests, k \in Images : Removes(q, k) /\ row[q].path = listed[r][s].path

\* r was sent for one of these and ended in one of these ways.
Printed(r, ops, ends) == pc[r] \in ends /\ job[r] # None /\ job[r].op \in ops

\* No PDF fails on a template that does not parse, and no failure of a PDF is one
\* that the editor could have shown: what fails as the PDF of a draft does so for
\* the images of that render, and what fails for a solicitud although some
\* preview, sample or PDF of a draft of the same template succeeded does so for
\* the images, the values or the person.
RenderErrorsComeOfTheData ==
  \A r \in Requests : Printed(r, {"solicitud", "sample", "draft"}, {"invalid", "error"}) =>
    /\ doc[r].html \notin Malformed
    /\ \/ Raises(doc[r].html, Context(r) \ Synthetic)
       \/ job[r].op # "draft" /\ \A q \in Requests : Printed(q, {"sample", "preview", "draft"}, {"ok"}) =>
                                                       doc[q].html # doc[r].html

(***************************************************************************)
(* The inductive strengthening.                                            *)
(***************************************************************************)
\* What a request is doing fits what it was sent for.
JobsFit ==
  \A r \in Requests :
    /\ pc[r] # "idle" => job[r] # None
    /\ pc[r] \in {"saving", "saved"} => job[r].op = "upload"
    /\ pc[r] \in {"deleting", "read", "unlinked"} => job[r].op = "delete"
    /\ pc[r] = "page" => job[r].op = "tipo"
    /\ pc[r] \in {"idle", "saving", "deleting"} => row[r] = None
    /\ pc[r] \in {"saved", "read", "unlinked"} => row[r] # None

\* No image is listed or deleted before its upload has ended well.
Uploaded(i) == i \in Requests => pc[i] = "ok"

RowsAreUploaded ==
  /\ \A i \in Images : images[i] # None => Uploaded(i)
  /\ \A q \in Requests, i \in Images : Removes(q, i) =>
       /\ Uploaded(i)
       /\ images[i] # None => row[q] = images[i]
  /\ \A i, k \in Images : images[i] # None /\ images[k] # None /\ images[i].slug = images[k].slug
                              /\ images[i].scope = images[k].scope => i = k

\* A file holds what its row says, and an upload has one file.
FilesFit ==
  \A f \in Paths : disk[f] # None =>
    /\ images[disk[f]] # None => images[disk[f]].path = f
    /\ disk[f] \in Requests => /\ pc[disk[f]] \notin {"idle", "saving"}
                              /\ row[disk[f]] # None /\ row[disk[f]].path = f

UnlinkedIsGone ==
  \A q \in Requests : pc[q] = "unlinked" => disk[row[q].path] # job[q].id

\* Two deletions of k met at f, whose bytes are not those of k any more.
Doubled(k, f) ==
  /\ disk[f] # k
  /\ \E q1, q2 \in Requests :
       q1 # q2 /\ Removes(q1, k) /\ Removes(q2, k) /\ row[q1].path = f /\ row[q2].path = f

\* f is the name of i, in a row or on the way to one.
Named(i, f) ==
  \/ images[i] # None /\ images[i].path = f
  \/ i \in Requests /\ pc[i] = "saved" /\ row[i].path = f

LossesAreExplained ==
  \A i \in Images, f \in Paths : Named(i, f) /\ disk[f] # i =>
    \/ \E q \in Requests : Removes(q, i) /\ pc[q] \in {"unlinked", "dead"}
    \/ \E k \in Images \ {i} : Doubled(k, f)

\* A deletion that is about to unlink a file that is not its image's any more was
\* preceded by another deletion of that image, or of one that had the name before.
ReadersWereFirst ==
  \A r \in Requests : pc[r] = "read" /\ disk[row[r].path] # job[r].id =>
    \/ \E q \in Requests : Removes(q, job[r].id) /\ pc[q] # "read" /\ row[q].path = row[r].path
    \/ \E k \in Images \ {job[r].id} : Doubled(k, row[r].path)

FileInv == /\ JobsFit /\ RowsAreUploaded /\ FilesFit /\ UnlinkedIsGone /\ LossesAreExplained
           /\ ReadersWereFirst /\ LeftoversAreExplained

\* What a render listed is there, or a deletion has read a row with its name.
ListedAreThere ==
  \A r \in Requests : \A s \in DOMAIN listed[r] :
    /\ listed[r][s].id \in Images /\ listed[r][s].path \in Paths
    /\ \/ disk[listed[r][s].path] = listed[r][s].id
       \/ \E q \in Requests, k \in Images : Removes(q, k) /\ row[q].path = listed[r][s].path

RenderInv ==
  /\ ListedAreThere /\ RendersShowWhatTheyListed
  /\ \A r \in Requests :
       /\ DOMAIN embedded[r] \subseteq DOMAIN listed[r]
       /\ pc[r] \notin {"embedding"} \cup Ended => DOMAIN embedded[r] = {}

\* The template renders on the synthetic context, images aside.
Plain(html) == html \notin Malformed /\ ~Raises(html, Synthetic)

\* Every template that is stored parses, and the draft of the session renders.
TemplateInv ==
  /\ usa \in Ids \cup {None}
  /\ \A p \in Ids : plantillas[p] # None => plantillas[p].html \notin Malformed
  /\ borrador # None => Plain(borrador.html)
  /\ \A r \in Requests : pc[r] \in {"listing", "embedding"} =>
       /\ job[r].op \in {"solicitud", "sample", "draft"} => doc[r].html \notin Malformed
       /\ job[r].op = "draft" => Plain(doc[r].html)
  /\ \A r \in Requests :
       /\ Printed(r, {"sample", "preview", "draft"}, {"ok"}) => Plain(doc[r].html)
       /\ Printed(r, {"solicitud", "sample", "draft"}, {"invalid", "error"}) =>
            /\ doc[r].html \notin Malformed /\ Raises(doc[r].html, Context(r))
            /\ job[r].op = "draft" => Plain(doc[r].html)

IInv == TypeOK /\ FileInv /\ RenderInv /\ TemplateInv
=============================================================================
