# Solicitudes: a verification development

Solicitudes is the Django application with which a faculty files and resolves
administrative requests. A person files a *solicitud* under a *tipo* of the
catalogue, with uploads and perhaps a proof of payment; staff take it, answer
it and close it. This directory holds TLA+ models of the parts of it where
concurrency, failures and ordering decide whether the data stay right, TLC
configurations that check them on small instances, and proofs, checked by
TLAPS, of the main invariants for instances of every size.

Paths below are relative to the repository; `lifecycle/…`, `intake/…`,
`archivos/…` and so on are under `src/app/solicitudes/`.

## 1. How the program runs

* One PostgreSQL database, READ COMMITTED, no `ATOMIC_REQUESTS`: a view is in a
  transaction only where the code says `transaction.atomic()`.
* gunicorn with sync workers (`src/docker-entrypoint.sh:20-25`): one request at
  a time per worker, several workers at once. A worker that takes more than 60 s
  gets a SIGABRT, which raises `SystemExit` in the request: `finally` clauses run,
  `except Exception` does not. A second later it gets a SIGKILL. There is no task
  queue and no retry: everything a request does, mails included, it does before it
  answers.
* Uploads go to the local disk, beside the database and outside its
  transactions.

So the actors are requests. They interact through rows, row locks, the disk and
a per-thread list of unfinished files, and each can die between two steps.

## 2. Inventory

| Component | State it keeps | Operations | Talks to | What makes it correct |
|---|---|---|---|---|
| **lifecycle** (`lifecycle/`) | `Solicitud.estado`; `HistorialEstado` rows; `FolioCounter` | `transition` (atender, finalizar, cancelar), `next_folio`, list and detail reads | notificaciones after its commit; called by revision and intake | estado and historial agree; no change is forged; folios have no gap |
| **revision** (`revision/`) | none | `take`, `finalize`, `cancel`, queue and detail | lifecycle | only personal of the responsible role, and admins, act |
| **intake** (`intake/`) | `Solicitud` rows with a snapshot of the tipo | form, `create`, cancel of one's own | tipos, lifecycle (folio), archivos, notificaciones, mentores, usuarios | the row, its first historial entry, its uploads and its folio exist together or not at all; payment proof matches the debt |
| **archivos** (`archivos/`) | `ArchivoSolicitud` rows; files and `.partial` files; the thread's pending list | `store_for_solicitud`, `save`, `cleanup_pending`, download | database transaction hooks | bytes are reachable only through a committed row; leftovers are swept or logged |
| **respuesta** (`respuesta/`) | `RespuestaSolicitud` rows and their files | `create_batch`, list, download | archivos storage, lifecycle rules | answers are added only while in process, by who may |
| **tipos** (`tipos/`) | `TipoSolicitud`, `FieldDefinition` | create, update (two-phase rewrite of the fields), deactivate, snapshot | read by all the above | one coherent set of fields per tipo; slugs and orders unique |
| **formularios** (`formularios/`, `tipos/forms/`) | none | the rows of the edit page, the form class built from a snapshot, its validators and the store's | tipos, intake, auto-fill | what was saved survives its edit page; a filing has what its tipo requires, and nothing nobody asked for |
| **notificaciones** (`src/app/notificaciones/`) | none | `notify_creation`, `notify_state_change` | SMTP relay | mails tell what is committed; a delivery error never undoes a change |
| **mentores** (`src/app/mentores/`) | `MentorPeriodo` rows | add or reactivate, deactivate (one, many, all), CSV import, `was_mentor_at` | intake asks `exists_active` | at most one open period per matrícula, periods do not overlap |
| **usuarios, SIGA** (`src/app/usuarios/`) | `User` rows: email and role, and a cached academic profile; the token of the provider | callback, middleware, role mixins, hydrate from SIGA, DEBUG login | external provider; SIGA over HTTP; every view | email and role are those of one token; the profile only learns; a request is judged by its own token |
| **auto-fill** (`intake/services/auto_fill_resolver/`) | none | `preview` of the form page, `resolve` of the filing | usuarios, formularios, intake | what the preview found is found again |
| **plantillas, assets, pdf** (`pdf/`, `plantilla_assets/`) | `PlantillaSolicitud` rows; `PlantillaAsset` rows and their files, outside any transaction; the draft of the editor in the session | create, edit, deactivate a plantilla; upload and delete an image; render a solicitud, a sample, a preview, a draft | tipos (which names a plantilla), lifecycle, the disk | an image's file is lost or left over only for a known reason; a render embeds the image it listed |
| **reportes and the lists** (`src/app/reportes/`, queue, *mis solicitudes*, details) | none | counters, pages, CSV and PDF export, details: sequences of queries, no transaction | read lifecycle and tipos | a row shown is one committed state; pages and figures differ only by what moved |
| **directory of users, seeders** | none | a read-only list; development data | usuarios | – |
| **_shared, config, templates, front end** | none | exceptions, pagination, settings | all | – |

The behaviours that are hard to test are listed, each at its line, under
`hazards` in `PROJECT.json`. The main ones:

* `transition` checks the estado on a row it read *before* its transaction and
  then writes unconditionally (`lifecycle_service/implementation.py:130,139`);
* the view of intake opens a transaction *around* `IntakeService.create`, so the
  inner `atomic()` is only a savepoint and what the service does "after" it is
  still inside (`intake/views/create.py:100`): mails leave before the COMMIT, and the
  folio counter of the year, and often the User row of the solicitante
  (`intake_service/implementation.py:107`), stay locked through mails and disk writes;
* a file is renamed to its final name by an `on_commit` callback, after the row
  is committed, and the list of what to clean belongs to the thread, not to the
  request (`archivos/storage/local.py`); the timeout of the server may fall between
  the COMMIT and the renames, and the `finally` that then runs sweeps what they are of;
* one POST reads the tipo four times while administrators edit it;
* an edit rewrites the fields of a tipo row by row, under a unique constraint on
  their order, from a page that may be older than the last edit
  (`tipos/repositories/tipo/implementation.py:117-179`);
* an answer is checked, stored and committed while the folio moves on
  (`respuesta_service/implementation.py:70`);
* the catalogue of mentores is kept right by an index and by row locks alone,
  and timestamps are taken before the waits;
* a login, or the page of a form, writes back the row of its person as it read it
  before a slow call to SIGA (`user_service/implementation.py:61`);
* the profile that fills a form is read by the preview and again by the filing,
  and SIGA may be down, partial or without the record at either time;
* sizes, extensions and required values are checked by the browser's page, the
  form and the store, each from a reading of the tipo of its own;
* an image is deleted by name, after its row was read and before it is deleted, and
  freed names are used again (`asset_service/implementation.py`);
* a page of figures, a list and its pages are several queries with no transaction
  around them (`report_service/implementation.py:49`).

## 3. Modules

| Module | Models | Extends |
|---|---|---|
| `LifecycleRules` | `lifecycle/constants.py`, `_authorize`, the permission mixins: pure tables and predicates | – |
| `Lifecycle` | requests that run `DefaultLifecycleService.transition` | `LifecycleRules` |
| `Ledger` | abstract specification: what the lifecycle promises its readers | – |
| `Historiales` | abstract specification: the tables as who only reads them sees them | `LifecycleRules` |
| `LifecycleClaims` | what docs and comments say of overlapping transitions and the code does not keep | `Lifecycle` |
| `LifecycleProofs` | theorems about `Lifecycle`, and that it implements `Ledger`, `Historiales` and `EstadoColumn` | `Lifecycle`, TLAPS |
| `LocalStorage` | `LocalFileStorage` and the thread's pending list, as state and steps for other modules to run | – |
| `Archivos` | abstract specification: what the storage promises whoever keeps files next to rows | – |
| `Intake` | requests that run `CreateSolicitudView.post` | `LocalStorage` |
| `IntakeClaims`, `IntakeProofs` | as above, and that `Intake` implements `Archivos` | `Intake` |
| `EstadoColumn` | the estado column as its other readers may assume it | `LifecycleRules` |
| `Respuesta` | requests that run `DefaultRespuestaService.create_batch`, its list and its downloads, next to an `EstadoColumn` | `LocalStorage`, `EstadoColumn` |
| `RespuestaClaims`, `RespuestaProofs` | as above, and that `Respuesta` implements `Archivos` | `Respuesta` |
| `Padron` | abstract specification: what the catalogue of mentores promises its readers | – |
| `Mentores` | requests that open and close periods of mentores | – |
| `MentoresClaims`, `MentoresProofs` | as above, and that `Mentores` implements `Padron` | `Mentores` |
| `Tipos` | requests that create, edit, deactivate and read tipos with their fields | – |
| `Catalogue` | abstract specification: what the catalogue promises its readers, a tipo is one value | – |
| `TiposProofs` | theorems about `Tipos`, and that it implements `Catalogue` | `Tipos`, TLAPS |
| `Perfil` | abstract specification: what a cached profile promises, that it only learns | – |
| `Usuarios` | requests that carry a token through callback, middleware, mixin and hydration | `LifecycleRules`, `Perfil` |
| `UsuariosClaims`, `UsuariosProofs` | as above, and that `Usuarios` implements `Perfil` | `Usuarios` |
| `Formularios` | the editor of fields, the dynamic form, the resolver's merge and the store's checks, next to a `Perfil` | `Perfil` |
| `Plantillas` | requests on templates and images, and every render | – |
| `PlantillasClaims`, `PlantillasProofs` | as above | `Plantillas` |
| `Reportes` | readers of lists, exports, dashboards and details, between whose queries solicitudes move | `Historiales` |
| `ReportesClaims` | as above | `Reportes` |
| `PaginasProofs` | theorems about the two components that show pages: `Formularios` and `Reportes` | `Formularios`, `Reportes`, TLAPS |
| `MCLifecycle`, `MCIntake`, `MCRespuesta`, `MCMentores`, `MCTipos`, `MCUsuarios`, `MCFormularios`, `MCPlantillas`, `MCReportes` | instances for TLC | the claims modules, `Tipos`, `Formularios` |

How they compose. `LocalStorage` is one set of operators run by both `Intake` and
`Respuesta`, as the class is one and its two callers differ: one sweeps after every
request, the other only after a failure. Both keep `Archivos`, in which there are no
threads, callbacks or lists: bytes come before rows and under names of their own,
renames come after the COMMIT, and no file is taken from a committed row before a log
line names one, except by its own writer, when it is interrupted between its COMMIT and
the renames (runs `intake` and `respuesta`, theorems `KeepsTheArchivos`). `Respuesta`
depends on the lifecycle only through the estado column, so it runs next to
`EstadoColumn`, which moves along the matrix whenever it likes, instead of next to all
of `Lifecycle`; what it assumes is discharged once: `Lifecycle` implements
`EstadoColumn` (theorem `KeepsTheColumn`). Who reads the catalogue of mentores may take
it for `Padron`: one request at a time enrols mentores who have no open period, or
closes open periods, once and all that it reports together (run `mentores`, theorem
`KeepsThePadron`). `Ledger` is the other abstraction of `Lifecycle`, for who reads the
historial and the mails. `Intake` takes the tipo to be one value that is replaced as a
whole (`EndEdit`), while it is locked (`BeginEdit`); that the database behaves like this
although an edit is many statements is what `Catalogue` says, and `Tipos` implements
`Catalogue` (run `tipos`, theorem `KeepsTheCatalogue`). In the same way `Formularios`
does not run the logins and hydrations that fill a profile: it runs next to `Perfil`, in
which anything may be learnt at any time, and `Usuarios` implements `Perfil` (run
`usuarios`, theorem `RefinesPerfil`). `Reportes` runs next to `Historiales`, in which
solicitudes are filed and any folio takes an entry along the matrix that continues
*some* entry of its own. That is weaker than the matrix and is what the code really
keeps: `Lifecycle` implements `Historiales` (run `lifecycle_desk`, theorem
`KeepsTheHistoriales`). The instances of `Lifecycle` begin with all their folios filed;
`File` of `Historiales` is what `Commit` of `Intake` leaves in these tables.
`Plantillas` shares no state with the others but the tipo's choice of a plantilla, which
it has itself.

### Lifecycle

| Code | Model |
|---|---|
| `Solicitud.estado`, `HistorialEstado` rows in commit order | `estado`, `historial` |
| row lock of an UPDATE until its transaction ends | `rowLock` |
| `TipoSolicitud.responsible_role`, read live with the row | `responsible` |
| the locals `detail.estado` and the closing detail | `seen`, `shown` |
| view and mixins, `get_by_folio`, `_authorize`, TRANSITIONS lookup (lines 130-137) | `ReadDetail`, or `Reject` |
| `update_estado` | `UpdateEstado` (waits for the row) |
| `historial.append`, COMMIT | `AppendAndCommit` |
| `notify_state_change`, delivered or swallowed | `Notify` |
| closing `get_by_folio`, two queries | `RereadRow`, `RereadHistorial` |
| death of the worker, error of the database | `Fail` |
| an administrator edits the tipo | `EditTipo` |

`parent`, `basis` and `mine` are history variables: they record which historial
row a writer had seen and which one it wrote, and no guard reads them. The
first read of the row and the two checks on it are one step: between them no
other state is read. Historial rows are appended in commit order because the
row lock is held when `created_at` is taken.

### LocalStorage and Intake

| Code | Model |
|---|---|
| `.partial` and final files; `_Pending.paths` of a thread | `partial`, `final`, `pending` |
| Django's list of `on_commit` callbacks (external) | `hooks` |
| the `archivos.*` error lines | `logged` |
| `TipoSolicitud` with its fields, one value per edit; an edit's lock of its row | `tipo`, `editing` |
| `FolioCounter.last`, and its `select_for_update` | `counter`, `counterLock` |
| lock of the User row of a solicitante, from `update_or_create` to COMMIT | `userLock` |
| `Solicitud` rows with their `ArchivoSolicitud` rows | `solicitudes` |
| mails of `notify_creation` that left | `announced` |
| the middleware's upsert of the User row; `is_mentor`, `get_for_creator` | `Open` |
| `snapshot`, the form, `is_valid` | `ValidateForm` |
| `preview`, where SIGA answers: `hydrate_from_siga` in a transaction of its own | `Preview` |
| `create`: `get_for_admin` and the role; `snapshot` again | `ReadTipo`, `ReadSnapshot` |
| `create`: `resolve`, which may write the User row and keep it; the year | `Resolve` |
| `create`: folio, row, historial | `FileSolicitud` |
| `create`: `notify_creation`: mails leave, or nobody is told and nothing is raised | `NotifyCreation` |
| `store_for_solicitud` per upload | `StoreUpload`, `RefuseUpload`, `UploadBreaks` |
| end of the outer `atomic()`; the foreign keys, which are checked there | `Commit`, `KeysAreFree` |
| ROLLBACK | `RollBack` (`FreeLocks`) |
| `_commit` callbacks | `RunHook` (`Rename`, `RenameBreaks`) |
| the `finally` of the view | `Sweep` |
| any other exception inside the block, the one that breaks a deadlock too | `Abort` |
| timeout: `SystemExit` in the block, or between callbacks, or in one | `Interrupt` (`CutOff`, `RenameIsCut`) |
| the worker is killed, after a timeout or without one | `Crash` (`ForgetThread`, `CutCleanup`) |
| edit or deactivation of the tipo; New Year | `BeginEdit`, `EndEdit`, `Deactivate`, `NewYear` |

A foreign key of Django is deferred: at the COMMIT of a filing PostgreSQL takes FOR
KEY SHARE locks of the User row and of the tipo row, which a FOR UPDATE of another
transaction (`update_or_create`, `select_for_update` of an edit) stops, and a plain
UPDATE does not. A request that is "dying" runs its `finally`; one that is
"interrupted" has run it or was killed in it.

`Row.seen` and `Row.asked` record what the form of the POST showed; no column
holds them and no guard reads them after the form is validated. A tipo is one
value, read in one step. In the code the row and its fields are two queries:
`Tipos` shows that the fields of a reading are those of one submission
(`ReadingsAreWhole`); that the row is of the same submission is not true of the
code, and `Intake` is coarser there.

### Respuesta

| Code | Model |
|---|---|
| guards of `create_batch`, all read before its transaction | `Admit` (`WindowOpen`, `MayAnswer`, `Deliverable`) |
| `transaction.atomic()` is entered | `Begin` |
| `storage.save` per file, or its failure | `StoreUpload`, `UploadBreaks` |
| `repo.create`, COMMIT | `Commit` |
| `on_commit` callbacks, which run inside the `try` | `RunHook` |
| the `except` branch, which a failed callback reaches too | `Sweep` |
| `list_for_solicitud`: permission, then rows | `AuthorizeList`, `ReadList` |
| `open_for_download`: row, permission, bytes | `FindArchivo`, `AuthorizeDownload`, `OpenFile` |
| another request's transition; an edit of the tipo | `Transition` (`EstadoColumn!Move`), `EditTipo` |
| timeout, whose `SystemExit` the `except Exception` passes by; the worker is killed | `Crash` |

`Batch.posted`, the files the form carried, is a history field that no guard
reads.

### Mentores

| Code | Model |
|---|---|
| `MentorPeriodo` rows | `periodos` |
| `timezone.now()` | `Stamp`: each is later than all before, and stands for the id of the row it opens |
| `add_or_reactivate` for an alta or a row of a file | `LookForActive`, `StampAlta`, `Insert` |
| end of the (outer) `atomic()` | `CommitOpened` |
| partial unique index: an INSERT waits for who may still leave it room | `Undecided` |
| `deactivate`: `select_for_update().get`, stamp, save | `FindOpen`, `LockNext`, `NotFound`, `CloseOne`, `CommitClosed` |
| `deactivate_many`, `deactivate_all_active`: stamp, one UPDATE | `StampBulk`, `FindOpen`, `LockNext`, `CommitClosed` |
| test of a row again after the wait for its lock (READ COMMITTED) | `LockNext` keeps it only if it is still in `periodos` |
| IntegrityError and the re-read after it | the second branch of `Insert` |
| deadlock detector, other errors, death of the worker | `DeadlockVictim`, `Fail` |

`opened` and `locked` are the uncommitted writes of a request and, once it has
ended well, what it reported; `found` is a history variable. Waits are guards:
a request that waits has no step until who it waits for has ended.

### Tipos

| Code | Model |
|---|---|
| committed `TipoSolicitud` and `FieldDefinition` rows | `tipos`, `fields` |
| `get_by_id`: the row, then the prefetch of its fields; the guard of `snapshot` | `ReadRow`, `ReadFields` |
| the page of an edit is sent back, later | `Post` |
| `create`: `_build_unique_slug`, one `EXISTS` per candidate | `Create`, `TryName` |
| `create`: INSERT, which waits on the unique slug; IntegrityError | `InsertTipo` |
| `update`: `select_for_update`, columns, `save` | `LockTipo` (`Holds`) |
| `_replace_fields`: DELETE of what is not listed | `DeleteOthers` |
| `_replace_fields`: orders + offset, one UPDATE | `Park` |
| `_replace_fields`: one field updated or inserted | `WriteField` (`NewRow`) |
| end of `atomic()` | `Commit` |
| error or death inside it | `Fail` |
| `deactivate`: one UPDATE of `activo` | `Deactivate`, `SetInactive` |

The writes of a transaction are an overlay on the committed fields, `gone` and
`kept`, and `View` is what the transaction itself sees. The data of a field are
one value, `<<w, i>>`: what row `i` of the form of `w` said. `before`, and the
`by` of a tipo, are history: no guard reads them. The form is that of the page's
script, which numbers the rows from 0 as they were dragged; a POST that was not
made by it (orders as high as the offset) is not modelled.

### Usuarios

| Code | Model |
|---|---|
| `User` rows: email and role; the cached profile | `identidad`; `perfil` |
| tokens of the provider, issued and expired | `vigencia`, `Issue`, `Expire` |
| `dev_login`: quickstart users, "login as" | `QuickStart`, `PickUser` |
| GET of `/auth/callback`, of any page, of a form; POST of a filing | `Arrive`, with `kind` |
| `decode_jwt`, the role resolver | `RejectToken`, `Recognized` |
| `get_or_create_from_claims`, unique email | `WriteClaims`, `Upsert`, `EmailFree` |
| middleware's `User.objects.get`, `RoleRequiredMixin.dispatch` | `ReadGate`, `Judge` |
| `hydrate_from_siga`: the row before the call | `ReadExisting` |
| SIGA down; 404; an answer, and the second upsert | `SigaDown`, `SigaUnknown`, `SigaAnswers`, `WriteBack` |
| what callback, `preview` and `resolve` do with it | `Seat`, `Preview`, `Resolve` |
| the upsert of a `resolve`, in the transaction of its filing | `pendiente`, `Pending` |
| the wait of another upsert for that transaction, on the row or on the unique email | `Settled` |
| the filing ends well; it is rolled back | `Commit`; `Abort` |
| the worker is killed, the database fails | `Die` |

`alone` is a history variable. `last_login` is left out: nothing reads it.

### Formularios

| Code | Model |
|---|---|
| `FieldDefinition` rows of one tipo | `campos`; `used` are ids handed out |
| a row as typed: `FieldForm.clean`, `_normalize_type_only_fields`, `_normalize_source`, `_collect_fields` | `RowAccepted`, `DropHidden`, `SourceOf`, `Collected` |
| validators of `CreateFieldInput` | `SchemaAccepts` |
| `fieldset_initial_from_dto` | `Initial` |
| POST of the editor | `SaveTipo` |
| `build_django_form`, the check of each type, `to_values_dict` | `Asked`, `InputAccepted`, `ValuesDict` |
| POST of a filing up to `is_valid`, with the preview of its page | `Post` |
| snapshot for the row; `resolve` and the merge; the store | `TakeSnapshot`, `Resolve`, `StoreFiles` |
| whatever fills the profile | `Learn` of `Perfil` |

Text is one of a handful of values that the checks tell apart: too long, a
number, a date, an option, empty. The client may send any of them under any id:
a POST is not limited to what its page showed.

### Plantillas

| Code | Model |
|---|---|
| `PlantillaSolicitud` rows; the tipo's foreign key | `plantillas`; `usa` |
| `PlantillaAsset` rows; files under `plantilla_assets/` | `images`; `disk`: whose bytes each name holds |
| the draft in the session | `borrador` |
| create, edit (with `_validate_template`), deactivate | `CreatePlantilla`, `UpdatePlantilla`, `DeactivatePlantilla` |
| the select of the tipo's page, and its POST | `Arrive` of a `"tipo"`, `ChoosePlantilla`, `SaveTipo` |
| upload: form, Pillow, file, then row | `SaveFile`, `InsertRow` |
| delete: row read, file unlinked by name, row deleted | `ReadRow`, `Unlink`, `DeleteRow` |
| render: template, `list_for_render`, `asset_to_data_uri` one by one | `ReadTemplate`, `ListImages`, `OpenFile` |
| render: Django's template engine and what is answered | `RenderStored`, `RenderPreview`, `RenderDraft` |
| the worker is killed, the database fails | `Die` |

The bytes of an image are the request that uploaded it, so `disk[f] # i` says that
the file of `i` is gone or another's. What a template does is which sets it is in: it
does not parse (`Malformed`); or it parses and raises on a feature of its context
(`RaisesOn`): on values or on there being none, on a person or on a placeholder, on an
image or on there being none, or always. What it raises is a `TemplateSyntaxError` too
for some (`Syntactic`: `{% widthratio %}`, an `extends` of a variable), and
`pdf_service/implementation.py:90-93,116-119` answers those as it answers a template
that does not parse.

### Reportes

| Code | Model |
|---|---|
| `HistorialEstado` rows and the column that goes with the last one | `historial`, `estado` |
| a filing, a transition, an edit of the tipo between two queries | `File`, `Transition`, `EditTipo` of `Historiales`, all under `Meanwhile` |
| mixins; `_read_filters` that raises | `Admits`, `Refuse` |
| `parse_report_filter`, `_read_filters`, `_apply_filters` | `ParseReportFilter`, `ReadFilters`, `Passes` |
| `_paginate`: COUNT, then the slice; "Siguiente" | `CountFirst`, `SlicePage`, `CountNext`, `PageQuery` |
| `dashboard`: three aggregates | `ByEstado`, `ByTipo`, `ByMonth` |
| the rows of the exports | `PdfRows` (with its cap), `Csv` |
| a detail: the row, then its historial | `DetailRow`, `DetailHistorial` |

`stayed`, `entered` and `left` are history variables: which folios matched a
reader's filter all the time it read, came to match, or ceased to.

An operator that a comment calls a *Mutant* stands
just before the definition it would replace and is used by no specification: it
is the bug that a property is measured against.

## 4. Runs

| Run | Instance | States | Shows |
|---|---|---|---|
| `lifecycle` | 3 requests, 1 folio, an alumna and a member of staff with two roles, tipo moving between two roles | 2.0 M | no forged row, the state machine for who is alone, responses that are true, under three-way overlap, deaths and a tipo that changes hands |
| `lifecycle_desk` | 2 requests, fair; a docente files under a tipo that may come to name DOCENTE | 15 k | refinement of `Ledger` and of `Historiales`; every admitted request ends |
| `lifecycle_matrix` | 2 requests | – | *violated*: see section 6 |
| `intake` | 2 requests of one person on 2 threads, 2 years, 3 values of the tipo, uploads up to form and comprobante | 0.72 M | folios, mails, files, sweeps and comprobantes through edits, a change of year, failures at every step, timeouts and killed workers; nothing but a locked row stops a request, and only two filings of one person ever wait for each other; refinement of `Archivos` |
| `respuesta` | 2 POSTs on 2 threads, up to 2 files each, 1 reader; owner, reviewer and a tipo that changes hands | 1.6 M | what success and failure of a delivery mean, who reads what, why a file is missing; refinement of `Archivos` |
| `mentores` | 3 requests of any kind, 2 mentores, files with a duplicate and a malformed row, files in opposite orders | 0.34 M | refinement of `Padron`, and one open period with it; reported counts are those of the table; a baja leaves nothing it found open; deadlocks happen, and only imports or bulk bajas are in them |
| `mentores_race` | 2 requests, 1 mentor | – | *violated*: see section 6 |
| `tipos` | 3 requests of any kind, a tipo of 2 fields and the ones created, up to 2 fields each | 1.2 M | ids survive; reordering never collides; refinement of `Catalogue` |
| `usuarios` | 2 requests of any kind, 2 people, 4 tokens (one person promoted and renamed, one email of two people, one unknown role) of which one expires, 2 partial answers of SIGA | 1.5 M | identities are never mixed; what the preview found is found again; who is alone is judged by itself; refinement of `Perfil` |
| `formularios` | 1 filing, 2 fields, 2 saves of the tipo, 11 rows of the editor | 1.2 M | the edit page keeps the tipo; values and files of a filing are explained by what was asked; a refusal was announced |
| `plantillas` | 3 requests of any kind, 2 plantillas, 2 images before, 3 file names, templates that raise on values, persons or images | 2.1 M | which image file may be missing or left over, what a render embeds, which failures of a PDF its editor could not have seen |
| `reportes` | 1 reader of 10 GETs, 3 folios, pages of 1, cap of 1 row, 4 rows of historial | 0.62 M | rows are committed states; pages and figures differ only by what moved; folios are missed, and shown twice, between pages |

Why the bounds are enough to be interesting. Folios do not interact in `Lifecycle` (each
step touches one), so one folio loses nothing but the sharing of a tipo. Two requests
make every stale read, three make a row written on top of two others and a historial
that branches twice. In `Intake` two requests contend for the counter and two threads
let them overlap, or follow one another on one thread and inherit its list, in one year
or in two. Two uploads are the least for which one failed rename drops another, and
include the comprobante. Both requests are of one person, who waits for the most: with
two persons only the counter is shared. The three values of the tipo (free, paid with an
exemption, inactive) have the same fields: no property but `RowRecordsWhatWasSeen`
(section 6) tells fields apart. `FilesAlone` leaves the product of years and files out:
where there are uploads the year stays, and their request has somebody to tell. In
`Respuesta` two POSTs on two threads overlap or follow one another on one list. In
`Mentores` three requests give a baja that waits for two, or a cycle with one beside it;
two mentores are the least for which scans and files have an order. In `Tipos` three
requests are two editors with stale pages and a reader or a deactivation between them,
or three creations that contend for a slug and the next candidate; two fields are the
least that can be swapped, dropped and doubled, and the offset is one more than they
need (the code: 1000 over 50 fields; only `MaxFields < Offset` is used in the proofs).
In `Usuarios` two requests are a stale hydration and a login that overtakes it, or two
pages with different tokens; nothing is explored after a second token has expired
(`OneExpires`); the theorems cover any number. In `Formularios` the second save comes
between the form and the row, or opens the page of the first; filings of one person meet
only through the profile, which `Perfil` moves anyway, so one is enough; the 11 rows
cover each type, and the inputs a change of type leaves hidden. In `Plantillas` three
requests are two deletions and the upload that takes the name, or a render beside a
deletion and an upload; the two images that are there make one hide the other. In
`Reportes` a walk over three folios leaves one row of historial for what moves between
its pages: the list of what is CREADA loses a folio it has shown, and the next page
skips one; a filing pushes a folio that was shown onto the next page, which shows it
again. Four rows are also two takes of one folio beside another; readers do not meet.
Requests (and threads, and the ids of fields) are interchangeable, and symmetry is used
only in runs that check safety. `CHECK_DEADLOCK FALSE` stands where the instance has a
last state: all requests of the instance answered, and no edit of the tipo or new year
left (`intake` has none: an edit is always possible there). `Mentores` finds database
deadlocks itself: a cycle of waits is a state in which only `DeadlockVictim`, `Fail` and
the requests outside it can step.

Fairness. `RequestsEnd` of `Lifecycle` assumes only that a thread which runs a request
takes that request's next own step when it can (weak fairness of `Step(r)` for each
`r`): a sync worker does nothing else. Arrivals, failures, deaths and edits are owed to
nobody. In particular a request that waits for a row is not helped by anybody's dying;
it is helped by the holder going on, or by the rollback when the holder does die. In
`Intake` and `Mentores`, whose instances are large for a liveness check, the same is
said by two invariants. `OnlyLocksStop` and `OnlyWaitsStop`: nothing but a row, or an
index entry, of a request that is under way stops a request, or the row of the tipo that
an edit has locked; each other one has a step of its own. `DeadlocksAreOfOnePerson` and
`DeadlocksAreOfBatches`: whom a circle of waits may consist of. A circle is broken by
PostgreSQL's deadlock detector, which runs after `deadlock_timeout` whatever the clients
do (`Abort`, `DeadlockVictim`), and an edit is a request too, which ends. And the steps
run out (`StepsRunOut`, proved of both modules): each step brings its request to a later
stage or leaves it less to do in the stage it is in (uploads, callbacks, rows to insert,
rows to lock), and nothing that others do, or that befalls it, gives it more. So with
that fairness all that have begun end. The other modules take no lock that is held
across steps, or one each (`Tipos`), and nothing is claimed there that needs fairness.

## 5. Proofs

The eight `…Proofs` modules prove, for every value of the constants
under the modules' named assumptions (sets are of the right kind, owners are
users, the null values are outside their sets), that `Spec` implies:

* `Lifecycle`: the type invariant; `EstadoIsLastEntry`, `EntryContinuesASeenOne`,
  `SolicitanteOnlyCancelsOwn`, `SerialFolioObeysTheMachine`,
  `MailsAnnounceCommits`, `ResponseIsExplained`; and the refinements of `Ledger`
  (`KeepsTheLedger`), `Historiales` (`KeepsTheHistoriales`) and `EstadoColumn`
  (`KeepsTheColumn`).
* `Intake`: the type invariant; `FoliosAreGapless`, `MailsNameTheNextFolio`,
  `FinalFilesHaveRows`, `SweepIsPrivate`, `HooksFindTheirPartial`,
  `ComprobanteMatchesDebt`, `MissingFilesAreNoticed`, `DeadlocksAreOfOnePerson`,
  `BytesAreKept`, `StepsRunOut`, and the refinement of `Archivos`
  (`KeepsTheArchivos`).
* `Respuesta`: the type invariant; `AnswersFollowATake`, `OutcomeIsTrue`
  (`SuccessIsWhole` and `FailureIsUndoneOrLogged`), `FinalFilesHaveRows`,
  `SolicitanteReadsAfterFinal`, `MissingIsExplained`, `SweepIsPrivate`,
  `BytesAreKept`, and the refinement of `Archivos` (`KeepsTheArchivos`): all that its
  run checks.
* `Mentores`: the type invariant; `OneOpenPeriod`, `ReceiptsAreTrue`,
  `ClosersLeaveNoneOpen`, `SingleClosuresRunForward`, `DeadlocksAreOfBatches`,
  `StepsRunOut`, the action property `ClosedForGood`, and the refinement of `Padron`
  (`KeepsThePadron`).
* `Tipos`: the type invariant; `OneSubmission`, `ReadingsAreWhole`,
  `OrdersNeverCollide`, `OnlyRacesConflict`, the action property
  `ResubmittedIdsSurvive`, and the refinement of `Catalogue`
  (`KeepsTheCatalogue`): all that its run checks.
* `Usuarios`: the type invariant; `IdentityIsOneTokens`, `PreviewIsKept`,
  `AloneIsJudgedByItself`, and the refinement of `Perfil` (`RefinesPerfil`): all
  that its run checks.
* `Plantillas`: the type invariant; `FilesAreExplained` (`MissingFilesAreExplained`
  and `LeftoversAreExplained`), `RendersShowWhatTheyListed`,
  `RenderErrorsComeOfTheData`: all that its run checks.
* `Formularios`: `EditPageKeepsTheTipo`, `ValoresAreExplained`, `OneFormIsComplete`,
  `RefusalWasAnnounced`: all that its run checks.
* `Reportes`: the type invariant; `RowsAreCommittedStates`, `WalksAreExplained`,
  `FiguresDifferByMoves`: all that its run checks.

**Lifecycle, the argument.** None of the properties is inductive alone: nothing
in `EstadoIsLastEntry` says that the destino a request is about to write comes
from the matrix. `IInv` adds what is true of a request between its stale read
and its end: what it read *is still a row of the historial*, because rows only
grow (`LiveRequestsHoldTheirBasis`); once committed, it owns one row and nobody
else owns it (`PostedRequestsOwnTheirRow`, `RowsHaveOneOwner`); and that row is
not announced before its own `Notify`. Each action has one step in the proof of
preservation. `SerialFolioObeysTheMachine` follows from the tree: a serial
folio's rows form a path of the matrix, which has no path longer than two.

**Intake, the argument.** `FolioInv` says that whoever has allocated a number still
holds the counter row, so the number is still the next one (`HoldersAreNext`): that is
why aborted filings leave no gap, the new row can extend `1 .. counter`, and a mail that
is ahead of its COMMIT is ahead of it by one; `MailsAreOfTheDraft` ties the mails of a
request to the folio it holds. `FileInv` says where a file is in its life: a rename
still to come is of an archivo of the draft that the thread is writing
(`HooksAreOfTheRow`), only requests that reached their uploads are on a list
(`PendingIsStored`), after COMMIT the draft is a committed row (`RenamingIsCommitted`),
and a thread runs one request (`ThreadsServeOne`). `UploadInv` follows the uploads on
top of that: while the row is a draft, the comprobante the form asked for is stored or
still to store, and one that is stored was due (`DebtOf`); each archivo of a committed
row is in place, still to be renamed, or the log names one of its row (`RenamesOf`).
`DeadlocksAreOfOnePerson` needs that a row that is locked is held by a request that is
past taking it: a counter row by one of that year that has its folio (`LocksAreHeld`), a
User row by one of that person that has resolved (`RowsAreHeld`). So in a ring of waits
somebody waits for a counter row; its holder has only its COMMIT left to wait at, and
there only for the User row of its own sender, whose holder is of the same person and
can only be waiting for the counter. `StepsRunOut` needs that a thread runs one request
(`ThreadsServeOne`): else a callback that another request schedules would be work added
to this one.

**Respuesta, the argument.** `TakeInv`: whoever passed the guard saw a taken folio,
and the matrix never leads back to CREADA, nor out of FINALIZADA, so what `WindowOpen`
and `CanRead` saw stays true enough although the row moves. `FileInv` is the life of a
file as in `Intake`. `OutcomeInv` ties the end of a POST to its batch: success is
reached only with no callback left, and a POST that is sweeping after its COMMIT has
logged a file.

**Intake and Respuesta as Archivos, the argument.** `rows` of `Archivos` are the sets of
files that committed rows name. A file that is written is of a draft, and drafts share
no name with rows or with one another (`NamesAreOwn`, `BatchesAreDrafts`). At the COMMIT
every file of the draft is on disk as a partial, because its rename is still to come and
such a rename finds its partial. A sweep takes only files of the request that runs on
its thread; if that one has a committed row, either a callback failed, and the log names
a file of the row, or every file is in place already and the list has none of them, or
the request was interrupted after its COMMIT, which is the step `Cut`: that is the guard
of `Cleanup`. `BytesAreKept` follows from the abstract steps alone: at every moment,
also after a request was killed, each file of a committed row is there, under one name
or the other, or the log names one of its row, or the request that wrote it was
interrupted by the timeout in that window. Only `Intake` has such requests; in
`Respuesta`, whose sweep is in an `except Exception` that `SystemExit` passes by, `cut`
is empty.

**Mentores, the argument.** `IndexInv`: an entry that is inserted and not yet
committed is alone, so each later insertion of that matrícula waits
(`PendingIsAlone`). `RowInv`: timestamps identify rows. `CloseInv`: what a running
request has locked is committed, open, and locked by nobody else (`LocksHold`, which
is what the test after the wait gives), and what it found and is still there is locked
or still to come (`FoundAreKept`). `DoneInv`: the properties of what is committed.
Between a `COMMIT` and an `INSERT` that waited for it the argument is that `Undecided`
ends with the request, never before its rows are in the table. `DeadlocksAreOfBatches`
rests on `SinglesAreSound`: an alta has one row to insert and a baja of one mentor one
row to lock, so neither holds anything while it waits. Who holds nothing is waited for
by nobody, so it can be taken out of a set in which everyone waits for one of the set;
what is left is imports, and bulk bajas, which wait for row locks of bulk bajas alone:
so the bulk bajas among them, if there are any, wait for each other, and else the
imports do.

**Mentores as Padron, the argument.** The table changes in two steps only.
`CommitOpened` is an `Enrol`: what the request inserted is its own (`OpenedAreOwn`),
under fresh timestamps, of mentores who have no other open period (`PendingIsAlone`),
and as many as it reports. `CommitClosed` is a `Dismiss`: what it locked are rows of
the table that are open still (`LocksHold`), one per timestamp (`AltasIdentify`), and
all of them close at once.

**Tipos, the argument.** Whoever writes a tipo is alone with it: an editor holds
the row, a creator an id and a slug that only it has
(`WritersAreApart`). So the row it saves is still the committed one apart from
its author (`RowsAreCurrent`) and its overlay lies on fields that do not move.
Each row of the overlay is either parked, with an order of at least `Offset`, or
written, with the order of one of the inputs already done (`OverlayIsSound`):
so no input meets its own order, and after the last one every field that was
not deleted was listed, hence nothing is parked any more and the view says
exactly what was submitted. Ids come from their authors, who never write twice.

**Usuarios, the argument.** Whoever writes a row has just come from a token of that
person, or writes back what it read, which somebody wrote from a token
(`RowsAreOfTokens`, `CopyIsOld`). A request that is alone has no rival: each other
request of its person has ended (`HasNoRival`), so nobody but itself has written the row
since. What a filing has written and not committed is of a token as well, and of its own
if it is alone (`WriteWaits`). The profile only grows, so what is missing now was
missing at the preview (`PreviewHolds`).

**Plantillas, the argument.** An image can be read by a deletion only after its
upload has ended (`RowsAreUploaded`), and its bytes are written once
(`FilesFit`). A deletion that finds another image's bytes under the name it read
was preceded there by a deletion of its own image, or inherited a name where two
had already met (`ReadersWereFirst`); so a lost file has a deletion of its image,
or two of another one (`LossesAreExplained`, `Doubled`). No template that does not
parse is ever stored; a draft is kept only if it rendered (`TemplateInv`), so it raises
on nothing that every preview has, which is `Plain`; and a render that succeeds, of
whatever kind but that of a solicitud, shows its template to be `Plain`.

**Formularios, the argument.** What the form has validated stays true of its values
until the resolver runs (`Validated`); the resolver adds values to auto-fill fields
alone, and the form never asked for those of its own snapshot (`Resolved`); a
profile that only grows cannot lack at the filing what it had at the preview.
`EditPageKeepsTheTipo` is inductive as it stands: a saved field comes from a row that
`FieldForm` accepted, and what `DropHidden`, `SourceOf` and `SplitCsv` have made of a
row they make of it again (`SavedRowIsStable`). That a csv is split once and for all
(`SplitTwice`) needs that the n-th part is the n-th position that is not blank, which
is how `SplitCsv` is written, instead of a recursion.

**Lifecycle as Historiales, the argument.** An `AppendAndCommit` writes an entry along
the matrix from the estado the request read, and that is the `estado_nuevo` of a row
still there (`LiveRequestsHoldTheirBasis`): a `Transition`. An edit of the tipo is an
`EditTipo`; every other step leaves both tables alone. `Transition` keeps no more of
the order than that, which is why the proofs about `Reportes` may not use the matrix
beyond it.

**Reportes, the argument.** `Reading(d)` says how far the answers of one reader have
come. *Rows*: a historial is only added to, so a row that showed an entry goes on
showing one (`RowsFromEntries`), and an entry EN_PROCESO comes before the first
FINALIZADA of its folio (`TakenBeforeFinished`), so a folio read as finished has its
handler. *Walks*: a folio nothing newer than which moved keeps its place in
what the reader's filter matches. Before the COUNT of page p + 1 it was shown or its
place is behind p pages (`NothingMissed`), and one that was shown is not behind them
(`NothingAgain`); a page shows just the places of its slice, so both survive it, and
after the last page no place is left. *Figures*: what a query counts lies between
the folios that matched at every instant and those that matched at some
(`Figures`); the chart drops those outside its twelve months, which is what the
property allows for. That each folio has one place, that places have no gap, and what a
slice holds are lemmas on the order of `-created_at`, proved from
`OrderAssumption`: the list names each folio once, in the order of the local dates.

Each `IInv` also held under TLC in the component's runs before it was proved; since
it is proved, and implies the properties above, no configuration lists it.

Only model-checked: liveness (`RequestsEnd`); `OnlyLocksStop` and
`OnlyWaitsStop`, which say ENABLED; and the violations. All other properties of the
runs are theorems. Some invariants of the lists above stand in no run, and have only
their theorems: `EstadoIsLastEntry` and `MailsAnnounceCommits`, which `Ledger` contains;
`FinalFilesHaveRows` and `BytesAreKept`, which go with `Archivos`; `OneOpenPeriod`,
which goes with `Padron`; and `SweepIsPrivate` and `HooksFindTheirPartial` of `Intake`,
`OneSubmission`, `ReadingsAreWhole`, `OnlyRacesConflict`, `SingleClosuresRunForward`,
`ClosedForGood`, `StepsRunOut`.

## 6. Where the code and its documents disagree

Items 2 and 8 each have a run whose counterexample is the trace, and an
entry under `findings`. For the others the claim is a definition of the claims
module, which TLC refutes when it stands alone as the INVARIANT (7: the PROPERTY) of
the configuration named in brackets, without its SYMMETRY where it has one.

1. **Two takes** (`SingleTake` in `MCLifecycleMatrix.cfg`; `OneTakePerFolio`, of the
   lists, in `MCReportes.cfg`). Both requests read CREADA; both rows are
   recorded. The flow document and `_base_queryset` say there can be one.
2. **Out of a terminal estado** (run `lifecycle_matrix`). A request that read
   EN_PROCESO commits after a cancelar: the estado column goes from CANCELADA to
   FINALIZADA, or back to EN_PROCESO. RF-LIF-01 says no other transition exists.
   1 and 2 have one cause, the read outside the transaction; what remains true
   is what `Ledger` promises.
3. **Mails before COMMIT** (`AnnouncedAreFiled`, in `MCIntake.cfg`). The announcement
   leaves inside the transaction of the view; if an upload then fails, the folio is
   rolled back and given to the next filing. What still holds is
   `MailsNameTheNextFolio`.
4. **Not what was seen** (`RowRecordsWhatWasSeen`, in `MCIntake.cfg` with
   `Versions <- OtherFields`). The form and
   the row come from two snapshots of the tipo.
5. **Forgotten partial** (`NoPartialIsForgotten`, in `MCIntake.cfg`). A write that
   raises leaves a file that no list and no log line names.
6. **Lost upload, no log line** (`MissingFilesCanBeReconciled`, in `MCIntake.cfg`).
   One failed rename drops the later callbacks, and the sweep deletes their files
   though the rows are committed. What still holds is `MissingFilesAreNoticed`: the
   log names *one* file of such a row.
7. **Answered after the end** (`AnswersInsideTheWindow`, in `MCRespuesta.cfg`). The
   guard on EN_PROCESO is read before the transaction; a finalizar or a cancelar may
   commit in between, and the answer is committed on a closed folio. What still holds
   is `AnswersFollowATake`.
8. **The loser of a race** (run `mentores_race`). The IntegrityError of the unique
   index is caught inside the transaction it has aborted; the re-read meant to
   recover raises instead. A 500 for an alta, the whole file for an import. What
   still holds is `OneOpenPeriod` and `ReceiptsAreTrue`.
9. **Latest is not last** (`LatestRowTellsActive`, in `MCMentores.cfg`). `fecha_alta`
   is taken before the INSERT waits, so the row with the latest one may be closed
   while an earlier one is open; list and detail then show an active mentor as
   inactive.
10. **A login undone** (`LoginsStand`, in `MCUsuarios.cfg`). `hydrate_from_siga`
    writes back email and role as it read them before the call, so a slow page
    brings back the role that a newer login has just replaced. What still holds is
    `IdentityIsOneTokens`, and `AloneIsJudgedByItself` for who is not overlapped.
11. **A preview that raises** (`PreviewNeverRaises`, in `MCUsuarios.cfg`). SIGA's 404
    is `UserNotFound`, which `preview` and the login let through, although the
    interface says preview never raises.
12. **A plantilla dropped** (`DeactivatedStaysInUse`, in `MCPlantillas.cfg`). A
    deactivated plantilla is not among the options of the tipo's page, so an edit
    that does not touch the select removes it from a tipo that RF-PDF-01 lets keep it.
13. **Pages without their filter** (`PagesKeepTheFilter`, in `MCReportes.cfg`).
    "Siguiente" in the queue and in *mis solicitudes* holds the page number alone.
    What still holds is `WalksAreExplained`, for walks that keep one filter.
14. **Filed and not announced** (`FiledAreAnnounced`, in `MCIntake.cfg`). RF-07 of
    `specs/global/requirements.md:45` has a mail for each new solicitud; a delivery
    error is swallowed, and a role may have nobody to tell.
15. **A sweep that is no no-op** (`SweepsSpareWhatIsFiled`, in `MCIntake.cfg`). The
    comment in `create.py` says `cleanup_pending` does nothing after a success. When the
    timeout of the server falls between the COMMIT and the last rename, the `finally`
    deletes files of the committed solicitud, and nothing is logged. What still holds
    is `BytesAreKept`, which allows for it, and `MissingFilesAreNoticed`.
16. **Filings that cross** (`FilingsNeverCross`, in `MCIntake.cfg`). One row per year is
    to serialize allocation (`lifecycle/design.md:42` of the specs); but the User row is
    locked before the counter, and again by the foreign key at COMMIT, so two filings of
    one person deadlock and PostgreSQL undoes one. What still holds is
    `DeadlocksAreOfOnePerson`.
17. **A sample that fails** (`WhatPrintsHasASample`, in `MCPlantillas.cfg`).
    `build_synthetic_context` promises that what works for a real solicitud renders
    with it too; it has no values, and a template that needs one to be a number is a
    syntax error there.
18. **Inverted ranges** (`InvertedRangesShowNothing`, in `MCReportes.cfg`). The comment
    of `parse_report_filter` says such a report is empty; the code drops both ends
    and shows everything.

## 7. What is not modelled

* Layout: the HTML, CSV and PDF that are produced, WeasyPrint, wording, front end.
* Text: what a regular expression, a slug or a date looks like beyond the cases
  that a check tells apart; the contents of images; labels, widgets and order of
  the rows of the editor.
* The JWT and its signature, cookies, sessions, CSRF, settings: a token is valid,
  expired or not issued yet.
* SMTP, the addresses of recipients and the templates of mails: a mail leaves, or it
  does not and nothing is raised.
* `delete_archivo`, which has no caller, and the replacement of a prior upload. Each
  request writes uploads of a solicitud that it creates itself, once for each field; but
  `_field_id_from_attr` takes any spelling of a UUID, so a POST that no page makes can
  name one field twice and reach `_replace_prior`. No property here is about such POSTs.
* Waits of other requests for a User row that a filing has locked: the foreign keys of
  the rows that `Lifecycle` and `Respuesta` write. Such a wait ends with the filing,
  and the filing does not wait for them.
* Templates whose rendering depends on the clock.
* Power loss between fsync and rename: the code fsyncs before it schedules the
  rename, and the disk is taken to keep what it has.
* The directory of users (one read-only query), the seeders (run by hand on an empty
  database) and the one-off migration of the legacy table of mentores.
* The second POST of a signed bulk baja: `Mentores` lets any set be closed at any
  time, and that a second click was not meant is not a property of the catalogue.

## 8. What is left

1. The lifecycle and `Respuesta` in one instance, instead of through `EstadoColumn`;
   the composition through the abstraction is sound, and an instance with
   both would show nothing new about either.
2. Termination as a temporal property of `Intake` and `Mentores`. It is said now by
   `DeadlocksAreOfOnePerson`, `DeadlocksAreOfBatches` and `StepsRunOut`, which are
   proved, and by `OnlyLocksStop` and `OnlyWaitsStop`, which are model-checked; that
   with fairness and the detector these make every request end is an argument on paper
   (section 4).
3. The two readings of a tipo's row and fields, which `Intake` takes to be one:
   `Tipos` shows (`ReadingsAreWhole`) that the fields are of one submission, not
   that the row is of the same one.
4. `File` of `Historiales` against `Intake`: that a filing leaves one row CREADA is in
   the code of `create` and in both models, but no refinement states it, because
   the solicitudes of `Intake` are counted by year and have no historial.
