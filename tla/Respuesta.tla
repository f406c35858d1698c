------------------------------ MODULE Respuesta ------------------------------
(***************************************************************************)
(* Answering a solicitud and reading the answers: the POST that delivers a *)
(* batch of files with a comment, and the GETs that list and download.     *)
(*                                                                         *)
(* create_batch looks at the estado before its transaction.  Its files are *)
(* renamed by callbacks that run after the COMMIT and inside its try: an   *)
(* exception of theirs leaves through the same except branch as one of the *)
(* transaction, with the rows already visible.  Meanwhile the lifecycle    *)
(* moves the estado (EstadoColumn) and the catalogue the responsible role. *)
(***************************************************************************)
EXTENDS EstadoColumn, LocalStorage

CONSTANTS
  Requests,       \* the POSTs of answers
  Readers,        \* the GETs of answers
  Threads,        \* worker threads
  Users,          \* matriculas
  Owner,          \* Owner[f]: the solicitante of f
  RolesOf,        \* RolesOf[u]: the roles u's tokens may carry
  CatalogueRoles, \* the responsible roles the catalogue uses
  Payloads,       \* what a form may carry
  MAX_FILES_PER_BATCH,
  NoThread        \* not a thread: where a request that has not begun runs

\* allowed: every file has a permitted extension and size.
Payload == [files: Nat, comentario: BOOLEAN, allowed: BOOLEAN]

ASSUME FoliosAssumption    == Folios # {}
ASSUME OwnerAssumption     == Owner \in [Folios -> Users]
ASSUME RolesAssumption     == RolesOf \in [Users -> SUBSET Roles]
ASSUME CatalogueAssumption == CatalogueRoles \subseteq ResponsibleRoles
ASSUME PayloadsAssumption  == Payloads \subseteq Payload
ASSUME MaxFilesAssumption  == MAX_FILES_PER_BATCH \in Nat
ASSUME NoThrAssumption     == NoThread \notin Threads

VARIABLES
  responsible,  \* responsible[f]: responsible_role of the tipo of f
  batches,      \* the committed RespuestaSolicitud rows, with their archivos
  pc,           \* pc[r]: how far the POST is
  thread,       \* thread[r]: the worker thread that runs it
  todo,         \* todo[r]: how many of its uploads are still to be stored
  draft,        \* draft[r]: the batch it is writing, uncommitted
  at,           \* at[g]: how far the GET is
  ask           \* ask[g]: who asks for what

posting == <<pc, thread, todo, draft>>
reading == <<at, ask>>
vars    == <<Column, responsible, batches, posting, reading, storage>>

Files == Requests \X Nat

\* posted is how many files the form carried: no column holds it.
Batch == [req: Requests, folio: Folios, role: Roles, comentario: BOOLEAN,
          posted: Nat, archivos: SUBSET Files]
Asked == [folio: Folios, actor: Users, role: Roles, files: SUBSET Files]

\* The file of the i-th upload from the end; a fresh name (uuid4).
FileOf(r, i) == <<r, i>>

Running == {"admitted", "storing", "renaming", "cleaning"}
Ended   == {"done", "failed", "refused", "crashed"}

SomeFolio == CHOOSE f \in Folios : TRUE
NoDraft(r) == [req |-> r, folio |-> SomeFolio, role |-> "ADMIN", comentario |-> FALSE,
               posted |-> 0, archivos |-> {}]
NewDraft(r, f, role, p) == [req |-> r, folio |-> f, role |-> role, comentario |-> p.comentario,
                            posted |-> p.files, archivos |-> {}]
NoAsk == [folio |-> SomeFolio, actor |-> Owner[SomeFolio], role |-> "ADMIN", files |-> {}]

Init ==
  /\ ColumnInit
  /\ responsible \in [Folios -> CatalogueRoles]
  /\ batches = {}
  /\ pc = [r \in Requests |-> "idle"]
  /\ thread = [r \in Requests |-> NoThread]
  /\ todo = [r \in Requests |-> 0]
  /\ draft = [r \in Requests |-> NoDraft(r)]
  /\ at = [g \in Readers |-> "idle"]
  /\ ask = [g \in Readers |-> NoAsk]
  /\ StorageInit(Threads)

Free(t) == \A r \in Requests : pc[r] \in Running => thread[r] # t

Goto(r, step) == pc' = [pc EXCEPT ![r] = step]
-----------------------------------------------------------------------------
(***************************************************************************)
(* The POST.                                                               *)
(***************************************************************************)
\* Mutant: whoever has taken it or is about to.
WindowFromCreada(f) == estado[f] \in {"CREADA", "EN_PROCESO"}

\* The state guard, on the detail read before the transaction.
WindowOpen(f) == estado[f] = "EN_PROCESO"

\* _authorise_create.
MayAnswer(f, role) == role = "ADMIN" \/ role = responsible[f]

\* RespuestaUploadForm.clean, and again the payload invariants of the service.
FormValid(p) ==
  /\ p.files > 0 \/ p.comentario
  /\ p.files <= MAX_FILES_PER_BATCH

\* _validate_files looks at each file of a valid form.
Deliverable(p) == FormValid(p) /\ p.allowed

\* The view lets a reviewer in; get_detail and all guards of create_batch.
Admit(r, t) ==
  /\ pc[r] = "idle" /\ Free(t)
  /\ \E f \in Folios, u \in Users, p \in Payloads : \E role \in RolesOf[u] \cap ReviewerRoles :
       \/ /\ Deliverable(p) /\ WindowOpen(f) /\ MayAnswer(f, role)
          /\ thread' = [thread EXCEPT ![r] = t]
          /\ todo' = [todo EXCEPT ![r] = p.files]
          /\ draft' = [draft EXCEPT ![r] = NewDraft(r, f, role, p)]
          /\ Goto(r, "admitted")
       \/ /\ ~(Deliverable(p) /\ WindowOpen(f) /\ MayAnswer(f, role))
          /\ Goto(r, "refused")
          /\ UNCHANGED <<thread, todo, draft>>
  /\ UNCHANGED <<Column, responsible, batches, reading, storage>>

\* atomic() is entered.
Begin(r) ==
  /\ pc[r] = "admitted"
  /\ Goto(r, "storing")
  /\ UNCHANGED <<Column, responsible, batches, thread, todo, draft, reading, storage>>

\* save of the next upload, and its record for the repository.
StoreUpload(r) ==
  /\ pc[r] = "storing" /\ todo[r] > 0
  /\ Save(thread[r], FileOf(r, todo[r]))
  /\ todo' = [todo EXCEPT ![r] = @ - 1]
  /\ draft' = [draft EXCEPT ![r].archivos = @ \cup { FileOf(r, todo[r]) }]
  /\ UNCHANGED <<Column, responsible, batches, pc, thread, reading>>

\* The disk refuses it: ROLLBACK, and to the except branch.
UploadBreaks(r) ==
  /\ pc[r] = "storing" /\ todo[r] > 0
  /\ SaveBreaks(thread[r], FileOf(r, todo[r]))
  /\ Goto(r, "cleaning")
  /\ UNCHANGED <<Column, responsible, batches, thread, todo, draft, reading>>

\* Any other exception before the COMMIT.
Abort(r) ==
  /\ pc[r] = "storing"
  /\ DropHooks(thread[r])
  /\ Goto(r, "cleaning")
  /\ UNCHANGED <<Column, responsible, batches, thread, todo, draft, reading>>

\* Mutant: the callbacks are registered outside the transaction that commits.
CommitWithoutHooks(r) ==
  /\ pc[r] = "storing" /\ todo[r] = 0
  /\ batches' = batches \cup {draft[r]}
  /\ DropHooks(thread[r])
  /\ Goto(r, "renaming")
  /\ UNCHANGED <<Column, responsible, thread, todo, draft, reading>>

\* The batch and its archivos are inserted, read back, and committed.
Commit(r) ==
  /\ pc[r] = "storing" /\ todo[r] = 0
  /\ batches' = batches \cup {draft[r]}
  /\ Goto(r, "renaming")
  /\ UNCHANGED <<Column, responsible, thread, todo, draft, reading, storage>>

\* Mutant: on_commit(robust=True), a callback that fails is only logged.
RunHookRobust(r) ==
  /\ pc[r] = "renaming"
  /\ \/ Rename(thread[r]) /\ UNCHANGED pc
     \/ RenameBreaks(thread[r]) /\ UNCHANGED pc
     \/ hooks[thread[r]] = <<>> /\ Goto(r, "done") /\ UNCHANGED storage
  /\ UNCHANGED <<Column, responsible, batches, thread, todo, draft, reading>>

\* The callbacks, still inside the try: the first that raises ends them.
RunHook(r) ==
  /\ pc[r] = "renaming"
  /\ \/ Rename(thread[r]) /\ UNCHANGED pc
     \/ RenameBreaks(thread[r]) /\ Goto(r, "cleaning")
     \/ hooks[thread[r]] = <<>> /\ Goto(r, "done") /\ UNCHANGED storage
  /\ UNCHANGED <<Column, responsible, batches, thread, todo, draft, reading>>

\* The except branch: sweep and re-raise, the user is told it failed.
Sweep(r) ==
  /\ pc[r] = "cleaning"
  /\ CleanupPending(thread[r])
  /\ Goto(r, "failed")
  /\ UNCHANGED <<Column, responsible, batches, thread, todo, draft, reading>>

\* The worker is killed, or the 60 s timeout raises SystemExit in it, which the except
\* branch passes by: either may cut a sweep short.
Crash(r) ==
  /\ pc[r] \in Running
  /\ IF pc[r] = "cleaning" THEN CutCleanup(thread[r]) ELSE ForgetThread(thread[r])
  /\ Goto(r, "crashed")
  /\ UNCHANGED <<Column, responsible, batches, thread, todo, draft, reading>>

(***************************************************************************)
(* The GETs.                                                               *)
(***************************************************************************)
\* Mutant: the solicitante sees whatever there is.
OwnerReadsAlways(f, u, role) == role = "ADMIN" \/ role = responsible[f] \/ u = Owner[f]

\* _can_read.
CanRead(f, u, role) ==
  \/ role = "ADMIN"
  \/ role = responsible[f]
  \/ u = Owner[f] /\ estado[f] = "FINALIZADA"

\* open_for_download: the archivo row first ...
FindArchivo(g) ==
  /\ at[g] = "idle"
  /\ \E b \in batches, u \in Users : \E x \in b.archivos, role \in RolesOf[u] :
       ask' = [ask EXCEPT ![g] = [folio |-> b.folio, actor |-> u, role |-> role,
                                  files |-> {x}]]
  /\ at' = [at EXCEPT ![g] = "found"]
  /\ UNCHANGED <<Column, responsible, batches, posting, storage>>

\* ... then the permission ...
AuthorizeDownload(g) ==
  /\ at[g] = "found"
  /\ at' = [at EXCEPT ![g] =
              IF CanRead(ask[g].folio, ask[g].actor, ask[g].role) THEN "cleared" ELSE "denied"]
  /\ UNCHANGED <<Column, responsible, batches, posting, ask, storage>>

\* ... then the bytes: FileNotFoundError is a server error.
OpenFile(g) ==
  /\ at[g] = "cleared"
  /\ at' = [at EXCEPT ![g] = IF ask[g].files \subseteq final THEN "served" ELSE "missing"]
  /\ UNCHANGED <<Column, responsible, batches, posting, ask, storage>>

\* list_for_solicitud: the permission, or an empty list ...
AuthorizeList(g) ==
  /\ at[g] = "idle"
  /\ \E f \in Folios, u \in Users : \E role \in RolesOf[u] :
       /\ ask' = [ask EXCEPT ![g] = [folio |-> f, actor |-> u, role |-> role, files |-> {}]]
       /\ at' = [at EXCEPT ![g] = IF CanRead(f, u, role) THEN "listing" ELSE "denied"]
  /\ UNCHANGED <<Column, responsible, batches, posting, storage>>

\* ... then the batches with their archivos.
ReadList(g) ==
  /\ at[g] = "listing"
  /\ ask' = [ask EXCEPT ![g].files =
               UNION { b.archivos : b \in { c \in batches : c.folio = ask[g].folio } }]
  /\ at' = [at EXCEPT ![g] = "listed"]
  /\ UNCHANGED <<Column, responsible, batches, posting, storage>>

\* Another request's transition commits.
Transition(f) == Move(f) /\ UNCHANGED <<responsible, batches, posting, reading, storage>>

\* An administrator edits the tipo of f.
EditTipo(f) ==
  /\ \E role \in CatalogueRoles \ {responsible[f]} :
       responsible' = [responsible EXCEPT ![f] = role]
  /\ UNCHANGED <<Column, batches, posting, reading, storage>>

\* What the thread that runs r does next of its own.
Step(r) ==
  Begin(r) \/ StoreUpload(r) \/ Commit(r) \/ RunHook(r) \/ Sweep(r)

Fault(r) == UploadBreaks(r) \/ Abort(r) \/ Crash(r)

Read(g) ==
  \/ FindArchivo(g) \/ AuthorizeDownload(g) \/ OpenFile(g)
  \/ AuthorizeList(g) \/ ReadList(g)

Next ==
  \/ \E r \in Requests : Step(r) \/ Fault(r) \/ \E t \in Threads : Admit(r, t)
  \/ \E g \in Readers : Read(g)
  \/ \E f \in Folios : Transition(f) \/ EditTipo(f)

Spec == Init /\ [][Next]_vars
-----------------------------------------------------------------------------
TypeOK ==
  /\ estado \in [Folios -> Estados]
  /\ past \in [Folios -> SUBSET Estados]
  /\ responsible \in [Folios -> CatalogueRoles]
  /\ batches \subseteq Batch
  /\ pc \in [Requests -> {"idle"} \cup Running \cup Ended]
  /\ thread \in [Requests -> Threads \cup {NoThread}]
  /\ todo \in [Requests -> Nat]
  /\ draft \in [Requests -> Batch]
  /\ at \in [Readers -> {"idle", "found", "cleared", "served", "missing",
                         "listing", "listed", "denied"}]
  /\ ask \in [Readers -> Asked]
  /\ partial \subseteq Files
  /\ final \subseteq Files
  /\ pending \in [Threads -> SUBSET Files]
  /\ hooks \in [Threads -> Seq(Files)]
  /\ logged \subseteq Files

\* What the stale guard leaves of the upload window: an answer was written by
\* a reviewer, on a solicitud that somebody had taken before.
AnswersFollowATake ==
  \A b \in batches : "EN_PROCESO" \in past[b.folio] /\ b.role \in ReviewerRoles

\* Whoever is told "Respuesta adjuntada" has delivered every file of the form,
\* under its final name, in one committed batch.
SuccessIsWhole ==
  \A r \in Requests : pc[r] = "done" =>
    \E b \in batches :
      /\ b.req = r
      /\ b.archivos = { FileOf(r, i) : i \in 1 .. b.posted }
      /\ b.archivos \subseteq final

\* Whoever is told it failed has delivered nothing, or a batch whose trouble is
\* in the log: one of its files has an archivos.* line.
FailureIsUndoneOrLogged ==
  \A b \in batches : pc[b.req] = "failed" => \E x \in b.archivos : x \in logged

\* What the person who answers is told is true of the batch, although a failed
\* callback takes a committed POST through the except branch too.
OutcomeIsTrue == SuccessIsWhole /\ FailureIsUndoneOrLogged

\* A file gets its final name only for a committed archivo row.
FinalFilesHaveRows == \A x \in final : \E b \in batches : x \in b.archivos

\* The visibility matrix over time: who is neither admin nor of a responsible
\* role reads an answer only as the owner, and after a FINALIZADA.
SolicitanteReadsAfterFinal ==
  \A g \in Readers :
    at[g] \in {"cleared", "served", "missing", "listing", "listed"} /\ ask[g].role \notin ReviewerRoles =>
      /\ ask[g].actor = Owner[ask[g].folio]
      /\ "FINALIZADA" \in past[ask[g].folio]

\* A permitted download without bytes is never a silent loss: the file has come
\* meanwhile, or its POST is between COMMIT and rename, died there, or failed
\* with a log line.
MissingIsExplained ==
  \A g \in Readers : at[g] = "missing" =>
    \A x \in ask[g].files :
      \/ x \in final
      \/ pc[x[1]] \in {"renaming", "cleaning", "crashed"}
      \/ pc[x[1]] = "failed" /\ \E b \in batches : b.req = x[1] /\ b.archivos \cap logged # {}

\* The thread's list never carries a file over to another request, although
\* create_batch sweeps only when it fails.
SweepIsPrivate ==
  \A t \in Threads : \A x \in pending[t] :
    pc[x[1]] \in Running /\ thread[x[1]] = t

(***************************************************************************)
(* The inductive strengthening: where a batch and each of its files are    *)
(* between the stale guard and the answer to the user.                     *)
(***************************************************************************)
\* A batch may be visible to others from the COMMIT on.
Committed == {"renaming", "cleaning", "done", "failed", "crashed"}

Scheduled(x, t) == \E i \in DOMAIN hooks[t] : hooks[t][i] = x

PresentIsPast == \A f \in Folios : estado[f] \in past[f]

RunningFollowATake ==
  \A r \in Requests : pc[r] \in Running =>
    "EN_PROCESO" \in past[draft[r].folio] /\ draft[r].role \in ReviewerRoles

TakeInv == PresentIsPast /\ RunningFollowATake /\ AnswersFollowATake

\* The files stored so far are those of the form that are not still to come.
DraftsCountDown ==
  \A r \in Requests :
    /\ draft[r].req = r
    /\ todo[r] <= draft[r].posted
    /\ draft[r].archivos = { FileOf(r, i) : i \in todo[r] + 1 .. draft[r].posted }

BatchesAreDrafts ==
  \A b \in batches :
    /\ b = draft[b.req] /\ todo[b.req] = 0
    /\ pc[b.req] \in Committed

ThreadsServeOne ==
  \A r \in Requests : pc[r] \in Running =>
    /\ thread[r] \in Threads
    /\ \A s \in Requests \ {r} : pc[s] \in Running => thread[s] # thread[r]

HooksAreOfTheDraft ==
  \A t \in Threads : \A i \in DOMAIN hooks[t] :
    LET x == hooks[t][i] IN
    /\ pc[x[1]] \in {"storing", "renaming"} /\ thread[x[1]] = t
    /\ x \in draft[x[1]].archivos
    /\ x \in partial
    /\ \A j \in DOMAIN hooks[t] : hooks[t][j] = x => j = i

StoredAreScheduled ==
  \A r \in Requests : pc[r] \in {"admitted", "storing"} =>
    \A x \in draft[r].archivos : Scheduled(x, thread[r])

RenamedOrScheduled ==
  \A r \in Requests : pc[r] = "renaming" =>
    /\ draft[r] \in batches
    /\ \A x \in draft[r].archivos : x \in final \/ Scheduled(x, thread[r])

PendingIsStored ==
  \A t \in Threads : \A x \in pending[t] :
    \/ pc[x[1]] \in {"storing", "renaming"} /\ Scheduled(x, t)
    \/ pc[x[1]] = "cleaning"

FileInv ==
  /\ DraftsCountDown
  /\ BatchesAreDrafts
  /\ ThreadsServeOne
  /\ HooksAreOfTheDraft
  /\ StoredAreScheduled
  /\ RenamedOrScheduled
  /\ PendingIsStored
  /\ SweepIsPrivate
  /\ FinalFilesHaveRows

DoneIsWhole ==
  \A r \in Requests : pc[r] = "done" =>
    draft[r] \in batches /\ draft[r].archivos \subseteq final

TroubleIsLogged ==
  \A r \in Requests : pc[r] \in {"cleaning", "failed"} /\ draft[r] \in batches =>
    \E x \in draft[r].archivos : x \in logged

AskedAreFiled ==
  \A g \in Readers : at[g] \in {"found", "cleared", "served", "missing"} =>
    \E b \in batches : ask[g].files \subseteq b.archivos

OutcomeInv ==
  /\ DoneIsWhole
  /\ TroubleIsLogged
  /\ AskedAreFiled
  /\ SolicitanteReadsAfterFinal

IInv == TypeOK /\ TakeInv /\ FileInv /\ OutcomeInv
-----------------------------------------------------------------------------
\* What the committed batches name.
Named == { b.archivos : b \in batches }

Store == INSTANCE Archivos WITH rows <- Named, cut <- {}

\* Answering implements the Archivos, although it sweeps only when it fails: no
\* batch is committed without the bytes of its files, and no later request of the
\* thread takes one from a committed batch before the log has a line about it.
ImplementsArchivos == Store!Contract

\* What follows for whoever opens a file, also of requests that were killed.
BytesAreKept == Store!BytesAreKept
=============================================================================
