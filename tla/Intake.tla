------------------------------- MODULE Intake -------------------------------
(***************************************************************************)
(* Filing a solicitud: the POST of CreateSolicitudView, from the tipo it   *)
(* reads to the sweep of its files.                                        *)
(*                                                                         *)
(* The view opens ONE transaction around IntakeService.create and the      *)
(* uploads.  create's own atomic() inside it is a savepoint: what create   *)
(* does "after" it, the notification, still runs before the COMMIT and     *)
(* with two rows locked: the folio counter of the year, and the User row   *)
(* of the solicitante when SIGA has just given it new values.  Meanwhile   *)
(* other requests file, and an administrator edits the tipo that each      *)
(* request reads four times.                                               *)
(***************************************************************************)
EXTENDS LocalStorage

CONSTANTS
  Requests,   \* the POSTs
  Users,      \* the persons who file
  Sender,     \* Sender[r]: whose token the request carries
  Threads,    \* worker threads; a sync worker process has one
  Versions,   \* the values the tipo row takes
  Years,      \* calendar years
  UploadSets, \* the files a POST may carry, in the order request.FILES has them
  NoRequest,  \* not a request: the owner of a free row
  NoThread    \* not a thread: where a request that has not begun runs

Kinds   == {"form", "comprobante"}
Version == [activo: BOOLEAN, admits: BOOLEAN, pays: BOOLEAN, exempts: BOOLEAN, campos: Nat]

ASSUME SenderAssumption   == Sender \in [Requests -> Users]
ASSUME VersionsAssumption == Versions # {} /\ Versions \subseteq Version
ASSUME YearsAssumption    == Years # {} /\ Years \subseteq Nat
ASSUME UploadsAssumption  == UploadSets \subseteq Seq(Kinds)
ASSUME NoReqAssumption    == NoRequest \notin Requests
ASSUME NoThrAssumption    == NoThread \notin Threads

VARIABLES
  tipo,         \* the committed tipo row and its fields
  editing,      \* whether an administrator's edit has that row locked
  clock,        \* the current year (UTC)
  counter,      \* counter[y]: FolioCounter.last, 0 while there is no row
  counterLock,  \* counterLock[y]: who holds that row until its transaction ends
  userLock,     \* userLock[u]: the same for the User row of a person
  solicitudes,  \* solicitudes[y]: the committed rows, with their archivos
  announced,    \* the <<year, n, request>> of the creation mails that left
  pc,           \* pc[r]: how far the request is
  thread,       \* thread[r]: the worker thread that runs it
  mentor,       \* mentor[r]: the local is_mentor
  todo,         \* todo[r]: the uploads of request.FILES still to store
  year,         \* year[r]: the year of its folio
  draft         \* draft[r]: the solicitud it is writing, uncommitted

intake == <<tipo, editing, clock, counter, counterLock, userLock, solicitudes, announced>>
locals == <<thread, mentor, todo, year, draft>>
vars   == <<intake, pc, locals, storage>>

Files == Requests \X Nat

\* An ArchivoSolicitud row: its file, and what it is of.
Archivo == Files \X Kinds

\* seen and asked record what the form showed: no column holds them.
Row == [n: Nat, req: Requests, asked: BOOLEAN, requierePago: BOOLEAN,
        pagoExento: BOOLEAN, seen: Nat, snapshot: Nat,
        archivos: SUBSET Archivo]

EmptyRow(r) == [n |-> 0, req |-> r, asked |-> FALSE, requierePago |-> FALSE,
                pagoExento |-> FALSE, seen |-> 0, snapshot |-> 0, archivos |-> {}]
SomeYear == CHOOSE y \in Years : TRUE

\* The outer atomic() block, by what the request has done in it.
InBlock == {"priced", "snapped", "answered", "ready", "filed", "storing"}
\* The folio counter row is locked from the allocation to the end of the block.
Holding == {"filed", "storing"}
Running == {"opened", "previewing", "valid", "renaming", "cleaning", "dying"} \cup InBlock
Ended   == {"ended", "crashed", "interrupted"}
\* Where a request is when its block is behind it.
Past    == {"renaming", "cleaning", "dying"} \cup Ended

Init ==
  /\ tipo \in Versions
  /\ editing = FALSE
  /\ clock \in Years /\ \A y \in Years : clock <= y
  /\ counter = [y \in Years |-> 0]
  /\ counterLock = [y \in Years |-> NoRequest]
  /\ userLock = [u \in Users |-> NoRequest]
  /\ solicitudes = [y \in Years |-> {}]
  /\ announced = {}
  /\ pc = [r \in Requests |-> "idle"]
  /\ thread = [r \in Requests |-> NoThread]
  /\ mentor = [r \in Requests |-> FALSE]
  /\ todo = [r \in Requests |-> <<>>]
  /\ year = [r \in Requests |-> SomeYear]
  /\ draft = [r \in Requests |-> EmptyRow(r)]
  /\ StorageInit(Threads)

Free(t) == \A r \in Requests : pc[r] \in Running => thread[r] # t

Goto(r, step) == pc' = [pc EXCEPT ![r] = step]

\* The response is sent: the locals are gone and the thread serves another.
End(r, how) ==
  /\ Goto(r, how)
  /\ thread' = [thread EXCEPT ![r] = NoThread]
  /\ mentor' = [mentor EXCEPT ![r] = FALSE]
  /\ todo' = [todo EXCEPT ![r] = <<>>]
  /\ year' = [year EXCEPT ![r] = SomeYear]
  /\ draft' = [draft EXCEPT ![r] = EmptyRow(r)]

\* pago_exento and _needs_comprobante, of the same three facts.
Exento(v, isMentor)           == v.pays /\ v.exempts /\ isMentor
NeedsComprobante(v, isMentor) == v.pays /\ ~(v.exempts /\ isMentor)

Due(row) == row.requierePago /\ ~row.pagoExento
HasComprobante(row) == \E a \in row.archivos : a[2] = "comprobante"

\* Who has the User row of the sender of r locked.
RowOwner(r) == userLock[Sender[r]]
-----------------------------------------------------------------------------
(***************************************************************************)
(* Before the block.                                                       *)
(***************************************************************************)
\* The middleware writes the claims to the User row, and waits for it.  Then
\* is_mentor and get_for_creator: active and open to the role, or Unauthorized.
Open(r, t) ==
  /\ pc[r] = "idle" /\ Free(t)
  /\ RowOwner(r) = NoRequest
  /\ \/ /\ tipo.activo /\ tipo.admits
        /\ \E isMentor \in BOOLEAN :
             /\ mentor' = [mentor EXCEPT ![r] = isMentor]
             /\ draft' = [draft EXCEPT ![r].asked = NeedsComprobante(tipo, isMentor)]
        /\ thread' = [thread EXCEPT ![r] = t]
        /\ Goto(r, "opened")
        /\ UNCHANGED <<todo, year>>
     \/ /\ ~(tipo.activo /\ tipo.admits)
        /\ Goto(r, "ended")
        /\ UNCHANGED locals
  /\ UNCHANGED <<intake, storage>>

\* snapshot, the form built from it, preview and is_valid: the comprobante is
\* required exactly when the form asks for it.  Where SIGA answers the preview,
\* what it says is written to the User row first.
ValidateForm(r) ==
  /\ pc[r] = "opened"
  /\ \/ /\ tipo.activo
        /\ \E files \in UploadSets :
             /\ draft[r].asked => \E i \in DOMAIN files : files[i] = "comprobante"
             /\ todo' = [todo EXCEPT ![r] = files]
        /\ draft' = [draft EXCEPT ![r].seen = tipo.campos]
        /\ Goto(r, "valid") \/ Goto(r, "previewing")
        /\ UNCHANGED <<thread, mentor, year>>
     \/ End(r, "ended")
  /\ UNCHANGED <<intake, storage>>

\* hydrate_from_siga before the block: a transaction of its own, short but for the
\* wait for the row.
Preview(r) ==
  /\ pc[r] = "previewing"
  /\ RowOwner(r) = NoRequest
  /\ \/ Goto(r, "valid") /\ UNCHANGED locals
     \/ End(r, "ended")
  /\ UNCHANGED <<intake, storage>>

(***************************************************************************)
(* Inside the block: IntakeService.create, then the uploads.               *)
(***************************************************************************)
\* get_for_admin and the second check of the role.
ReadTipo(r) ==
  /\ pc[r] = "valid"
  /\ IF tipo.activo /\ tipo.admits
     THEN /\ draft' = [draft EXCEPT ![r] = [@ EXCEPT !.requierePago = tipo.pays,
                                                     !.pagoExento = Exento(tipo, mentor[r])]]
          /\ Goto(r, "priced")
     ELSE Goto(r, "cleaning") /\ UNCHANGED draft
  /\ UNCHANGED <<intake, thread, mentor, todo, year, storage>>

\* snapshot again, now for the row.  resolve has nothing to ask SIGA, or gets no
\* answer ("snapped"), or one that it must write to the User row.
ReadSnapshot(r) ==
  /\ pc[r] = "priced"
  /\ IF tipo.activo
     THEN /\ draft' = [draft EXCEPT ![r].snapshot = tipo.campos]
          /\ Goto(r, "snapped") \/ Goto(r, "answered")
     ELSE Goto(r, "cleaning") /\ UNCHANGED draft
  /\ UNCHANGED <<intake, thread, mentor, todo, year, storage>>

\* resolve, and the year.  The update_or_create of hydrate_from_siga is a SELECT
\* FOR UPDATE in the transaction of the view, which keeps the row to its end.
Resolve(r) ==
  /\ \/ pc[r] = "snapped" /\ UNCHANGED userLock
     \/ /\ pc[r] = "answered" /\ RowOwner(r) = NoRequest
        /\ userLock' = [userLock EXCEPT ![Sender[r]] = r]
  /\ year' = [year EXCEPT ![r] = clock]
  /\ Goto(r, "ready")
  /\ UNCHANGED <<tipo, editing, clock, counter, counterLock, solicitudes, announced,
                 thread, mentor, todo, draft, storage>>

\* Mutant: allocate without select_for_update.
LeaveCounter(r, y) == UNCHANGED counterLock

\* Mutant: one lock for the counters of all years.
LockAllCounters(r, y) ==
  /\ \A z \in Years : counterLock[z] = NoRequest
  /\ counterLock' = [counterLock EXCEPT ![y] = r]

\* select_for_update: waits for the counter row, or for the insertion of it.
LockCounter(r, y) ==
  /\ counterLock[y] = NoRequest
  /\ counterLock' = [counterLock EXCEPT ![y] = r]

\* next_folio, solicitud and historial: nobody sees the rows before the COMMIT.
FileSolicitud(r) ==
  LET y == year[r] IN
  /\ pc[r] = "ready"
  /\ LockCounter(r, y)
  /\ draft' = [draft EXCEPT ![r].n = counter[y] + 1]
  /\ Goto(r, "filed")
  /\ UNCHANGED <<tipo, editing, clock, counter, userLock, solicitudes, announced, thread,
                 mentor, todo, year, storage>>

\* Mutant: the folio before this one.
StaleFolio(r) == <<year[r], counter[year[r]], r>>

\* The folio create hands to the notifier.
NewFolio(r) == <<year[r], draft[r].n, r>>

\* notify_creation, audit and the detail: mails leave for a folio nobody else
\* can read yet.  Or none does: nobody to tell, or SMTP refuses and the error is
\* swallowed.
NotifyCreation(r) ==
  /\ pc[r] = "filed"
  /\ announced' \in { announced, announced \cup {NewFolio(r)} }
  /\ Goto(r, "storing")
  /\ UNCHANGED <<tipo, editing, clock, counter, counterLock, userLock, solicitudes, locals,
                 storage>>

\* What the next upload is.
NextKind(r) == Head(todo[r])

\* The fresh name (uuid4) it gets.
NextFile(r) == <<r, Len(todo[r])>>

\* The row of that upload.
NewArchivo(r) == <<NextFile(r), NextKind(r)>>

\* Mutant: no look at the debt.
AnyAllowed(r) == TRUE

\* store_for_solicitud: a comprobante only where one is due.
Allowed(r) == NextKind(r) = "comprobante" => Due(draft[r])

\* store_for_solicitud: the bytes, then the archivo row.
StoreUpload(r) ==
  /\ pc[r] = "storing" /\ todo[r] # <<>>
  /\ Allowed(r)
  /\ Save(thread[r], NextFile(r))
  /\ todo' = [todo EXCEPT ![r] = Tail(@)]
  /\ draft' = [draft EXCEPT ![r].archivos = @ \cup { NewArchivo(r) }]
  /\ UNCHANGED <<intake, pc, thread, mentor, year>>

\* Mutant: the error of the disk is swallowed, and the archivo row written.
UploadAnyway(r) ==
  /\ pc[r] = "storing" /\ todo[r] # <<>>
  /\ todo' = [todo EXCEPT ![r] = Tail(@)]
  /\ draft' = [draft EXCEPT ![r].archivos = @ \cup { NewArchivo(r) }]
  /\ UNCHANGED <<intake, pc, thread, mentor, year, storage>>

\* Mutant: the transaction stays open.
KeepLocks(r) == UNCHANGED intake

\* The transaction of r has ended: its rows are free.
Unlock(r) ==
  /\ counterLock' = [y \in Years |-> IF counterLock[y] = r THEN NoRequest ELSE counterLock[y]]
  /\ userLock' = [u \in Users |-> IF userLock[u] = r THEN NoRequest ELSE userLock[u]]

\* Without COMMIT: nothing of it stays but the mails.
FreeLocks(r) ==
  /\ Unlock(r)
  /\ UNCHANGED <<tipo, editing, clock, counter, solicitudes, announced>>

\* An exception leaves the block: ROLLBACK, and on to the finally of the view.
RollBack(r) ==
  /\ DropHooks(thread[r])
  /\ FreeLocks(r)
  /\ Goto(r, "cleaning")
  /\ UNCHANGED locals

\* store_for_solicitud: a comprobante nobody owes.
RefuseUpload(r) ==
  /\ pc[r] = "storing" /\ todo[r] # <<>>
  /\ ~Allowed(r)
  /\ RollBack(r)

\* The disk refuses the bytes of the next upload.
UploadBreaks(r) ==
  /\ pc[r] = "storing" /\ todo[r] # <<>>
  /\ SaveBreaks(thread[r], NextFile(r))
  /\ FreeLocks(r)
  /\ Goto(r, "cleaning")
  /\ UNCHANGED locals

\* Any other exception in the block: a missing auto-fill value, an upload of the
\* wrong type or size, a template of the mail, the database, for one when it
\* breaks a deadlock.
Abort(r) == pc[r] \in InBlock /\ RollBack(r)

AtCommit(r) == pc[r] = "storing" /\ todo[r] = <<>>

\* The deferred foreign keys, checked at the COMMIT: a FOR KEY SHARE of the User row
\* and of the tipo row waits for another's FOR UPDATE.
KeysAreFree(r) == RowOwner(r) \in {NoRequest, r} /\ ~editing

\* COMMIT of the outer block: counter, solicitud, historial and archivos at once.
Commit(r) ==
  LET y == year[r] IN
  /\ AtCommit(r) /\ KeysAreFree(r)
  /\ counter' = [counter EXCEPT ![y] = draft[r].n]
  /\ solicitudes' = [solicitudes EXCEPT ![y] = @ \cup {draft[r]}]
  /\ Unlock(r)
  /\ Goto(r, "renaming")
  /\ UNCHANGED <<tipo, editing, clock, announced, locals, storage>>

(***************************************************************************)
(* After the block.                                                        *)
(***************************************************************************)
RunHook(r) ==
  /\ pc[r] = "renaming"
  /\ \/ Rename(thread[r]) /\ UNCHANGED pc
     \/ RenameBreaks(thread[r]) /\ Goto(r, "cleaning")
     \/ /\ hooks[thread[r]] = <<>>
        /\ Goto(r, "cleaning")
        /\ UNCHANGED storage
  /\ UNCHANGED <<intake, locals>>

\* The finally of the view, whatever the outcome.
Sweep(r) ==
  /\ pc[r] \in {"cleaning", "dying"}
  /\ CleanupPending(thread[r])
  /\ End(r, IF pc[r] = "dying" THEN "interrupted" ELSE "ended")
  /\ UNCHANGED intake

\* Where the interrupt finds the storage: a file half written and not noted, a rename
\* not made and off the list, or neither; no callback runs any more.
CutOff(r) ==
  \/ DropHooks(thread[r])
  \/ pc[r] = "storing" /\ todo[r] # <<>> /\ SaveBreaks(thread[r], NextFile(r))
  \/ pc[r] = "renaming" /\ RenameIsCut(thread[r])

\* The 60 s timeout of the server: SIGABRT raises SystemExit in the worker's thread.
\* An open block rolls back, callbacks still to come are lost, the except branch is
\* passed by and the finally of the view sweeps.
Interrupt(r) ==
  /\ pc[r] \in InBlock \cup {"renaming"}
  /\ CutOff(r)
  /\ FreeLocks(r)
  /\ Goto(r, "dying")
  /\ UNCHANGED locals

\* The worker is killed, by the SIGKILL that follows the SIGABRT for one: the
\* database rolls back what is open, the disk keeps what it has.  What was dying is
\* dead; a sweep may be under way.
Crash(r) ==
  /\ pc[r] \in Running
  /\ IF pc[r] \in {"cleaning", "dying"} THEN CutCleanup(thread[r]) ELSE ForgetThread(thread[r])
  /\ FreeLocks(r)
  /\ End(r, IF pc[r] = "dying" THEN "interrupted" ELSE "crashed")

\* An administrator's edit locks the tipo row, and saves what it likes or nothing.
BeginEdit ==
  /\ ~editing /\ editing' = TRUE
  /\ UNCHANGED <<tipo, clock, counter, counterLock, userLock, solicitudes, announced, pc,
                 locals, storage>>

EndEdit ==
  /\ editing /\ editing' = FALSE
  /\ tipo' \in Versions
  /\ UNCHANGED <<clock, counter, counterLock, userLock, solicitudes, announced, pc, locals,
                 storage>>

\* deactivate: one UPDATE, which no foreign key waits for.
Deactivate ==
  /\ ~editing /\ tipo.activo
  /\ tipo' \in Versions \cap { [tipo EXCEPT !.activo = FALSE] }
  /\ UNCHANGED <<editing, clock, counter, counterLock, userLock, solicitudes, announced, pc,
                 locals, storage>>

NewYear ==
  /\ clock + 1 \in Years
  /\ clock' = clock + 1
  /\ UNCHANGED <<tipo, editing, counter, counterLock, userLock, solicitudes, announced, pc,
                 locals, storage>>

\* What the thread that runs r does next of its own.
Step(r) ==
  \/ ValidateForm(r) \/ Preview(r) \/ ReadTipo(r) \/ ReadSnapshot(r) \/ Resolve(r)
  \/ FileSolicitud(r) \/ NotifyCreation(r) \/ StoreUpload(r) \/ RefuseUpload(r)
  \/ Commit(r) \/ RunHook(r) \/ Sweep(r)

\* What befalls it.
Fault(r) == UploadBreaks(r) \/ Abort(r) \/ Interrupt(r) \/ Crash(r)

\* What the administrators and the calendar do.
Environment == BeginEdit \/ EndEdit \/ Deactivate \/ NewYear

Next ==
  \/ \E r \in Requests : Step(r) \/ Fault(r) \/ \E t \in Threads : Open(r, t)
  \/ Environment

Spec == Init /\ [][Next]_vars

-----------------------------------------------------------------------------
TypeOK ==
  /\ tipo \in Versions
  /\ editing \in BOOLEAN
  /\ clock \in Years
  /\ counter \in [Years -> Nat]
  /\ counterLock \in [Years -> Requests \cup {NoRequest}]
  /\ userLock \in [Users -> Requests \cup {NoRequest}]
  /\ solicitudes \in [Years -> SUBSET Row]
  /\ announced \subseteq Years \X Nat \X Requests
  /\ pc \in [Requests -> {"idle"} \cup Running \cup Ended]
  /\ thread \in [Requests -> Threads \cup {NoThread}]
  /\ mentor \in [Requests -> BOOLEAN]
  /\ todo \in [Requests -> Seq(Kinds)]
  /\ year \in [Requests -> Years]
  /\ draft \in [Requests -> Row]
  /\ partial \subseteq Files
  /\ final \subseteq Files
  /\ pending \in [Threads -> SUBSET Files]
  /\ hooks \in [Threads -> Seq(Files)]
  /\ logged \subseteq Files

\* RF-LIF-04: the folios of a year are 1, 2, 3, ... with no gap and no number
\* used twice, although aborted and killed requests had taken theirs.
FoliosAreGapless ==
  \A y \in Years :
    /\ { row.n : row \in solicitudes[y] } = 1 .. counter[y]
    /\ \A a, b \in solicitudes[y] : a.n = b.n => a = b

\* The mails of a creation leave before the COMMIT that may never come, and the
\* number of a filing that was undone is given again.  Still no mail names a number
\* that the next COMMIT of its year does not reach, and the mails of a request that
\* did file name the folio it got.
MailsNameTheNextFolio ==
  \A mail \in announced :
    /\ mail[2] \in 1 .. counter[mail[1]] + 1
    /\ \A y \in Years : \A row \in solicitudes[y] :
         row.req = mail[3] => y = mail[1] /\ row.n = mail[2]

\* A file gets its final name only for a committed archivo row: what can be
\* downloaded is never the upload of a request that was undone.
FinalFilesHaveRows ==
  \A x \in final : \E y \in Years : \E row \in solicitudes[y] :
    \E a \in row.archivos : a[1] = x

\* The thread's list never carries a file over to another request, so a sweep
\* deletes what its own request wrote and nothing else.
SweepIsPrivate ==
  \A t \in Threads : \A x \in pending[t] :
    pc[x[1]] \in Running /\ thread[x[1]] = t

\* Nobody deletes a partial whose rename is still to come: the
\* commit_missing_partial branch of the callback is never taken.
HooksFindTheirPartial ==
  \A t \in Threads : \A i \in DOMAIN hooks[t] : hooks[t][i] \in partial

Noticed(row) ==
  \/ \A a \in row.archivos : a[1] \in final
  \/ \E a \in row.archivos : a[1] \in logged

\* A committed solicitud whose request ended alive has its files in place, or
\* the log names one of them.
MissingFilesAreNoticed ==
  \A y \in Years : \A row \in solicitudes[y] : pc[row.req] = "ended" => Noticed(row)

\* RF-INT-03/04: a comprobante is stored only where one is due; and where the
\* form and the row agree about the debt, one is stored whenever it is due.
ComprobanteMatchesDebt ==
  \A y \in Years : \A row \in solicitudes[y] :
    /\ HasComprobante(row) => Due(row)
    /\ row.asked /\ Due(row) => HasComprobante(row)

\* Who has the row that r needs now: the User row for what SIGA answered or for the
\* foreign key, the counter row for the folio.
WaitsFor(r, s) ==
  /\ s \in Requests
  /\ \/ pc[r] \in {"previewing", "answered"} /\ s = RowOwner(r)
     \/ pc[r] = "ready" /\ s = counterLock[year[r]]
     \/ AtCommit(r) /\ s = RowOwner(r) /\ s # r

\* Two filings of one person, in the two orders of the two rows: u has the User row
\* and waits for the counter, v has the counter and its COMMIT waits for the User row.
CrossedFilings(u, v) ==
  /\ u # v /\ Sender[u] = Sender[v]
  /\ pc[u] = "ready" /\ RowOwner(u) = u /\ counterLock[year[u]] # NoRequest
  /\ AtCommit(v) /\ counterLock[year[v]] = v

\* Rows are held through mails and disk writes, yet whoever waits for one waits for
\* another request that is under way; and wherever requests wait for each other in a
\* ring, two filings of one person are crossed in it: persons who file one solicitud
\* at a time never deadlock, whatever others do.
DeadlocksAreOfOnePerson ==
  /\ \A r, s \in Requests : WaitsFor(r, s) => s # r /\ pc[s] \in Running
  /\ \A S \in SUBSET Requests :
       S # {} /\ (\A r \in S : \E s \in S : WaitsFor(r, s)) =>
         \E u, v \in S : CrossedFilings(u, v)

\* Nothing but a row of another request, or of an edit at the COMMIT, stops a filing:
\* all others have a step without a fault, whatever was refused, aborted, swept or
\* interrupted before.  A request takes a bounded number of steps, so all that have
\* begun end if workers run and the database breaks its deadlocks.
OnlyLocksStop ==
  \A r \in Requests : pc[r] \in Running =>
    \/ \E s \in Requests : WaitsFor(r, s)
    \/ AtCommit(r) /\ editing
    \/ ENABLED Step(r)

\* How many stages a request has before it, and how much work in this one.
Distance(step) ==
  CASE step = "idle" -> 11 [] step = "opened" -> 10 [] step = "previewing" -> 9
    [] step = "valid" -> 8 [] step = "priced" -> 7 [] step \in {"snapped", "answered"} -> 6
    [] step = "ready" -> 5 [] step = "filed" -> 4 [] step = "storing" -> 3
    [] step = "renaming" -> 2 [] step \in {"cleaning", "dying"} -> 1
    [] OTHER -> 0

Left(r) ==
  CASE pc[r] = "storing" -> Len(todo[r])
    [] pc[r] = "renaming" -> Len(hooks[thread[r]])
    [] OTHER -> 0

Further(r) ==
  \/ Distance(pc'[r]) < Distance(pc[r])
  \/ pc'[r] = pc[r] /\ Left(r)' < Left(r)

StandsStill(r) == pc'[r] = pc[r] /\ Left(r)' = Left(r)

\* Each step of a request brings it nearer to its end, and nothing that happens
\* meanwhile, faults included, throws it back or gives it more to do: it has
\* finitely many steps.
StepsRunOut ==
  [][\A r \in Requests :
       /\ Further(r) \/ StandsStill(r)
       /\ Step(r) => Further(r)]_vars

(***************************************************************************)
(* The inductive strengthening.  FolioInv is about the counter row and the *)
(* tables, FileInv about threads, hooks and the disk.                      *)
(***************************************************************************)
\* Who has allocated holds the counter row, so the number is still the next one.
HoldersAreNext ==
  \A r \in Requests : pc[r] \in Holding =>
    /\ counterLock[year[r]] = r
    /\ draft[r].n = counter[year[r]] + 1

\* A counter row is held by a request that has a folio of that year and is still in
\* its block.
LocksAreHeld ==
  \A y \in Years : counterLock[y] # NoRequest =>
    pc[counterLock[y]] \in Holding /\ year[counterLock[y]] = y

\* The same for User rows, which are locked before the folio is known.
RowsAreHeld ==
  \A u \in Users : userLock[u] # NoRequest =>
    pc[userLock[u]] \in {"ready"} \cup Holding /\ Sender[userLock[u]] = u

RowsNameTheirRequest == \A r \in Requests : draft[r].req = r

\* A mail is of a request that has its folio, and names that folio while it runs.
MailsAreOfTheDraft ==
  \A mail \in announced :
    /\ pc[mail[3]] \in {"storing"} \cup Past
    /\ pc[mail[3]] = "storing" => mail = NewFolio(mail[3])

FiledArePast ==
  \A y \in Years : \A row \in solicitudes[y] : pc[row.req] \in Past

FolioInv ==
  /\ TypeOK
  /\ HoldersAreNext
  /\ RowsNameTheirRequest
  /\ MailsAreOfTheDraft
  /\ FiledArePast
  /\ FoliosAreGapless
  /\ MailsNameTheNextFolio

ThreadsServeOne ==
  \A r \in Requests : pc[r] \in Running =>
    /\ thread[r] \in Threads
    /\ \A s \in Requests \ {r} : pc[s] \in Running => thread[s] # thread[r]

\* A rename still to come is of an archivo of the row whose transaction is open
\* or just committed on that thread, and no name is scheduled twice.
HooksAreOfTheRow ==
  \A t \in Threads : \A i \in DOMAIN hooks[t] :
    LET x == hooks[t][i]
        r == x[1] IN
    /\ pc[r] \in {"storing", "renaming"}
    /\ thread[r] = t
    /\ \E a \in draft[r].archivos : a[1] = x
    /\ x[2] > Len(todo[r])
    /\ \A j \in DOMAIN hooks[t] : hooks[t][j] = x => j = i

\* Only a request that has reached its uploads is on the list of its thread.
PendingIsStored ==
  \A t \in Threads : \A x \in pending[t] : pc[x[1]] \in {"storing", "renaming", "cleaning", "dying"}

RenamingIsCommitted ==
  \A r \in Requests : pc[r] = "renaming" => draft[r] \in solicitudes[year[r]]

FileInv ==
  /\ ThreadsServeOne
  /\ HooksAreOfTheRow
  /\ PendingIsStored
  /\ RenamingIsCommitted
  /\ FinalFilesHaveRows
  /\ SweepIsPrivate
  /\ HooksFindTheirPartial

\* What the form asks for is among what is stored or still to store, and a
\* comprobante that is stored was due.
DebtOf(r) ==
  /\ pc[r] \in {"previewing", "valid"} \cup InBlock /\ draft[r].asked =>
       HasComprobante(draft[r]) \/ \E i \in DOMAIN todo[r] : todo[r][i] = "comprobante"
  /\ pc[r] \in ({"idle", "opened", "previewing", "valid"} \cup InBlock) \ {"storing"} =>
       draft[r].archivos = {}
  /\ pc[r] = "storing" /\ HasComprobante(draft[r]) => Due(draft[r])

Scheduled(t, x) == \E i \in DOMAIN hooks[t] : hooks[t][i] = x

\* Every archivo has its rename still to come, until the renames begin; from then
\* on it has been renamed, is still to be, or one of its row was logged.
RenamesOf(r) ==
  /\ pc[r] = "storing" => \A a \in draft[r].archivos : Scheduled(thread[r], a[1])
  /\ \A y \in Years : \A row \in solicitudes[y] : row.req = r =>
       /\ pc[r] \in Past
       /\ pc[r] = "renaming" =>
            /\ row = draft[r]
            /\ \A a \in row.archivos : a[1] \in final \/ Scheduled(thread[r], a[1])
       /\ pc[r] \in {"cleaning", "ended"} => Noticed(row)

UploadInv == ComprobanteMatchesDebt /\ \A r \in Requests : DebtOf(r) /\ RenamesOf(r)

IInv == FolioInv /\ FileInv

\* The names a draft or a row has are those its own request drew.
NamesAreOwn ==
  /\ \A r \in Requests : pc[r] = "storing" => \A a \in draft[r].archivos : a[1][1] = r
  /\ \A y \in Years : \A row \in solicitudes[y] : \A a \in row.archivos : a[1][1] = row.req

NameInv == NamesAreOwn /\ partial \cap final = {}
-----------------------------------------------------------------------------
\* The committed rows, and the files they name.
Filed == UNION { solicitudes[y] : y \in Years }
FilesOf(row) == { a[1] : a \in row.archivos }
Named == { FilesOf(row) : row \in Filed }

\* Those whose request was interrupted after its COMMIT.
Interrupted == { row \in Filed : pc[row.req] \in {"dying", "interrupted"} }
CutFiles == UNION { FilesOf(row) : row \in Interrupted }

Store == INSTANCE Archivos WITH rows <- Named, cut <- CutFiles

\* Filing implements the Archivos: no solicitud is committed without the bytes of
\* its files, and no sweep, not even that of the next request of the thread, takes
\* one from a committed solicitud before the log has a line about it; only the
\* request that filed it does, when it is interrupted after its COMMIT.
ImplementsArchivos == Store!Contract

\* What follows for whoever opens a file, also of requests that were killed.
BytesAreKept == Store!BytesAreKept
=============================================================================
