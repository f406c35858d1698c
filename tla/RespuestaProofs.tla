-------------------------- MODULE RespuestaProofs --------------------------
(***************************************************************************)
(* Respuesta, proved for every set of requests, readers, threads, folios,  *)
(* users and forms.                                                        *)
(*                                                                         *)
(* TakeInv: the estado column never forgets, so what the stale guard read  *)
(* stays true of the past.  FileInv: a file is stored, then scheduled,     *)
(* then renamed, by the one request its thread runs.  OutcomeInv: what the *)
(* user is told agrees with the rows, the disk and the log.                *)
(*                                                                         *)
(* At the end, Respuesta implements Archivos step by step, and keeps with  *)
(* it that no committed batch loses a file before the log says so.         *)
(***************************************************************************)
EXTENDS Respuesta, TLAPS

USE DEF Column, posting, reading, storage

\* Nothing happens to the other POSTs.
OthersStay(r) ==
  \A s \in Requests \ {r} :
    /\ pc'[s] = pc[s] /\ thread'[s] = thread[s] /\ todo'[s] = todo[s]
    /\ draft'[s] = draft[s]

\* The responsible role of a folio is one that reviews.
LEMMA ResponsibleReviews ==
  ASSUME TypeOK, NEW f \in Folios
  PROVE  responsible[f] \in ReviewerRoles
BY CatalogueAssumption DEF TypeOK, ReviewerRoles

\* A batch, field by field.
LEMMA BatchType ==
  ASSUME NEW b \in Batch
  PROVE  /\ b.req \in Requests /\ b.folio \in Folios /\ b.role \in Roles
         /\ b.posted \in Nat /\ b.archivos \subseteq Files
BY DEF Batch

\* What the admission writes is a batch without files.
LEMMA NewDraftType ==
  ASSUME NEW r \in Requests, NEW f \in Folios, NEW role \in Roles, NEW p \in Payloads, NEW b,
         b = NewDraft(r, f, role, p)
  PROVE  /\ b \in Batch /\ b.req = r /\ b.folio = f /\ b.role = role
         /\ b.posted = p.files /\ b.archivos = {} /\ p.files \in Nat
<1> DEFINE S == SUBSET Files
<1>1. Batch = [req: Requests, folio: Folios, role: Roles, comentario: BOOLEAN,
               posted: Nat, archivos: S]
  BY DEF Batch
<1>2. {} \in S /\ p.files \in Nat /\ p.comentario \in BOOLEAN
  BY PayloadsAssumption DEF Payload
<1> HIDE DEF S
<1> QED
  BY <1>1, <1>2 DEF NewDraft

\* One more file.
LEMMA MoreFiles ==
  ASSUME NEW b \in Batch, NEW files \in SUBSET Files, NEW c,
         c = [b EXCEPT !.archivos = files]
  PROVE  /\ c \in Batch /\ c.req = b.req /\ c.folio = b.folio /\ c.role = b.role
         /\ c.posted = b.posted /\ c.archivos = files
<1> DEFINE S == SUBSET Files
<1>1. Batch = [req: Requests, folio: Folios, role: Roles, comentario: BOOLEAN,
               posted: Nat, archivos: S]
  BY DEF Batch
<1>2. files \in S
  OBVIOUS
<1> HIDE DEF S
<1> QED
  BY <1>1, <1>2

\* SomeFolio, and what a GET that has not asked holds.
LEMMA NoAskType == SomeFolio \in Folios /\ NoAsk \in Asked /\ \A r \in Requests : NoDraft(r) \in Batch
<1>1. SomeFolio \in Folios
  BY FoliosAssumption DEF SomeFolio
<1>2. Owner[SomeFolio] \in Users /\ "ADMIN" \in Roles /\ {} \in SUBSET Files
  BY <1>1, OwnerAssumption DEF Roles
<1>3. NoAsk \in Asked
  BY <1>1, <1>2 DEF NoAsk, Asked
<1>4. \A r \in Requests : NoDraft(r) \in Batch
  BY <1>1, <1>2 DEF NoDraft, Batch
<1> QED
  BY <1>1, <1>3, <1>4

\* r moves on and nobody else.
LEMMA PcUpdate ==
  ASSUME TypeOK, NEW r \in Requests, NEW step \in Running \cup Ended, Goto(r, step)
  PROVE  /\ pc' \in [Requests -> {"idle"} \cup Running \cup Ended] /\ pc'[r] = step
         /\ \A s \in Requests \ {r} : pc'[s] = pc[s]
  BY DEF TypeOK, Goto

\* r writes its own draft.
LEMMA DraftUpdate ==
  ASSUME TypeOK, NEW r \in Requests, NEW b \in Batch, draft' = [draft EXCEPT ![r] = b]
  PROVE  /\ draft' \in [Requests -> Batch] /\ draft'[r] = b
         /\ \A s \in Requests \ {r} : draft'[s] = draft[s]
  BY DEF TypeOK

\* The initial states.
LEMMA InitHolds == Init => IInv
<1> SUFFICES ASSUME Init PROVE IInv
  OBVIOUS
<1>1. TypeOK
  BY NoAskType DEF Init, ColumnInit, StorageInit, TypeOK, Estados, Running, Ended
<1>2. TakeInv
  BY DEF Init, ColumnInit, TakeInv, PresentIsPast, RunningFollowATake, AnswersFollowATake, Running
<1>3. DraftsCountDown
  <2> SUFFICES ASSUME NEW r \in Requests
               PROVE  /\ draft[r].req = r /\ todo[r] <= draft[r].posted
                      /\ draft[r].archivos = { FileOf(r, i) : i \in todo[r] + 1 .. draft[r].posted }
    BY DEF DraftsCountDown
  <2>1. todo[r] = 0 /\ draft[r].req = r /\ draft[r].posted = 0 /\ draft[r].archivos = {}
    BY DEF Init, NoDraft
  <2>2. todo[r] + 1 .. draft[r].posted = {}
    BY <2>1
  <2> QED
    BY <2>1, <2>2
<1>4. FileInv
  BY <1>3 DEF Init, StorageInit, FileInv, BatchesAreDrafts, ThreadsServeOne, HooksAreOfTheDraft,
     StoredAreScheduled, RenamedOrScheduled, PendingIsStored, SweepIsPrivate,
     FinalFilesHaveRows, Running
<1>5. OutcomeInv
  BY DEF Init, OutcomeInv, DoneIsWhole, TroubleIsLogged, AskedAreFiled, SolicitanteReadsAfterFinal
<1> QED
  BY <1>1, <1>2, <1>4, <1>5 DEF IInv
-----------------------------------------------------------------------------
(***************************************************************************)
(* What each action does, and that it keeps the types.                     *)
(***************************************************************************)
\* A POST is refused, or admitted with an empty draft on a solicitud in process.
LEMMA AdmitFacts ==
  ASSUME TypeOK, NEW r \in Requests, NEW t \in Threads, Admit(r, t)
  PROVE  /\ TypeOK' /\ OthersStay(r) /\ pc[r] = "idle" /\ Free(t)
         /\ UNCHANGED <<Column, batches, reading, storage>>
         /\ \/ pc'[r] = "refused" /\ UNCHANGED <<thread, todo, draft>>
            \/ /\ pc'[r] = "admitted" /\ thread'[r] = t
               /\ draft'[r].folio \in Folios /\ estado[draft'[r].folio] = "EN_PROCESO"
               /\ draft'[r].role \in ReviewerRoles
               /\ draft'[r].req = r /\ draft'[r].archivos = {}
               /\ draft'[r].posted \in Nat /\ todo'[r] = draft'[r].posted
<1> DEFINE Enters(f, p, role) ==
             /\ WindowOpen(f)
             /\ thread' = [thread EXCEPT ![r] = t]
             /\ todo' = [todo EXCEPT ![r] = p.files]
             /\ draft' = [draft EXCEPT ![r] = NewDraft(r, f, role, p)]
             /\ Goto(r, "admitted")
           Leaves == Goto(r, "refused") /\ UNCHANGED <<thread, todo, draft>>
<1>1. \E f \in Folios, u \in Users, p \in Payloads : \E role \in RolesOf[u] \cap ReviewerRoles :
        Enters(f, p, role) \/ Leaves
  BY DEF Admit
<1>2. PICK f \in Folios, u \in Users, p \in Payloads, role \in Roles \cap ReviewerRoles :
        Enters(f, p, role) \/ Leaves
  BY <1>1, RolesAssumption
<1>3. /\ pc[r] = "idle" /\ Free(t)
      /\ UNCHANGED <<Column, responsible, batches, reading, storage>>
  BY DEF Admit
<1>4. CASE Leaves
  <2>1. pc' \in [Requests -> {"idle"} \cup Running \cup Ended] /\ pc'[r] = "refused"
        /\ \A s \in Requests \ {r} : pc'[s] = pc[s]
    BY <1>4, PcUpdate DEF Ended
  <2>2. TypeOK'
    BY <1>3, <1>4, <2>1 DEF TypeOK
  <2> QED
    BY <1>3, <1>4, <2>1, <2>2 DEF OthersStay
<1>5. CASE Enters(f, p, role)
  <2> DEFINE b == NewDraft(r, f, role, p)
  <2>1. /\ b \in Batch /\ b.req = r /\ b.folio = f /\ b.role = role /\ b.posted = p.files
        /\ b.archivos = {} /\ p.files \in Nat
    BY NewDraftType
  <2>3. draft' = [draft EXCEPT ![r] = b]
    BY <1>5
  <2> HIDE DEF b
  <2>4. /\ draft' \in [Requests -> Batch] /\ draft'[r] = b
        /\ \A s \in Requests \ {r} : draft'[s] = draft[s]
    BY <2>1, <2>3, DraftUpdate
  <2>5. pc' \in [Requests -> {"idle"} \cup Running \cup Ended] /\ pc'[r] = "admitted"
        /\ \A s \in Requests \ {r} : pc'[s] = pc[s]
    BY <1>5, PcUpdate DEF Running
  <2>6. /\ thread' \in [Requests -> Threads \cup {NoThread}] /\ thread'[r] = t
        /\ todo' \in [Requests -> Nat] /\ todo'[r] = p.files
        /\ \A s \in Requests \ {r} : thread'[s] = thread[s] /\ todo'[s] = todo[s]
    BY <1>5, <2>1 DEF TypeOK
  <2>7. TypeOK'
    BY <1>3, <2>4, <2>5, <2>6 DEF TypeOK
  <2> QED
    BY <1>2, <1>3, <1>5, <2>1, <2>4, <2>5, <2>6, <2>7 DEF OthersStay, WindowOpen
<1> QED
  BY <1>2, <1>4, <1>5

\* Begin, Commit: the request moves on, and nothing of its own changes.
LEMMA BeginFacts ==
  ASSUME TypeOK, NEW r \in Requests, Begin(r)
  PROVE  /\ TypeOK' /\ OthersStay(r) /\ pc[r] = "admitted" /\ pc'[r] = "storing"
         /\ UNCHANGED <<Column, batches, thread, todo, draft, reading, storage>>
<1>1. pc' \in [Requests -> {"idle"} \cup Running \cup Ended] /\ pc'[r] = "storing"
      /\ \A s \in Requests \ {r} : pc'[s] = pc[s]
  BY PcUpdate DEF Begin, Running
<1>2. TypeOK'
  BY <1>1 DEF Begin, TypeOK
<1> QED
  BY <1>1, <1>2 DEF Begin, OthersStay

\* The table gets the draft.
LEMMA CommitFacts ==
  ASSUME TypeOK, NEW r \in Requests, Commit(r)
  PROVE  /\ TypeOK' /\ OthersStay(r) /\ pc[r] = "storing" /\ pc'[r] = "renaming"
         /\ todo[r] = 0 /\ batches' = batches \cup {draft[r]}
         /\ UNCHANGED <<Column, thread, todo, draft, reading, storage>>
<1>1. pc' \in [Requests -> {"idle"} \cup Running \cup Ended] /\ pc'[r] = "renaming"
      /\ \A s \in Requests \ {r} : pc'[s] = pc[s]
  BY PcUpdate DEF Commit, Running
<1>2. batches' \subseteq Batch
  BY DEF Commit, TypeOK
<1>3. TypeOK'
  BY <1>1, <1>2 DEF Commit, TypeOK
<1> QED
  BY <1>1, <1>3 DEF Commit, OthersStay

\* One file more, one upload less to come.
LEMMA StoreUploadFacts ==
  ASSUME TypeOK, NEW r \in Requests, StoreUpload(r), thread[r] \in Threads
  PROVE  /\ TypeOK' /\ OthersStay(r) /\ pc[r] = "storing" /\ todo[r] \in Nat \ {0}
         /\ UNCHANGED <<Column, batches, pc, thread, reading, final, logged>>
         /\ todo'[r] = todo[r] - 1
         /\ draft'[r].req = draft[r].req /\ draft'[r].folio = draft[r].folio
         /\ draft'[r].role = draft[r].role /\ draft'[r].posted = draft[r].posted
         /\ draft'[r].archivos = draft[r].archivos \cup { FileOf(r, todo[r]) }
         /\ FileOf(r, todo[r]) \in Files
<1>1. FileOf(r, todo[r]) \in Files /\ todo[r] \in Nat \ {0} /\ todo[r] - 1 \in Nat
  BY DEF StoreUpload, TypeOK, FileOf, Files
<1> DEFINE more == draft[r].archivos \cup { FileOf(r, todo[r]) }
           b == [draft[r] EXCEPT !.archivos = more]
<1>2. draft[r] \in Batch
  BY DEF TypeOK
<1>3. more \in SUBSET Files
  BY <1>1, <1>2, BatchType
<1>4. /\ b \in Batch /\ b.req = draft[r].req /\ b.folio = draft[r].folio /\ b.role = draft[r].role
      /\ b.posted = draft[r].posted /\ b.archivos = more
  BY <1>2, <1>3, MoreFiles
<1>5. draft' = [draft EXCEPT ![r] = b]
  BY DEF StoreUpload
<1> HIDE DEF b
<1>6. /\ draft' \in [Requests -> Batch] /\ draft'[r] = b
      /\ \A s \in Requests \ {r} : draft'[s] = draft[s]
  BY <1>4, <1>5, DraftUpdate
<1>7. /\ todo' \in [Requests -> Nat] /\ todo'[r] = todo[r] - 1
      /\ \A s \in Requests \ {r} : todo'[s] = todo[s]
  BY <1>1 DEF StoreUpload, TypeOK
<1>8. /\ partial' \subseteq Files /\ pending' \in [Threads -> SUBSET Files]
      /\ hooks' \in [Threads -> Seq(Files)] /\ UNCHANGED <<final, logged>>
  BY <1>1 DEF StoreUpload, Save, TypeOK
<1>9. /\ pc[r] = "storing" /\ UNCHANGED <<Column, responsible, batches, pc, thread, reading>>
  BY DEF StoreUpload
<1>10. TypeOK'
  BY <1>6, <1>7, <1>8, <1>9 DEF TypeOK
<1> QED
  BY <1>1, <1>4, <1>6, <1>7, <1>8, <1>9, <1>10 DEF OthersStay

\* UploadBreaks and Abort: ROLLBACK.
LEMMA RollBackFacts ==
  ASSUME TypeOK, NEW r \in Requests, thread[r] \in Threads, UploadBreaks(r) \/ Abort(r)
  PROVE  /\ TypeOK' /\ OthersStay(r) /\ pc[r] = "storing" /\ pc'[r] = "cleaning"
         /\ UNCHANGED <<Column, batches, thread, todo, draft, reading, final, pending, logged>>
         /\ hooks' = [hooks EXCEPT ![thread[r]] = <<>>]
         /\ partial \subseteq partial'
<1>1. /\ pc[r] = "storing" /\ Goto(r, "cleaning")
      /\ hooks' = [hooks EXCEPT ![thread[r]] = <<>>]
      /\ UNCHANGED <<Column, responsible, batches, thread, todo, draft, reading>>
      /\ UNCHANGED <<final, pending, logged>>
  BY DEF UploadBreaks, Abort, SaveBreaks, DropHooks
<1>2. partial \subseteq partial' /\ partial' \subseteq Files
  <2>1. FileOf(r, todo[r]) \in Files
    BY DEF TypeOK, FileOf, Files
  <2>2. partial' = partial \/ partial' = partial \cup {FileOf(r, todo[r])}
    BY DEF UploadBreaks, Abort, SaveBreaks, DropHooks
  <2> QED
    BY <2>1, <2>2 DEF TypeOK
<1>3. pc' \in [Requests -> {"idle"} \cup Running \cup Ended] /\ pc'[r] = "cleaning"
      /\ \A s \in Requests \ {r} : pc'[s] = pc[s]
  BY <1>1, PcUpdate DEF Running
<1>4. hooks' \in [Threads -> Seq(Files)]
  BY <1>1 DEF TypeOK
<1>5. TypeOK'
  BY <1>1, <1>2, <1>3, <1>4 DEF TypeOK
<1> QED
  BY <1>1, <1>2, <1>3, <1>5 DEF OthersStay

\* A callback touches the disk and the lists of its thread only.
LEMMA RunHookFacts ==
  ASSUME TypeOK, NEW r \in Requests, RunHook(r), thread[r] \in Threads
  PROVE  /\ TypeOK' /\ OthersStay(r) /\ pc[r] = "renaming"
         /\ pc'[r] \in {"renaming", "cleaning", "done"}
         /\ UNCHANGED <<Column, batches, thread, todo, draft, reading>>
<1>1. /\ pc[r] = "renaming"
      /\ UNCHANGED <<Column, responsible, batches, thread, todo, draft, reading>>
  BY DEF RunHook
<1>2. /\ pc' \in [Requests -> {"idle"} \cup Running \cup Ended]
      /\ pc'[r] \in {"renaming", "cleaning", "done"}
      /\ \A s \in Requests \ {r} : pc'[s] = pc[s]
  <2>1. CASE UNCHANGED pc
    BY <1>1, <2>1 DEF TypeOK
  <2>2. CASE Goto(r, "cleaning") \/ Goto(r, "done")
    BY <2>2, PcUpdate DEF Running, Ended
  <2> QED
    BY <2>1, <2>2 DEF RunHook
<1>3. /\ partial' \subseteq Files /\ final' \subseteq Files /\ logged' \subseteq Files
      /\ pending' \in [Threads -> SUBSET Files] /\ hooks' \in [Threads -> Seq(Files)]
  <2>1. hooks[thread[r]] \in Seq(Files)
    BY DEF TypeOK
  <2>2. hooks[thread[r]] # <<>> =>
          Head(hooks[thread[r]]) \in Files /\ Tail(hooks[thread[r]]) \in Seq(Files)
    BY <2>1
  <2>3. CASE Rename(thread[r])
    BY <2>1, <2>2, <2>3 DEF Rename, TypeOK
  <2>4. CASE RenameBreaks(thread[r])
    BY <2>1, <2>2, <2>4 DEF RenameBreaks, TypeOK
  <2>5. CASE UNCHANGED storage
    BY <2>5 DEF TypeOK
  <2> QED
    BY <2>3, <2>4, <2>5 DEF RunHook
<1>4. TypeOK'
  BY <1>1, <1>2, <1>3 DEF TypeOK
<1> QED
  BY <1>1, <1>2, <1>4 DEF OthersStay

\* The sweep leaves the tables alone.
LEMMA SweepFacts ==
  ASSUME TypeOK, NEW r \in Requests, Sweep(r), thread[r] \in Threads
  PROVE  /\ TypeOK' /\ OthersStay(r) /\ pc[r] = "cleaning" /\ pc'[r] = "failed"
         /\ UNCHANGED <<Column, batches, thread, todo, draft, reading, final, hooks>>
         /\ partial \ pending[thread[r]] \subseteq partial' /\ logged \subseteq logged'
         /\ pending' = [pending EXCEPT ![thread[r]] = {}]
<1>1. /\ pc[r] = "cleaning" /\ Goto(r, "failed")
      /\ UNCHANGED <<Column, responsible, batches, thread, todo, draft, reading>>
  BY DEF Sweep
<1>2. /\ partial' \subseteq Files /\ logged' \subseteq Files
      /\ pending' \in [Threads -> SUBSET Files] /\ UNCHANGED <<final, hooks>>
      /\ partial \ pending[thread[r]] \subseteq partial' /\ logged \subseteq logged'
      /\ pending' = [pending EXCEPT ![thread[r]] = {}]
  BY DEF Sweep, CleanupPending, TypeOK
<1>3. pc' \in [Requests -> {"idle"} \cup Running \cup Ended] /\ pc'[r] = "failed"
      /\ \A s \in Requests \ {r} : pc'[s] = pc[s]
  BY <1>1, PcUpdate DEF Ended
<1>4. TypeOK'
  BY <1>1, <1>2, <1>3 DEF TypeOK
<1> QED
  BY <1>1, <1>2, <1>3, <1>4 DEF OthersStay

\* The death of the worker leaves the tables, and on disk all but what it swept.
LEMMA CrashFacts ==
  ASSUME TypeOK, NEW r \in Requests, Crash(r), thread[r] \in Threads
  PROVE  /\ TypeOK' /\ OthersStay(r) /\ pc[r] \in Running /\ pc'[r] = "crashed"
         /\ UNCHANGED <<Column, batches, thread, todo, draft, reading, final>>
         /\ partial \ pending[thread[r]] \subseteq partial' /\ logged \subseteq logged'
         /\ hooks' = [hooks EXCEPT ![thread[r]] = <<>>]
         /\ pending' = [pending EXCEPT ![thread[r]] = {}]
<1>1. /\ pc[r] \in Running /\ Goto(r, "crashed")
      /\ UNCHANGED <<Column, responsible, batches, thread, todo, draft, reading, final>>
      /\ hooks' = [hooks EXCEPT ![thread[r]] = <<>>]
      /\ pending' = [pending EXCEPT ![thread[r]] = {}]
  BY DEF Crash, ForgetThread, CutCleanup
<1>2. /\ partial' \subseteq Files /\ logged' \subseteq Files
      /\ partial \ pending[thread[r]] \subseteq partial' /\ logged \subseteq logged'
  <2>1. CASE CutCleanup(thread[r])
    BY <2>1 DEF CutCleanup, TypeOK
  <2>2. CASE ForgetThread(thread[r])
    BY <2>2 DEF ForgetThread, TypeOK
  <2> QED
    BY <2>1, <2>2 DEF Crash
<1>3. hooks' \in [Threads -> Seq(Files)] /\ pending' \in [Threads -> SUBSET Files]
  BY <1>1 DEF TypeOK
<1>4. pc' \in [Requests -> {"idle"} \cup Running \cup Ended] /\ pc'[r] = "crashed"
      /\ \A s \in Requests \ {r} : pc'[s] = pc[s]
  BY <1>1, PcUpdate DEF Ended
<1>5. TypeOK'
  BY <1>1, <1>2, <1>3, <1>4 DEF TypeOK
<1> QED
  BY <1>1, <1>2, <1>4, <1>5 DEF OthersStay
-----------------------------------------------------------------------------
(***************************************************************************)
(* The estado and its past.                                                *)
(***************************************************************************)
\* A step of a POST: the column stays, and whoever runs after it has seen a take.
LEMMA TakeStep ==
  ASSUME TypeOK, TakeInv, NEW r \in Requests, OthersStay(r), UNCHANGED Column,
         pc'[r] \in Running =>
           "EN_PROCESO" \in past[draft'[r].folio] /\ draft'[r].role \in ReviewerRoles,
         \/ batches' = batches
         \/ pc[r] \in Running /\ batches' = batches \cup {draft[r]}
  PROVE  TakeInv'
<1>1. PresentIsPast' /\ RunningFollowATake'
  BY DEF TakeInv, PresentIsPast, RunningFollowATake, OthersStay
<1>2. AnswersFollowATake'
  BY DEF TakeInv, AnswersFollowATake, RunningFollowATake
<1> QED
  BY <1>1, <1>2 DEF TakeInv

\* A transition of another request only adds to the past.
LEMMA MoveFacts ==
  ASSUME TypeOK, NEW f \in Folios, Move(f)
  PROVE  /\ estado' \in [Folios -> Estados] /\ past' \in [Folios -> SUBSET Estados]
         /\ \A e \in Folios : past[e] \subseteq past'[e]
         /\ PresentIsPast => PresentIsPast'
<1>1. PICK t \in DOMAIN TRANSITIONS :
        /\ estado' = [estado EXCEPT ![f] = TRANSITIONS[t]]
        /\ past' = [past EXCEPT ![f] = @ \cup {TRANSITIONS[t]}]
  BY DEF Move
<1>2. TRANSITIONS[t] \in Estados
  BY DEF TRANSITIONS, Estados
<1>3. estado' \in [Folios -> Estados] /\ past' \in [Folios -> SUBSET Estados]
  BY <1>1, <1>2 DEF TypeOK
<1>4. \A e \in Folios : past[e] \subseteq past'[e]
  BY <1>1 DEF TypeOK
<1>5. PresentIsPast => PresentIsPast'
  BY <1>1 DEF TypeOK, PresentIsPast
<1> QED
  BY <1>3, <1>4, <1>5
-----------------------------------------------------------------------------
(***************************************************************************)
(* Threads, hooks and the disk.                                            *)
(***************************************************************************)
\* A request keeps the thread it began on.
LEMMA ThreadStep ==
  ASSUME TypeOK, ThreadsServeOne, NEW r \in Requests, OthersStay(r),
         pc'[r] \in Running => pc[r] \in Running /\ thread'[r] = thread[r]
  PROVE  ThreadsServeOne'
BY DEF ThreadsServeOne, OthersStay

\* A running request is the only one on its thread.
LEMMA OneOnThread ==
  ASSUME ThreadsServeOne, NEW r \in Requests, NEW s \in Requests,
         pc[r] \in Running, pc[s] \in Running, thread[r] = thread[s]
  PROVE  r = s
BY DEF ThreadsServeOne

\* The file names of a draft carry its request.
LEMMA FilesOfDraft ==
  ASSUME TypeOK, DraftsCountDown, NEW r \in Requests, NEW x \in draft[r].archivos
  PROVE  /\ x \in Files /\ x[1] = r /\ x[2] \in Nat /\ x[2] > todo[r]
         /\ x[2] <= draft[r].posted /\ x = FileOf(r, x[2])
<1>1. /\ draft[r].archivos = { FileOf(r, i) : i \in todo[r] + 1 .. draft[r].posted }
      /\ todo[r] \in Nat /\ draft[r].posted \in Nat
  BY BatchType DEF DraftsCountDown, TypeOK
<1>2. PICK i \in todo[r] + 1 .. draft[r].posted : x = FileOf(r, i)
  BY <1>1
<1>3. i \in Nat /\ i > todo[r] /\ i <= draft[r].posted
  BY <1>1
<1> QED
  BY <1>2, <1>3 DEF FileOf, Files

\* What a scheduled rename is of.
LEMMA HookFacts ==
  ASSUME TypeOK, FileInv, NEW t \in Threads, NEW i \in DOMAIN hooks[t]
  PROVE  /\ hooks[t][i] \in Files /\ hooks[t][i][1] \in Requests
         /\ pc[hooks[t][i][1]] \in {"storing", "renaming"}
         /\ pc[hooks[t][i][1]] \in Running
         /\ thread[hooks[t][i][1]] = t
         /\ hooks[t][i] \in draft[hooks[t][i][1]].archivos
         /\ hooks[t][i] \in partial
         /\ \A j \in DOMAIN hooks[t] : hooks[t][j] = hooks[t][i] => j = i
<1>1. hooks[t][i] \in Files
  BY DEF TypeOK
<1>2. /\ pc[hooks[t][i][1]] \in {"storing", "renaming"} /\ thread[hooks[t][i][1]] = t
      /\ hooks[t][i] \in draft[hooks[t][i][1]].archivos
      /\ hooks[t][i] \in partial
      /\ \A j \in DOMAIN hooks[t] : hooks[t][j] = hooks[t][i] => j = i
  BY DEF FileInv, HooksAreOfTheDraft
<1> QED
  BY <1>1, <1>2 DEF Files, Running

\* Whose a file on the list of a thread is.
LEMMA PendingFacts ==
  ASSUME TypeOK, FileInv, NEW t \in Threads, NEW x \in pending[t]
  PROVE  /\ x[1] \in Requests /\ pc[x[1]] \in {"storing", "renaming", "cleaning"}
         /\ pc[x[1]] \in Running /\ thread[x[1]] = t
         /\ pc[x[1]] = "cleaning" \/ Scheduled(x, t)
<1>1. x \in Files
  BY DEF TypeOK
<1>2. /\ pc[x[1]] \in {"storing", "renaming", "cleaning"}
      /\ pc[x[1]] \in Running /\ thread[x[1]] = t
      /\ pc[x[1]] = "cleaning" \/ Scheduled(x, t)
  BY DEF FileInv, PendingIsStored, SweepIsPrivate
<1> QED
  BY <1>1, <1>2 DEF Files

\* Before its COMMIT a request has no batch.
LEMMA NoBatchYet ==
  ASSUME TypeOK, FileInv, NEW r \in Requests, pc[r] \notin Committed
  PROVE  (\A b \in batches : b.req # r) /\ draft[r] \notin batches
<1>1. \A b \in batches : b.req # r
  BY DEF FileInv, BatchesAreDrafts
<1>2. draft[r].req = r
  BY DEF FileInv, DraftsCountDown
<1> QED
  BY <1>1, <1>2

\* A step that leaves the drafts and the table.
LEMMA SameDrafts ==
  ASSUME TypeOK, FileInv, NEW r \in Requests, OthersStay(r),
         UNCHANGED <<todo, draft, batches>>, pc[r] \in Committed => pc'[r] \in Committed
  PROVE  DraftsCountDown' /\ BatchesAreDrafts'
<1>1. DraftsCountDown'
  BY DEF FileInv, DraftsCountDown
<1>2. ASSUME NEW b \in batches PROVE b = draft[b.req] /\ todo[b.req] = 0 /\ pc'[b.req] \in Committed
  <2>1. b = draft[b.req] /\ todo[b.req] = 0 /\ pc[b.req] \in Committed /\ b.req \in Requests
    BY BatchType DEF FileInv, BatchesAreDrafts, TypeOK
  <2> QED
    BY <2>1 DEF OthersStay
<1>3. BatchesAreDrafts'
  BY <1>2 DEF BatchesAreDrafts
<1> QED
  BY <1>1, <1>3

\* Every step of r that schedules no file and renames none: the hooks of r's
\* thread stay or are dropped, those of the others stay, and what is left of r's
\* agrees with where r is.
LEMMA FileStep ==
  ASSUME TypeOK, FileInv, TypeOK', NEW r \in Requests, OthersStay(r),
         DraftsCountDown', BatchesAreDrafts', ThreadsServeOne',
         batches \subseteq batches', final' = final,
         \A t \in Threads : \/ hooks'[t] = hooks[t]
                            \/ pc[r] \in Running /\ t = thread[r] /\ hooks'[t] = <<>>,
         \A t \in Threads : pending'[t] \subseteq pending[t],
         \A t \in Threads : \A i \in DOMAIN hooks'[t] : hooks'[t][i] \in partial',
         \A t \in Threads : \A i \in DOMAIN hooks'[t] :
           hooks'[t][i][1] = r => /\ pc'[r] \in {"storing", "renaming"}
                                  /\ thread'[r] = thread[r] /\ draft'[r] = draft[r],
         \A t \in Threads : \A x \in pending'[t] :
           x[1] = r => /\ \/ pc'[r] = "cleaning"
                          \/ pc'[r] \in {"storing", "renaming"} /\ hooks'[t] = hooks[t]
                       /\ pc[r] = "cleaning" => pc'[r] = "cleaning"
                       /\ thread'[r] = thread[r],
         pc'[r] \in {"admitted", "storing"} =>
           \A x \in draft'[r].archivos : Scheduled(x, thread[r])',
         pc'[r] = "renaming" =>
           /\ draft'[r] \in batches'
           /\ \A x \in draft'[r].archivos : x \in final' \/ Scheduled(x, thread[r])'
  PROVE  FileInv'
<1>1. HooksAreOfTheDraft'
  <2> SUFFICES ASSUME NEW t \in Threads, NEW i \in DOMAIN hooks'[t]
               PROVE  LET x == hooks'[t][i] IN
                      /\ pc'[x[1]] \in {"storing", "renaming"} /\ thread'[x[1]] = t
                      /\ x \in draft'[x[1]].archivos
                      /\ x \in partial'
                      /\ \A j \in DOMAIN hooks'[t] : hooks'[t][j] = x => j = i
    BY DEF HooksAreOfTheDraft
  <2> DEFINE x == hooks[t][i]
             s == x[1]
  <2>1. hooks'[t] = hooks[t] /\ i \in DOMAIN hooks[t]
    OBVIOUS
  <2>2. /\ s \in Requests /\ pc[s] \in {"storing", "renaming"} /\ thread[s] = t
        /\ x \in draft[s].archivos
        /\ \A j \in DOMAIN hooks[t] : hooks[t][j] = x => j = i
    BY <2>1, HookFacts
  <2>3. /\ pc'[s] \in {"storing", "renaming"} /\ thread'[s] = thread[s]
        /\ draft'[s] = draft[s]
    <3>1. CASE s = r
      BY <2>1, <3>1
    <3>2. CASE s # r
      BY <2>2, <3>2 DEF OthersStay
    <3> QED
      BY <3>1, <3>2
  <2> QED
    BY <2>1, <2>2, <2>3
<1>2. ASSUME NEW s \in Requests \ {r}, pc[s] \in Running
      PROVE  thread[s] \in Threads /\ hooks'[thread[s]] = hooks[thread[s]]
  BY <1>2, OneOnThread DEF FileInv, ThreadsServeOne
<1>3. PendingIsStored' /\ SweepIsPrivate'
  <2>1. ASSUME NEW t \in Threads, NEW x \in pending'[t]
        PROVE  /\ pc'[x[1]] \in {"storing", "renaming", "cleaning"} /\ thread'[x[1]] = t
               /\ \/ pc'[x[1]] = "cleaning"
                  \/ \E i \in DOMAIN hooks'[t] : hooks'[t][i] = x
    <3>1. /\ x[1] \in Requests /\ pc[x[1]] \in {"storing", "renaming", "cleaning"}
          /\ pc[x[1]] \in Running /\ thread[x[1]] = t
          /\ pc[x[1]] = "cleaning" \/ \E i \in DOMAIN hooks[t] : hooks[t][i] = x
      BY PendingFacts DEF Scheduled
    <3>2. CASE x[1] = r
      BY <2>1, <3>1, <3>2
    <3>3. CASE x[1] # r
      BY <1>2, <3>1, <3>3 DEF OthersStay
    <3> QED
      BY <3>2, <3>3
  <2> QED
    BY <2>1 DEF PendingIsStored, SweepIsPrivate, Scheduled, Running
<1>4. StoredAreScheduled'
  <2> SUFFICES ASSUME NEW s \in Requests \ {r}, pc'[s] \in {"admitted", "storing"},
                      NEW x \in draft'[s].archivos
               PROVE  Scheduled(x, thread[s])'
    BY DEF StoredAreScheduled, Scheduled
  <2>1. pc[s] \in Running /\ Scheduled(x, thread[s]) /\ thread'[s] = thread[s]
    BY DEF FileInv, StoredAreScheduled, OthersStay, Running
  <2> QED
    BY <1>2, <2>1 DEF Scheduled
<1>5. RenamedOrScheduled'
  <2> SUFFICES ASSUME NEW s \in Requests \ {r}, pc'[s] = "renaming"
               PROVE  /\ draft'[s] \in batches'
                      /\ \A x \in draft'[s].archivos : x \in final' \/ Scheduled(x, thread[s])'
    BY DEF RenamedOrScheduled, Scheduled
  <2>1. /\ pc[s] \in Running /\ thread'[s] = thread[s] /\ draft'[s] = draft[s]
        /\ draft[s] \in batches
        /\ \A x \in draft[s].archivos : x \in final \/ Scheduled(x, thread[s])
    BY DEF FileInv, RenamedOrScheduled, OthersStay, Running
  <2> QED
    BY <1>2, <2>1 DEF Scheduled
<1>6. FinalFilesHaveRows'
  BY DEF FileInv, FinalFilesHaveRows
<1> QED
  BY <1>1, <1>3, <1>4, <1>5, <1>6 DEF FileInv

\* Nobody's files are r's while r has stored none.
LEMMA NothingStored ==
  ASSUME TypeOK, FileInv, NEW r \in Requests, pc[r] \notin {"storing", "renaming", "cleaning"}
  PROVE  /\ \A t \in Threads : \A i \in DOMAIN hooks[t] : hooks[t][i][1] # r
         /\ \A t \in Threads : \A x \in pending[t] : x[1] # r
<1>1. ASSUME NEW t \in Threads, NEW i \in DOMAIN hooks[t] PROVE hooks[t][i][1] # r
  BY HookFacts
<1>2. ASSUME NEW t \in Threads, NEW x \in pending[t] PROVE x[1] # r
  BY PendingFacts
<1> QED
  BY <1>1, <1>2

\* An admitted draft has no files, and no batch is there before the COMMIT.
LEMMA FileAdmit ==
  ASSUME TypeOK, FileInv, NEW r \in Requests, NEW t \in Threads, Admit(r, t)
  PROVE  FileInv'
<1>1. /\ TypeOK' /\ OthersStay(r) /\ pc[r] = "idle" /\ Free(t)
      /\ UNCHANGED <<Column, batches, reading, storage>>
      /\ \/ pc'[r] = "refused" /\ UNCHANGED <<thread, todo, draft>>
         \/ /\ pc'[r] = "admitted" /\ thread'[r] = t
            /\ draft'[r].req = r /\ draft'[r].archivos = {}
            /\ draft'[r].posted \in Nat /\ todo'[r] = draft'[r].posted
  BY AdmitFacts
<1>2. ThreadsServeOne'
  <2>1. CASE pc'[r] = "refused"
    BY <1>1, <2>1, ThreadStep DEF FileInv, Running
  <2>2. CASE pc'[r] = "admitted" /\ thread'[r] = t
    BY <1>1, <2>2 DEF FileInv, ThreadsServeOne, OthersStay, Free
  <2> QED
    BY <1>1, <2>1, <2>2
<1>3. DraftsCountDown'
  <2> SUFFICES ASSUME NEW s \in Requests
               PROVE  /\ draft'[s].req = s /\ todo'[s] <= draft'[s].posted
                      /\ draft'[s].archivos =
                           { FileOf(s, i) : i \in todo'[s] + 1 .. draft'[s].posted }
    BY DEF DraftsCountDown
  <2>1. CASE draft'[s] = draft[s] /\ todo'[s] = todo[s]
    BY <2>1 DEF FileInv, DraftsCountDown
  <2>2. CASE s = r /\ pc'[r] = "admitted"
    <3>1. todo'[r] + 1 .. draft'[r].posted = {}
      BY <1>1, <2>2
    <3> QED
      BY <1>1, <2>2, <3>1
  <2> QED
    BY <1>1, <2>1, <2>2 DEF OthersStay
<1>4. BatchesAreDrafts'
  <2> SUFFICES ASSUME NEW b \in batches
               PROVE  b = draft'[b.req] /\ todo'[b.req] = 0 /\ pc'[b.req] \in Committed
    BY <1>1 DEF BatchesAreDrafts
  <2>1. /\ b.req \in Requests /\ b = draft[b.req] /\ todo[b.req] = 0
        /\ pc[b.req] \in Committed
    BY BatchType DEF FileInv, BatchesAreDrafts, TypeOK
  <2>2. b.req # r
    BY <1>1, <2>1 DEF Committed
  <2> QED
    BY <1>1, <2>1, <2>2 DEF OthersStay
<1>5. /\ \A u \in Threads : \A i \in DOMAIN hooks'[u] : hooks'[u][i][1] # r
      /\ \A u \in Threads : \A x \in pending'[u] : x[1] # r
  BY <1>1, NothingStored
<1>6. \A u \in Threads : \A i \in DOMAIN hooks'[u] : hooks'[u][i] \in partial'
  BY <1>1, HookFacts
<1>7. pc'[r] \in {"admitted", "storing"} => draft'[r].archivos = {}
  BY <1>1
<1>8. pc'[r] # "renaming"
  BY <1>1
<1> QED
  BY <1>1, <1>2, <1>3, <1>4, <1>5, <1>6, <1>7, <1>8, FileStep

\* Begin and Commit leave the disk alone: what was scheduled still is.
LEMMA FileBegin ==
  ASSUME TypeOK, FileInv, NEW r \in Requests, Begin(r)
  PROVE  FileInv'
<1>1. /\ TypeOK' /\ OthersStay(r) /\ pc[r] = "admitted" /\ pc'[r] = "storing"
      /\ UNCHANGED <<Column, batches, thread, todo, draft, reading, storage>>
  BY BeginFacts
<1>2. ThreadsServeOne'
  BY <1>1, ThreadStep DEF FileInv, Running
<1>3. DraftsCountDown' /\ BatchesAreDrafts'
  BY <1>1, SameDrafts DEF Committed
<1>4. /\ \A u \in Threads : \A i \in DOMAIN hooks'[u] : hooks'[u][i][1] # r
      /\ \A u \in Threads : \A x \in pending'[u] : x[1] # r
  BY <1>1, NothingStored
<1>5. \A u \in Threads : \A i \in DOMAIN hooks'[u] : hooks'[u][i] \in partial'
  BY <1>1, HookFacts
<1>6. \A x \in draft'[r].archivos : Scheduled(x, thread[r])'
  BY <1>1 DEF FileInv, StoredAreScheduled, Scheduled
<1> QED
  BY <1>1, <1>2, <1>3, <1>4, <1>5, <1>6, FileStep

\* The new batch is whole: nothing is left to store.
LEMMA FileCommit ==
  ASSUME TypeOK, FileInv, NEW r \in Requests, Commit(r)
  PROVE  FileInv'
<1>1. /\ TypeOK' /\ OthersStay(r) /\ pc[r] = "storing" /\ pc'[r] = "renaming"
      /\ todo[r] = 0 /\ batches' = batches \cup {draft[r]}
      /\ UNCHANGED <<Column, thread, todo, draft, reading, storage>>
  BY CommitFacts
<1>2. ThreadsServeOne'
  BY <1>1, ThreadStep DEF FileInv, Running
<1>3. DraftsCountDown'
  BY <1>1 DEF FileInv, DraftsCountDown
<1>4. BatchesAreDrafts'
  <2> SUFFICES ASSUME NEW b \in batches'
               PROVE  b = draft[b.req] /\ todo[b.req] = 0 /\ pc'[b.req] \in Committed
    BY <1>1 DEF BatchesAreDrafts
  <2>1. CASE b \in batches
    <3>1. /\ b.req \in Requests /\ b = draft[b.req] /\ todo[b.req] = 0
          /\ pc[b.req] \in Committed
      BY <2>1, BatchType DEF FileInv, BatchesAreDrafts, TypeOK
    <3> QED
      BY <1>1, <3>1 DEF OthersStay, Committed
  <2>2. CASE b = draft[r]
    <3>1. draft[r].req = r
      BY DEF FileInv, DraftsCountDown
    <3> QED
      BY <1>1, <2>2, <3>1 DEF Committed
  <2> QED
    BY <1>1, <2>1, <2>2
<1>5. \A u \in Threads : \A i \in DOMAIN hooks'[u] : hooks'[u][i] \in partial'
  BY <1>1, HookFacts
<1>6. \A x \in draft'[r].archivos : Scheduled(x, thread[r])'
  BY <1>1 DEF FileInv, StoredAreScheduled, Scheduled
<1>7. draft'[r] \in batches' /\ batches \subseteq batches'
  BY <1>1
<1>8. /\ \A u \in Threads : hooks'[u] = hooks[u] /\ pending'[u] \subseteq pending[u]
      /\ final' = final
  BY <1>1
<1> QED
  BY <1>1, <1>2, <1>3, <1>4, <1>5, <1>6, <1>7, <1>8, FileStep

\* A step that drops the hooks of r's thread, which are all of r's, and takes r
\* out of the block.
LEMMA FileDrop ==
  ASSUME TypeOK, FileInv, NEW r \in Requests, TypeOK', OthersStay(r),
         UNCHANGED <<batches, thread, todo, draft>>, final' = final,
         pc[r] \in Running, pc'[r] \in {"cleaning", "failed", "crashed", "done"},
         partial \ pending[thread[r]] \subseteq partial',
         \A t \in Threads \ {thread[r]} : hooks'[t] = hooks[t],
         \/ DOMAIN hooks'[thread[r]] = {} /\ hooks'[thread[r]] = <<>>
         \/ pc[r] = "cleaning" /\ hooks'[thread[r]] = hooks[thread[r]],
         \A t \in Threads : pending'[t] \subseteq pending[t],
         pc'[r] = "cleaning" \/ \A x \in pending'[thread[r]] : x[1] # r
  PROVE  FileInv'
<1>1. ThreadsServeOne'
  BY ThreadStep DEF FileInv
<1>2. DraftsCountDown' /\ BatchesAreDrafts'
  BY SameDrafts DEF Committed
<1>3. \A t \in Threads : \A i \in DOMAIN hooks'[t] :
        /\ hooks'[t] = hooks[t] /\ hooks'[t][i][1] # r /\ hooks'[t][i] \in partial'
  <2> TAKE t \in Threads
  <2> TAKE i \in DOMAIN hooks'[t]
  <2>1. hooks'[t] = hooks[t] /\ (t # thread[r] \/ pc[r] = "cleaning")
    OBVIOUS
  <2>2. /\ i \in DOMAIN hooks[t]
        /\ hooks[t][i] \in partial /\ hooks[t][i][1] \in Requests
        /\ pc[hooks[t][i][1]] \in {"storing", "renaming"}
        /\ pc[hooks[t][i][1]] \in Running /\ thread[hooks[t][i][1]] = t
    BY <2>1, HookFacts
  <2>3. hooks[t][i][1] # r
    BY <2>1, <2>2
  <2>4. thread[r] \in Threads
    BY DEF FileInv, ThreadsServeOne
  <2>5. hooks[t][i] \notin pending[thread[r]]
    BY <2>2, <2>3, <2>4, PendingFacts, OneOnThread DEF FileInv
  <2> QED
    BY <2>1, <2>2, <2>3, <2>5
<1>4. \A t \in Threads : \A x \in pending'[t] :
        x[1] = r => pc'[r] = "cleaning"
  <2> TAKE t \in Threads
  <2> TAKE x \in pending'[t]
  <2>1. x \in pending[t]
    OBVIOUS
  <2> QED
    BY <2>1, PendingFacts
<1>5. ASSUME NEW t \in Threads
      PROVE  \/ hooks'[t] = hooks[t]
             \/ pc[r] \in Running /\ t = thread[r] /\ hooks'[t] = <<>>
  <2>1. CASE t = thread[r]
    BY <2>1
  <2>2. CASE t # thread[r]
    BY <2>2
  <2> QED
    BY <2>1, <2>2
<1>6. pc'[r] \notin {"admitted", "storing"} /\ pc'[r] # "renaming"
  OBVIOUS
<1> QED
  BY <1>1, <1>2, <1>3, <1>4, <1>5, <1>6, FileStep

\* ROLLBACK, crash and sweep.
LEMMA FileLoss ==
  ASSUME TypeOK, FileInv, NEW r \in Requests, thread[r] \in Threads,
         UploadBreaks(r) \/ Abort(r) \/ Crash(r) \/ Sweep(r)
  PROVE  FileInv'
<1>1. CASE UploadBreaks(r) \/ Abort(r)
  <2>1. /\ TypeOK' /\ OthersStay(r) /\ pc[r] = "storing" /\ pc'[r] = "cleaning"
        /\ UNCHANGED <<batches, thread, todo, draft, final, pending>>
        /\ hooks' = [hooks EXCEPT ![thread[r]] = <<>>]
        /\ partial \subseteq partial'
    BY <1>1, RollBackFacts
  <2>2. /\ \A t \in Threads \ {thread[r]} : hooks'[t] = hooks[t]
        /\ hooks'[thread[r]] = <<>>
    BY <2>1 DEF TypeOK
  <2>3. /\ pc[r] \in Running /\ pc'[r] \in {"cleaning", "failed", "crashed", "done"}
        /\ partial \ pending[thread[r]] \subseteq partial'
        /\ \A t \in Threads : pending'[t] \subseteq pending[t]
        /\ final' = final /\ UNCHANGED <<batches, thread, todo, draft>>
    BY <2>1 DEF Running
  <2>4. TypeOK' /\ OthersStay(r) /\ pc'[r] = "cleaning"
    BY <2>1
  <2>5. DOMAIN hooks'[thread[r]] = {} /\ hooks'[thread[r]] = <<>>
    BY <2>2
  <2> QED
    BY <2>2, <2>3, <2>4, <2>5, FileDrop
<1>2. CASE Crash(r)
  <2>1. /\ TypeOK' /\ OthersStay(r) /\ pc[r] \in Running /\ pc'[r] = "crashed"
        /\ UNCHANGED <<batches, thread, todo, draft, final>>
        /\ partial \ pending[thread[r]] \subseteq partial'
    BY <1>2, CrashFacts
  <2>2. /\ hooks' = [hooks EXCEPT ![thread[r]] = <<>>]
        /\ pending' = [pending EXCEPT ![thread[r]] = {}]
    BY <1>2, CrashFacts
  <2>3. /\ \A t \in Threads \ {thread[r]} : hooks'[t] = hooks[t]
        /\ hooks'[thread[r]] = <<>> /\ pending'[thread[r]] = {}
        /\ \A t \in Threads : pending'[t] \subseteq pending[t]
    BY <2>2 DEF TypeOK
  <2>4. /\ \A x \in pending'[thread[r]] : x[1] # r
        /\ partial \ pending[thread[r]] \subseteq partial'
        /\ pc'[r] \in {"cleaning", "failed", "crashed", "done"}
    BY <2>1, <2>3
  <2>5. UNCHANGED <<batches, thread, todo, draft>> /\ final' = final
    BY <2>1
  <2> QED
    BY <2>1, <2>3, <2>4, <2>5, FileDrop
<1>3. CASE Sweep(r)
  <2>1. /\ TypeOK' /\ OthersStay(r) /\ pc[r] = "cleaning" /\ pc'[r] = "failed"
        /\ UNCHANGED <<batches, thread, todo, draft, final, hooks>>
        /\ partial \ pending[thread[r]] \subseteq partial'
    BY <1>3, SweepFacts
  <2>2. pending' = [pending EXCEPT ![thread[r]] = {}]
    BY <1>3, SweepFacts
  <2>3. /\ pending'[thread[r]] = {} /\ \A t \in Threads : pending'[t] \subseteq pending[t]
    BY <2>2 DEF TypeOK
  <2>4. /\ \A x \in pending'[thread[r]] : x[1] # r
        /\ \A t \in Threads \ {thread[r]} : hooks'[t] = hooks[t]
        /\ hooks'[thread[r]] = hooks[thread[r]]
        /\ pc'[r] \in {"cleaning", "failed", "crashed", "done"}
    BY <2>1, <2>3
  <2>5. pc[r] \in Running
    BY <2>1 DEF Running
  <2> QED
    BY <2>1, <2>3, <2>4, <2>5, FileDrop
<1> QED
  BY <1>1, <1>2, <1>3

\* The countdown over one upload.
LEMMA OneFewer ==
  ASSUME NEW r \in Requests, NEW k \in Nat \ {0}, NEW n \in Nat, k <= n
  PROVE  { FileOf(r, i) : i \in k + 1 .. n } \cup { FileOf(r, k) }
           = { FileOf(r, i) : i \in (k - 1) + 1 .. n }
<1>1. (k - 1) + 1 .. n = (k + 1 .. n) \cup {k}
  OBVIOUS
<1> QED
  BY <1>1

\* The new file has a name no scheduled rename has.
LEMMA FileStoreUpload ==
  ASSUME TypeOK, FileInv, NEW r \in Requests, thread[r] \in Threads, StoreUpload(r)
  PROVE  FileInv'
<1> DEFINE t == thread[r]
           x == FileOf(r, todo[r])
<1>1. /\ TypeOK' /\ OthersStay(r) /\ pc[r] = "storing" /\ todo[r] \in Nat \ {0}
      /\ UNCHANGED <<Column, batches, pc, thread, reading, final, logged>>
      /\ todo'[r] = todo[r] - 1
      /\ draft'[r].req = draft[r].req /\ draft'[r].posted = draft[r].posted
      /\ draft'[r].archivos = draft[r].archivos \cup { x }
      /\ x \in Files
  BY StoreUploadFacts
<1>2. /\ x[1] = r /\ x[2] = todo[r] /\ t \in Threads /\ pc[r] \in Running
  BY <1>1 DEF FileOf, Running
<1>3. /\ partial' = partial \cup {x}
      /\ pending'[t] = pending[t] \cup {x} /\ hooks'[t] = Append(hooks[t], x)
      /\ hooks[t] \in Seq(Files)
      /\ \A u \in Threads \ {t} : pending'[u] = pending[u] /\ hooks'[u] = hooks[u]
  BY DEF StoreUpload, Save, TypeOK
<1> HIDE DEF t, x
<1>4. /\ draft[r].req = r /\ todo[r] <= draft[r].posted /\ draft[r].posted \in Nat
      /\ draft[r].archivos = { FileOf(r, i) : i \in todo[r] + 1 .. draft[r].posted }
  BY BatchType DEF FileInv, DraftsCountDown, TypeOK
<1>5. x \notin draft[r].archivos
  BY <1>1, <1>2, FilesOfDraft DEF FileInv
<1>6. DraftsCountDown'
  <2> SUFFICES ASSUME NEW s \in Requests
               PROVE  /\ draft'[s].req = s /\ todo'[s] <= draft'[s].posted
                      /\ draft'[s].archivos =
                           { FileOf(s, i) : i \in todo'[s] + 1 .. draft'[s].posted }
    BY DEF DraftsCountDown
  <2>1. CASE s # r
    BY <1>1, <2>1 DEF FileInv, DraftsCountDown, OthersStay
  <2>2. CASE s = r
    <3>1. todo'[r] <= draft'[r].posted
      BY <1>1, <1>4
    <3>2. draft'[r].archivos = { FileOf(r, i) : i \in (todo[r] - 1) + 1 .. draft[r].posted }
      BY <1>1, <1>4, OneFewer DEF x
    <3> QED
      BY <1>1, <1>4, <2>2, <3>1, <3>2
  <2> QED
    BY <2>1, <2>2
<1>7. BatchesAreDrafts'
  <2> SUFFICES ASSUME NEW b \in batches
               PROVE  b = draft'[b.req] /\ todo'[b.req] = 0 /\ pc[b.req] \in Committed
    BY <1>1 DEF BatchesAreDrafts
  <2>1. /\ b.req \in Requests /\ b = draft[b.req] /\ todo[b.req] = 0
        /\ pc[b.req] \in Committed
    BY BatchType DEF FileInv, BatchesAreDrafts, TypeOK
  <2>2. b.req # r
    BY <1>1, <2>1 DEF Committed
  <2> QED
    BY <2>1, <2>2 DEF OthersStay, StoreUpload, TypeOK
<1>8. ThreadsServeOne'
  BY <1>1, <1>2, ThreadStep DEF FileInv
<1>9. ASSUME NEW i \in DOMAIN hooks[t]
      PROVE  /\ hooks[t][i][1] = r /\ hooks[t][i] # x /\ hooks[t][i] \in draft[r].archivos
             /\ hooks[t][i] \in partial
             /\ \A j \in DOMAIN hooks[t] : hooks[t][j] = hooks[t][i] => j = i
  <2>1. hooks[t][i][1] = r
    BY <1>2, HookFacts, OneOnThread DEF FileInv, t
  <2>2. hooks[t][i] \in draft[r].archivos /\ hooks[t][i] \in partial
        /\ \A j \in DOMAIN hooks[t] : hooks[t][j] = hooks[t][i] => j = i
    BY <1>2, <2>1, HookFacts
  <2> QED
    BY <1>5, <2>1, <2>2
<1>10. HooksAreOfTheDraft'
  <2> SUFFICES ASSUME NEW u \in Threads, NEW i \in DOMAIN hooks'[u]
               PROVE  LET z == hooks'[u][i] IN
                      /\ pc'[z[1]] \in {"storing", "renaming"} /\ thread'[z[1]] = u
                      /\ z \in draft'[z[1]].archivos
                      /\ z \in partial'
                      /\ \A j \in DOMAIN hooks'[u] : hooks'[u][j] = z => j = i
    BY DEF HooksAreOfTheDraft
  <2>1. CASE u # t
    <3> DEFINE y == hooks'[u][i]
    <3>1. hooks'[u] = hooks[u] /\ i \in DOMAIN hooks[u] /\ y = hooks[u][i]
      BY <1>3, <2>1
    <3>2. /\ y[1] \in Requests /\ thread[y[1]] = u
          /\ pc[y[1]] \in {"storing", "renaming"}
          /\ y \in draft[y[1]].archivos /\ y \in partial
          /\ \A j \in DOMAIN hooks[u] : hooks[u][j] = y => j = i
      BY <3>1, HookFacts
    <3>3. \A j \in DOMAIN hooks'[u] : hooks'[u][j] = y => j = i
      BY <3>1, <3>2
    <3> HIDE DEF y
    <3>4. y[1] # r
      BY <2>1, <3>2 DEF t
    <3>5. /\ pc'[y[1]] \in {"storing", "renaming"} /\ thread'[y[1]] = u
          /\ y \in draft'[y[1]].archivos /\ y \in partial'
      BY <1>1, <1>3, <3>2, <3>4 DEF OthersStay
    <3> QED
      BY <3>3, <3>5 DEF y
  <2>2. CASE u = t /\ i \in DOMAIN hooks[t]
    <3> DEFINE y == hooks[t][i]
    <3>1. y[1] = r /\ y \in draft[r].archivos /\ y \in partial
      BY <1>9, <2>2
    <3>2. hooks'[t][i] = y
      BY <1>3, <2>2
    <3>3. \A j \in DOMAIN hooks'[t] : hooks'[t][j] = y => j = i
      BY <1>3, <1>9, <2>2
    <3> HIDE DEF y
    <3>4. pc'[r] \in {"storing", "renaming"} /\ thread'[r] = t
      BY <1>1 DEF t
    <3>5. y \in draft'[r].archivos /\ y \in partial'
      BY <1>1, <1>3, <3>1
    <3> QED
      BY <2>2, <3>1, <3>2, <3>3, <3>4, <3>5
  <2>3. CASE u = t /\ i \notin DOMAIN hooks[t]
    <3>1. hooks'[t][i] = x
      BY <1>3, <2>3
    <3>2. \A j \in DOMAIN hooks'[t] : hooks'[t][j] = x => j = i
      BY <1>3, <1>9, <2>3
    <3>3. thread'[r] = t
      BY <1>1 DEF t
    <3> QED
      BY <1>1, <1>2, <1>3, <2>3, <3>1, <3>2, <3>3
  <2> QED
    BY <2>1, <2>2, <2>3
<1>11. PendingIsStored' /\ SweepIsPrivate'
  <2> SUFFICES ASSUME NEW u \in Threads, NEW z \in pending'[u]
               PROVE  /\ pc'[z[1]] \in {"storing", "renaming", "cleaning"}
                      /\ thread'[z[1]] = u
                      /\ \/ pc'[z[1]] = "cleaning"
                         \/ \E i \in DOMAIN hooks'[u] : hooks'[u][i] = z
    BY DEF PendingIsStored, SweepIsPrivate, Scheduled, Running
  <2>1. CASE z \in pending[u]
    <3>1. /\ pc[z[1]] \in {"storing", "renaming", "cleaning"} /\ thread[z[1]] = u
          /\ pc[z[1]] = "cleaning" \/ \E i \in DOMAIN hooks[u] : hooks[u][i] = z
      BY <2>1, PendingFacts DEF Scheduled
    <3>2. \A i \in DOMAIN hooks[u] : i \in DOMAIN hooks'[u] /\ hooks'[u][i] = hooks[u][i]
      BY <1>3
    <3> QED
      BY <1>1, <3>1, <3>2
  <2>2. CASE z \notin pending[u]
    <3>1. u = t /\ z = x
      BY <1>3, <2>2
    <3>2. Len(hooks'[t]) \in DOMAIN hooks'[t] /\ hooks'[t][Len(hooks'[t])] = x
      BY <1>3
    <3>3. pc'[x[1]] \in {"storing", "renaming", "cleaning"} /\ thread'[x[1]] = t
      BY <1>1, <1>2 DEF t
    <3> QED
      BY <3>1, <3>2, <3>3
  <2> QED
    BY <2>1, <2>2
<1>12. ASSUME NEW s \in Requests \ {r}, pc[s] \in Running
       PROVE  thread[s] \in Threads /\ hooks'[thread[s]] = hooks[thread[s]]
  BY <1>2, <1>3, <1>12, OneOnThread DEF FileInv, ThreadsServeOne, t
<1>13. StoredAreScheduled'
  <2> SUFFICES ASSUME NEW s \in Requests, pc'[s] \in {"admitted", "storing"},
                      NEW z \in draft'[s].archivos
               PROVE  \E i \in DOMAIN hooks'[thread'[s]] : hooks'[thread'[s]][i] = z
    BY DEF StoredAreScheduled, Scheduled
  <2>1. CASE s # r
    <3>1. pc[s] \in Running /\ Scheduled(z, thread[s]) /\ thread'[s] = thread[s]
      BY <1>1, <2>1 DEF FileInv, StoredAreScheduled, OthersStay, Running
    <3> QED
      BY <1>12, <2>1, <3>1 DEF Scheduled
  <2>2. CASE s = r /\ z \in draft[r].archivos
    <3>1. PICK i \in DOMAIN hooks[t] : hooks[t][i] = z
      BY <1>1, <2>2 DEF FileInv, StoredAreScheduled, Scheduled, t
    <3>2. i \in DOMAIN hooks'[t] /\ hooks'[t][i] = z
      BY <1>3, <3>1
    <3> QED
      BY <1>1, <2>2, <3>2 DEF t
  <2>3. CASE s = r /\ z = x
    <3>1. Len(hooks'[t]) \in DOMAIN hooks'[t] /\ hooks'[t][Len(hooks'[t])] = x
      BY <1>3
    <3> QED
      BY <1>1, <2>3, <3>1 DEF t
  <2> QED
    BY <1>1, <2>1, <2>2, <2>3
<1>14. RenamedOrScheduled'
  <2> SUFFICES ASSUME NEW s \in Requests, pc'[s] = "renaming"
               PROVE  /\ draft'[s] \in batches'
                      /\ \A z \in draft'[s].archivos :
                           \/ z \in final'
                           \/ \E i \in DOMAIN hooks'[thread'[s]] : hooks'[thread'[s]][i] = z
    BY DEF RenamedOrScheduled, Scheduled
  <2>1. s # r
    BY <1>1
  <2>2. /\ pc[s] \in Running /\ thread'[s] = thread[s] /\ draft'[s] = draft[s]
        /\ draft[s] \in batches
        /\ \A z \in draft[s].archivos : z \in final \/ Scheduled(z, thread[s])
    BY <1>1, <2>1 DEF FileInv, RenamedOrScheduled, OthersStay, Running
  <2> QED
    BY <1>1, <1>12, <2>1, <2>2 DEF Scheduled
<1>15. FinalFilesHaveRows'
  BY <1>1 DEF FileInv, FinalFilesHaveRows
<1> QED
  BY <1>6, <1>7, <1>8, <1>10, <1>11, <1>13, <1>14, <1>15 DEF FileInv

\* The rename of a file of the committed batch.
LEMMA FileRename ==
  ASSUME TypeOK, FileInv, NEW r \in Requests, thread[r] \in Threads, pc[r] = "renaming",
         Rename(thread[r]), UNCHANGED <<batches, posting>>
  PROVE  FileInv'
<1> DEFINE t == thread[r]
           x == Head(hooks[t])
<1>1. /\ hooks[t] # <<>> /\ hooks[t] \in Seq(Files) /\ t \in Threads
      /\ 1 \in DOMAIN hooks[t] /\ x = hooks[t][1]
  BY DEF Rename, TypeOK
<1>2. /\ partial' = partial \ {x} /\ final' = final \cup {x}
      /\ hooks'[t] = Tail(hooks[t])
      /\ \A u \in Threads \ {t} : hooks'[u] = hooks[u]
      /\ \A u \in Threads : pending'[u] \subseteq pending[u]
      /\ x \notin pending'[t]
  BY DEF Rename, TypeOK
<1> HIDE DEF x, t
<1>3. /\ \A i \in DOMAIN hooks'[t] : i + 1 \in DOMAIN hooks[t] /\ hooks'[t][i] = hooks[t][i + 1]
      /\ \A i \in DOMAIN hooks'[t] : i \in Nat \ {0}
      /\ \A k \in DOMAIN hooks[t] : k = 1 \/ (k - 1 \in DOMAIN hooks'[t] /\ (k - 1) + 1 = k)
  BY <1>1, <1>2
<1>4. /\ x[1] = r /\ x \in draft[r].archivos
      /\ \A j \in DOMAIN hooks[t] : hooks[t][j] = x => j = 1
  BY <1>1, HookFacts, OneOnThread DEF FileInv, t, Running
<1>5. ThreadsServeOne' /\ DraftsCountDown' /\ BatchesAreDrafts'
  BY DEF FileInv, ThreadsServeOne, DraftsCountDown, BatchesAreDrafts
<1>6. HooksAreOfTheDraft'
  <2> SUFFICES ASSUME NEW u \in Threads, NEW i \in DOMAIN hooks'[u]
               PROVE  LET z == hooks'[u][i] IN
                      /\ pc[z[1]] \in {"storing", "renaming"} /\ thread[z[1]] = u
                      /\ z \in draft[z[1]].archivos
                      /\ z \in partial'
                      /\ \A j \in DOMAIN hooks'[u] : hooks'[u][j] = z => j = i
    BY DEF HooksAreOfTheDraft
  <2>1. CASE u # t
    <3> DEFINE y == hooks'[u][i]
    <3>1. hooks'[u] = hooks[u] /\ i \in DOMAIN hooks[u] /\ y = hooks[u][i]
      BY <1>2, <2>1
    <3>2. /\ thread[y[1]] = u /\ pc[y[1]] \in {"storing", "renaming"}
          /\ y \in draft[y[1]].archivos /\ y \in partial
          /\ \A j \in DOMAIN hooks[u] : hooks[u][j] = y => j = i
      BY <3>1, HookFacts
    <3>3. \A j \in DOMAIN hooks'[u] : hooks'[u][j] = y => j = i
      BY <3>1, <3>2
    <3> HIDE DEF y
    <3>4. y # x
      BY <1>4, <2>1, <3>2 DEF t
    <3>5. y \in partial'
      BY <1>2, <3>2, <3>4
    <3> QED
      BY <3>2, <3>3, <3>5 DEF y
  <2>2. CASE u = t
    <3> DEFINE y == hooks'[t][i]
    <3>1. i + 1 \in DOMAIN hooks[t] /\ y = hooks[t][i + 1] /\ i \in Nat \ {0}
      BY <1>3, <2>2
    <3>2. /\ thread[y[1]] = t /\ pc[y[1]] \in {"storing", "renaming"}
          /\ y \in draft[y[1]].archivos /\ y \in partial
          /\ \A j \in DOMAIN hooks[t] : hooks[t][j] = y => j = i + 1
      BY <1>1, <3>1, HookFacts
    <3>3. \A j \in DOMAIN hooks'[t] : hooks'[t][j] = y => j = i
      <4> TAKE j \in DOMAIN hooks'[t]
      <4> HAVE hooks'[t][j] = y
      <4>1. j + 1 \in DOMAIN hooks[t] /\ hooks[t][j + 1] = y /\ j \in Nat
        BY <1>3
      <4>2. j + 1 = i + 1
        BY <3>2, <4>1
      <4> QED
        BY <3>1, <4>1, <4>2
    <3>4. y # x
      BY <1>4, <3>1
    <3> HIDE DEF y
    <3>5. y \in partial'
      BY <1>2, <3>2, <3>4
    <3> QED
      BY <2>2, <3>2, <3>3, <3>5 DEF y
  <2> QED
    BY <2>1, <2>2
<1>7. ASSUME NEW s \in Requests, pc[s] \in Running, NEW z, Scheduled(z, thread[s])
      PROVE  \/ z = x /\ s = r
             \/ \E i \in DOMAIN hooks'[thread[s]] : hooks'[thread[s]][i] = z
  <2>1. CASE thread[s] # t
    <3>1. thread[s] \in Threads
      BY <1>7 DEF FileInv, ThreadsServeOne
    <3> QED
      BY <1>2, <1>7, <2>1, <3>1 DEF Scheduled
  <2>2. CASE thread[s] = t
    <3>1. s = r
      BY <1>7, <2>2, OneOnThread DEF FileInv, t, Running
    <3>2. PICK k \in DOMAIN hooks[t] : hooks[t][k] = z
      BY <1>7, <2>2 DEF Scheduled
    <3> QED
      BY <1>1, <1>3, <2>2, <3>1, <3>2
  <2> QED
    BY <2>1, <2>2
<1>8. PendingIsStored' /\ SweepIsPrivate'
  <2> SUFFICES ASSUME NEW u \in Threads, NEW z \in pending'[u]
               PROVE  /\ pc[z[1]] \in {"storing", "renaming", "cleaning"}
                      /\ thread[z[1]] = u
                      /\ \/ pc[z[1]] = "cleaning"
                         \/ \E i \in DOMAIN hooks'[u] : hooks'[u][i] = z
    BY DEF PendingIsStored, SweepIsPrivate, Scheduled, Running
  <2>1. /\ z[1] \in Requests /\ pc[z[1]] \in {"storing", "renaming", "cleaning"}
        /\ pc[z[1]] \in Running /\ thread[z[1]] = u
        /\ pc[z[1]] = "cleaning" \/ Scheduled(z, thread[z[1]])
    BY <1>2, PendingFacts
  <2>2. z # x
    BY <1>2, <1>4, <2>1 DEF t
  <2> QED
    BY <1>7, <2>1, <2>2
<1>9. StoredAreScheduled'
  <2> SUFFICES ASSUME NEW s \in Requests, pc[s] \in {"admitted", "storing"},
                      NEW z \in draft[s].archivos
               PROVE  \E i \in DOMAIN hooks'[thread[s]] : hooks'[thread[s]][i] = z
    BY DEF StoredAreScheduled, Scheduled
  <2>1. Scheduled(z, thread[s]) /\ s # r /\ pc[s] \in Running
    BY DEF FileInv, StoredAreScheduled, Running
  <2> QED
    BY <1>7, <2>1
<1>10. RenamedOrScheduled'
  <2> SUFFICES ASSUME NEW s \in Requests, pc[s] = "renaming"
               PROVE  /\ draft[s] \in batches
                      /\ \A z \in draft[s].archivos :
                           \/ z \in final'
                           \/ \E i \in DOMAIN hooks'[thread[s]] : hooks'[thread[s]][i] = z
    BY DEF RenamedOrScheduled, Scheduled
  <2>1. /\ draft[s] \in batches /\ pc[s] \in Running
        /\ \A z \in draft[s].archivos : z \in final \/ Scheduled(z, thread[s])
    BY DEF FileInv, RenamedOrScheduled, Running
  <2> QED
    BY <1>2, <1>7, <2>1
<1>11. FinalFilesHaveRows'
  <2>1. draft[r] \in batches
    BY DEF FileInv, RenamedOrScheduled
  <2> QED
    BY <1>2, <1>4, <2>1 DEF FileInv, FinalFilesHaveRows
<1> QED
  BY <1>5, <1>6, <1>8, <1>9, <1>10, <1>11 DEF FileInv

\* A callback that raises drops the others; with none left the request is done.
LEMMA FileHooks ==
  ASSUME TypeOK, FileInv, NEW r \in Requests, thread[r] \in Threads, RunHook(r)
  PROVE  FileInv'
<1>1. /\ TypeOK' /\ OthersStay(r) /\ pc[r] = "renaming" /\ pc[r] \in Running
      /\ UNCHANGED <<batches, thread, todo, draft>>
  BY RunHookFacts DEF Running
<1>2. CASE Rename(thread[r]) /\ UNCHANGED pc
  BY <1>1, <1>2, FileRename
<1>3. CASE RenameBreaks(thread[r]) /\ Goto(r, "cleaning")
  <2>1. pc'[r] = "cleaning"
    BY <1>3 DEF Goto, TypeOK
  <2>2. UNCHANGED <<partial, final>> /\ hooks' = [hooks EXCEPT ![thread[r]] = <<>>]
    BY <1>3 DEF RenameBreaks
  <2>3. \A t \in Threads : pending'[t] \subseteq pending[t]
    BY <1>3 DEF RenameBreaks, TypeOK
  <2>4. \A t \in Threads \ {thread[r]} : hooks'[t] = hooks[t]
    BY <2>2 DEF TypeOK
  <2>5. hooks'[thread[r]] = <<>>
    BY <2>2 DEF TypeOK
  <2>6. DOMAIN hooks'[thread[r]] = {} /\ hooks'[thread[r]] = <<>>
    BY <2>5
  <2>7. /\ pc'[r] \in {"cleaning", "failed", "crashed", "done"} /\ final' = final
        /\ partial \ pending[thread[r]] \subseteq partial'
    BY <2>1, <2>2
  <2> QED
    BY <1>1, <2>1, <2>3, <2>4, <2>6, <2>7, FileDrop
<1>4. CASE hooks[thread[r]] = <<>> /\ Goto(r, "done") /\ UNCHANGED storage
  <2>1. pc'[r] = "done"
    BY <1>4 DEF Goto, TypeOK
  <2>2. ThreadsServeOne'
    BY <1>1, <2>1, ThreadStep DEF FileInv, Running
  <2>3. DraftsCountDown' /\ BatchesAreDrafts'
    BY <1>1, <2>1, SameDrafts DEF Committed
  <2>4. \A t \in Threads : \A i \in DOMAIN hooks'[t] :
          hooks'[t][i] \in partial' /\ hooks'[t][i][1] # r
    <3> SUFFICES ASSUME NEW t \in Threads, NEW i \in DOMAIN hooks[t]
                 PROVE  hooks[t][i] \in partial /\ hooks[t][i][1] # r
      BY <1>4
    <3>1. t # thread[r]
      BY <1>4
    <3> QED
      BY <3>1, HookFacts
  <2>5. \A t \in Threads : \A x \in pending'[t] : x[1] # r
    <3> SUFFICES ASSUME NEW t \in Threads, NEW x \in pending[t], x[1] = r PROVE FALSE
      BY <1>4
    <3>1. t = thread[r] /\ Scheduled(x, t)
      BY <1>1, PendingFacts
    <3> QED
      BY <1>4, <3>1 DEF Scheduled
  <2> QED
    BY <1>1, <1>4, <2>1, <2>2, <2>3, <2>4, <2>5, FileStep
<1> QED
  BY <1>2, <1>3, <1>4 DEF RunHook
-----------------------------------------------------------------------------
(***************************************************************************)
(* What users are told.                                                    *)
(***************************************************************************)
\* A step of a POST that tells the truth when it ends: rows, files and log lines
\* only get more.
LEMMA OutcomeStep ==
  ASSUME TypeOK, FileInv, OutcomeInv, NEW r \in Requests, OthersStay(r),
         UNCHANGED <<Column, reading>>, final \subseteq final', logged \subseteq logged',
         batches \subseteq batches', batches' \subseteq batches \cup {draft[r]},
         pc'[r] = "done" => draft'[r] \in batches' /\ draft'[r].archivos \subseteq final',
         pc'[r] \in {"cleaning", "failed"} =>
           \/ draft'[r] \notin batches'
           \/ \E x \in draft'[r].archivos : x \in logged'
  PROVE  OutcomeInv'
<1>1. DoneIsWhole'
  BY DEF OutcomeInv, DoneIsWhole, OthersStay
<1>2. TroubleIsLogged'
  <2> SUFFICES ASSUME NEW s \in Requests \ {r}, pc'[s] \in {"cleaning", "failed"},
                      draft'[s] \in batches'
               PROVE  \E x \in draft'[s].archivos : x \in logged'
    BY DEF TroubleIsLogged
  <2>1. draft[s].req = s /\ draft[r].req = r
    BY DEF FileInv, DraftsCountDown
  <2>2. draft[s] \in batches /\ pc[s] \in {"cleaning", "failed"} /\ draft'[s] = draft[s]
    BY <2>1 DEF OthersStay
  <2> QED
    BY <2>2 DEF OutcomeInv, TroubleIsLogged
<1>3. AskedAreFiled'
  BY DEF OutcomeInv, AskedAreFiled
<1>4. SolicitanteReadsAfterFinal'
  BY DEF OutcomeInv, SolicitanteReadsAfterFinal
<1> QED
  BY <1>1, <1>2, <1>3, <1>4 DEF OutcomeInv

\* Before the COMMIT.
LEMMA OutcomeEarly ==
  ASSUME TypeOK, FileInv, OutcomeInv, NEW r \in Requests,
         \/ \E t \in Threads : Admit(r, t)
         \/ thread[r] \in Threads /\ (\/ Begin(r) \/ StoreUpload(r) \/ Commit(r)
                                      \/ UploadBreaks(r) \/ Abort(r))
  PROVE  OutcomeInv'
<1>1. CASE \E t \in Threads : Admit(r, t)
  <2>1. /\ OthersStay(r) /\ UNCHANGED <<Column, batches, reading, final, logged>>
        /\ pc'[r] \in {"refused", "admitted"}
    BY <1>1, AdmitFacts
  <2> QED
    BY <2>1, OutcomeStep
<1>2. CASE Begin(r)
  <2>1. /\ OthersStay(r) /\ UNCHANGED <<Column, batches, reading, final, logged>>
        /\ pc'[r] = "storing"
    BY <1>2, BeginFacts
  <2> QED
    BY <2>1, OutcomeStep
<1>3. CASE thread[r] \in Threads /\ StoreUpload(r)
  <2>1. /\ OthersStay(r) /\ UNCHANGED <<Column, batches, reading, final, logged>>
        /\ pc'[r] = "storing"
    BY <1>3, StoreUploadFacts
  <2> QED
    BY <2>1, OutcomeStep
<1>4. CASE Commit(r)
  <2>1. /\ OthersStay(r) /\ UNCHANGED <<Column, reading, final, logged>>
        /\ pc'[r] = "renaming" /\ batches' = batches \cup {draft[r]}
    BY <1>4, CommitFacts
  <2> QED
    BY <2>1, OutcomeStep
<1>5. CASE thread[r] \in Threads /\ (UploadBreaks(r) \/ Abort(r))
  <2>1. /\ OthersStay(r) /\ UNCHANGED <<Column, batches, draft, reading, final, logged>>
        /\ pc[r] = "storing" /\ pc'[r] = "cleaning"
    BY <1>5, RollBackFacts
  <2>2. draft[r] \notin batches
    BY <2>1, NoBatchYet DEF Committed
  <2> QED
    BY <2>1, <2>2, OutcomeStep
<1> QED
  BY <1>1, <1>2, <1>3, <1>4, <1>5

\* After it.
LEMMA OutcomeLate ==
  ASSUME TypeOK, FileInv, OutcomeInv, NEW r \in Requests, thread[r] \in Threads,
         RunHook(r) \/ Sweep(r) \/ Crash(r)
  PROVE  OutcomeInv'
<1>1. CASE RunHook(r)
  <2>1. /\ OthersStay(r) /\ pc[r] = "renaming"
        /\ UNCHANGED <<Column, batches, thread, todo, draft, reading>>
    BY <1>1, RunHookFacts
  <2>2. /\ draft[r] \in batches
        /\ \A x \in draft[r].archivos : x \in final \/ Scheduled(x, thread[r])
    BY <2>1 DEF FileInv, RenamedOrScheduled
  <2>3. CASE Rename(thread[r]) /\ UNCHANGED pc
    <3>1. final \subseteq final' /\ logged' = logged /\ pc'[r] = "renaming"
      BY <2>1, <2>3 DEF Rename
    <3> QED
      BY <2>1, <3>1, OutcomeStep
  <2>4. CASE RenameBreaks(thread[r]) /\ Goto(r, "cleaning")
    <3> DEFINE x == Head(hooks[thread[r]])
    <3>1. /\ hooks[thread[r]] # <<>> /\ final' = final /\ logged' = logged \cup {x}
      BY <2>4 DEF RenameBreaks
    <3>2. 1 \in DOMAIN hooks[thread[r]] /\ x = hooks[thread[r]][1]
      BY <3>1 DEF TypeOK
    <3>3. x \in draft[r].archivos
      BY <2>1, <3>2, HookFacts, OneOnThread DEF FileInv, Running
    <3>4. pc'[r] = "cleaning" /\ \E y \in draft'[r].archivos : y \in logged'
      BY <2>1, <2>4, <3>1, <3>3 DEF Goto, TypeOK
    <3>5. final \subseteq final' /\ logged \subseteq logged'
      BY <3>1
    <3> HIDE DEF x
    <3> QED
      BY <2>1, <3>4, <3>5, OutcomeStep
  <2>5. CASE hooks[thread[r]] = <<>> /\ Goto(r, "done") /\ UNCHANGED storage
    <3>1. draft'[r].archivos \subseteq final' /\ draft'[r] \in batches'
      BY <2>1, <2>2, <2>5 DEF Scheduled
    <3>2. pc'[r] = "done"
      BY <2>5 DEF Goto, TypeOK
    <3> QED
      BY <2>1, <2>5, <3>1, <3>2, OutcomeStep
  <2> QED
    BY <1>1, <2>3, <2>4, <2>5 DEF RunHook
<1>2. CASE Sweep(r)
  <2>1. /\ OthersStay(r) /\ UNCHANGED <<Column, batches, draft, reading, final>>
        /\ pc[r] = "cleaning" /\ pc'[r] = "failed" /\ logged \subseteq logged'
    BY <1>2, SweepFacts
  <2>2. draft[r] \notin batches \/ \E x \in draft[r].archivos : x \in logged'
    BY <2>1 DEF OutcomeInv, TroubleIsLogged
  <2> QED
    BY <2>1, <2>2, OutcomeStep
<1>3. CASE Crash(r)
  <2>1. /\ OthersStay(r) /\ UNCHANGED <<Column, batches, draft, reading, final>>
        /\ pc'[r] = "crashed" /\ logged \subseteq logged'
    BY <1>3, CrashFacts
  <2> QED
    BY <2>1, OutcomeStep
<1> QED
  BY <1>1, <1>2, <1>3

\* A GET reads rows that stay, under a permission that rests on the past.
LEMMA ReadFacts ==
  ASSUME TypeOK, TakeInv, FileInv, OutcomeInv, NEW g \in Readers, Read(g)
  PROVE  /\ TypeOK' /\ OutcomeInv'
         /\ UNCHANGED <<Column, batches, posting, storage>>
<1>1. UNCHANGED <<Column, responsible, batches, posting, storage>>
  BY DEF Read, FindArchivo, AuthorizeDownload, OpenFile, AuthorizeList, ReadList
<1>2. /\ \A h \in Readers \ {g} : at'[h] = at[h] /\ ask'[h] = ask[h]
      /\ at' \in [Readers -> {"idle", "found", "cleared", "served", "missing",
                              "listing", "listed", "denied"}]
      /\ ask' \in [Readers -> Asked]
      /\ at'[g] \in {"found", "cleared", "served", "missing"} =>
           \E b \in batches : ask'[g].files \subseteq b.archivos
      /\ at'[g] \in {"cleared", "served", "missing", "listing", "listed"} =>
           \/ CanRead(ask'[g].folio, ask'[g].actor, ask'[g].role)
           \/ /\ at[g] \in {"cleared", "served", "missing", "listing", "listed"}
              /\ ask'[g].folio = ask[g].folio /\ ask'[g].actor = ask[g].actor
              /\ ask'[g].role = ask[g].role
      /\ ask'[g].folio \in Folios
  <2>1. CASE FindArchivo(g)
    <3>1. PICK b \in batches, u \in Users : \E x \in b.archivos, role \in RolesOf[u] :
            ask' = [ask EXCEPT ![g] = [folio |-> b.folio, actor |-> u, role |-> role,
                                       files |-> {x}]]
      BY <2>1 DEF FindArchivo
    <3>2. PICK x \in b.archivos, role \in RolesOf[u] :
            ask' = [ask EXCEPT ![g] = [folio |-> b.folio, actor |-> u, role |-> role,
                                       files |-> {x}]]
      BY <3>1
    <3> DEFINE q == [folio |-> b.folio, actor |-> u, role |-> role, files |-> {x}]
    <3>3. b \in Batch /\ role \in Roles
      BY RolesAssumption DEF TypeOK
    <3>4. b.folio \in Folios /\ {x} \in SUBSET Files
      BY <3>3, BatchType
    <3>5. q \in Asked /\ q.files = {x} /\ q.folio = b.folio
      BY <3>3, <3>4 DEF Asked
    <3>6. ask' = [ask EXCEPT ![g] = q]
      BY <3>2
    <3> HIDE DEF q
    <3>7. at' = [at EXCEPT ![g] = "found"]
      BY <2>1 DEF FindArchivo
    <3> QED
      BY <3>4, <3>5, <3>6, <3>7 DEF TypeOK
  <2>2. CASE AuthorizeDownload(g) \/ OpenFile(g)
    <3>1. /\ ask' = ask /\ ask[g].folio \in Folios
          /\ at[g] \in {"found", "cleared"}
          /\ \/ at' = [at EXCEPT ![g] = "denied"]
             \/ /\ at' = [at EXCEPT ![g] = "cleared"]
                /\ CanRead(ask[g].folio, ask[g].actor, ask[g].role)
             \/ /\ at' = [at EXCEPT ![g] = "served"] \/ at' = [at EXCEPT ![g] = "missing"]
                /\ at[g] = "cleared"
      BY <2>2 DEF AuthorizeDownload, OpenFile, TypeOK, Asked
    <3>2. \E b \in batches : ask[g].files \subseteq b.archivos
      BY <3>1 DEF OutcomeInv, AskedAreFiled
    <3>3. \A h \in Readers \ {g} : at'[h] = at[h]
      BY <3>1 DEF TypeOK
    <3>4. /\ at' \in [Readers -> {"idle", "found", "cleared", "served", "missing",
                                  "listing", "listed", "denied"}]
      BY <3>1 DEF TypeOK
    <3>5. \/ at'[g] = "denied"
          \/ at'[g] = "cleared" /\ CanRead(ask[g].folio, ask[g].actor, ask[g].role)
          \/ at'[g] \in {"served", "missing"} /\ at[g] = "cleared"
      BY <3>1 DEF TypeOK
    <3> QED
      BY <3>1, <3>2, <3>3, <3>4, <3>5 DEF TypeOK
  <2>3. CASE AuthorizeList(g)
    <3>1. PICK f \in Folios, u \in Users : \E role \in RolesOf[u] :
            /\ ask' = [ask EXCEPT ![g] = [folio |-> f, actor |-> u, role |-> role, files |-> {}]]
            /\ at' = [at EXCEPT ![g] = IF CanRead(f, u, role) THEN "listing" ELSE "denied"]
      BY <2>3 DEF AuthorizeList
    <3>2. PICK role \in RolesOf[u] :
            /\ ask' = [ask EXCEPT ![g] = [folio |-> f, actor |-> u, role |-> role, files |-> {}]]
            /\ at' = [at EXCEPT ![g] = IF CanRead(f, u, role) THEN "listing" ELSE "denied"]
      BY <3>1
    <3> DEFINE q == [folio |-> f, actor |-> u, role |-> role, files |-> {}]
    <3>3. role \in Roles /\ {} \in SUBSET Files
      BY RolesAssumption
    <3>4. q \in Asked /\ q.folio = f /\ q.actor = u /\ q.role = role
      BY <3>3 DEF Asked
    <3>5. ask' = [ask EXCEPT ![g] = q]
      BY <3>2
    <3> HIDE DEF q
    <3>6. /\ ask' \in [Readers -> Asked] /\ ask'[g] = q
          /\ \A h \in Readers \ {g} : ask'[h] = ask[h]
      BY <3>4, <3>5 DEF TypeOK
    <3>7. /\ at' \in [Readers -> {"idle", "found", "cleared", "served", "missing",
                                  "listing", "listed", "denied"}]
          /\ at'[g] \in {"listing", "denied"}
          /\ \A h \in Readers \ {g} : at'[h] = at[h]
      BY <3>2 DEF TypeOK
    <3>8. at'[g] = "denied" \/ CanRead(f, u, role)
      <4>1. CASE ~CanRead(f, u, role)
        <5>1. at' = [at EXCEPT ![g] = "denied"]
          BY <3>2, <4>1
        <5> QED
          BY <5>1 DEF TypeOK
      <4> QED
        BY <4>1
    <3> QED
      BY <3>4, <3>6, <3>7, <3>8
  <2>4. CASE ReadList(g)
    <3> DEFINE files == UNION { b.archivos : b \in { c \in batches : c.folio = ask[g].folio } }
               q == [ask[g] EXCEPT !.files = files]
    <3>1. files \in SUBSET Files
      BY BatchType DEF TypeOK
    <3> HIDE DEF files
    <3>2. /\ q \in Asked /\ q.folio = ask[g].folio /\ q.actor = ask[g].actor
          /\ q.role = ask[g].role /\ q.folio \in Folios
      <4> DEFINE S == SUBSET Files
      <4>1. Asked = [folio: Folios, actor: Users, role: Roles, files: S]
        BY DEF Asked
      <4>2. ask[g] \in Asked /\ files \in S
        BY <3>1 DEF TypeOK
      <4> HIDE DEF S
      <4> QED
        BY <4>1, <4>2
    <3>3. ask' = [ask EXCEPT ![g] = q]
      BY <2>4 DEF ReadList, files
    <3> HIDE DEF q
    <3>4. at[g] = "listing" /\ at' = [at EXCEPT ![g] = "listed"]
      BY <2>4 DEF ReadList
    <3> QED
      BY <3>2, <3>3, <3>4 DEF TypeOK
  <2> QED
    BY <2>1, <2>2, <2>3, <2>4 DEF Read
<1>3. TypeOK'
  BY <1>1, <1>2 DEF TypeOK
<1>4. AskedAreFiled'
  BY <1>1, <1>2 DEF OutcomeInv, AskedAreFiled
<1>5. SolicitanteReadsAfterFinal'
  <2> SUFFICES ASSUME NEW h \in Readers, ask'[h].role \notin ReviewerRoles,
                      at'[h] \in {"cleared", "served", "missing", "listing", "listed"}
               PROVE  /\ ask'[h].actor = Owner[ask'[h].folio]
                      /\ "FINALIZADA" \in past[ask'[h].folio]
    BY <1>1 DEF SolicitanteReadsAfterFinal
  <2>1. CASE h # g
    BY <1>2, <2>1 DEF OutcomeInv, SolicitanteReadsAfterFinal
  <2>2. CASE h = g /\ CanRead(ask'[g].folio, ask'[g].actor, ask'[g].role)
    BY <1>2, <2>2, ResponsibleReviews DEF CanRead, TakeInv, PresentIsPast, ReviewerRoles
  <2>3. CASE /\ h = g
             /\ at[g] \in {"cleared", "served", "missing", "listing", "listed"}
             /\ ask'[g].folio = ask[g].folio /\ ask'[g].actor = ask[g].actor
             /\ ask'[g].role = ask[g].role
    BY <2>3 DEF OutcomeInv, SolicitanteReadsAfterFinal
  <2> QED
    BY <1>2, <2>1, <2>2, <2>3
<1>6. DoneIsWhole' /\ TroubleIsLogged'
  BY <1>1 DEF OutcomeInv, DoneIsWhole, TroubleIsLogged
<1> QED
  BY <1>1, <1>3, <1>4, <1>5, <1>6 DEF OutcomeInv
-----------------------------------------------------------------------------
(***************************************************************************)
(* The invariant.                                                          *)
(***************************************************************************)
\* What every step of a running POST starts from.
LEMMA RunningFacts ==
  ASSUME IInv, NEW r \in Requests
  PROVE  /\ TypeOK /\ TakeInv /\ FileInv /\ OutcomeInv
         /\ pc[r] \in Running => thread[r] \in Threads
BY DEF IInv, FileInv, ThreadsServeOne

\* A POST is taken up.
LEMMA AdmitStep == ASSUME IInv, NEW r \in Requests, NEW t \in Threads, Admit(r, t) PROVE IInv'
<1>1. TypeOK /\ TakeInv /\ FileInv /\ OutcomeInv
  BY DEF IInv
<1>2. /\ TypeOK' /\ OthersStay(r) /\ pc[r] = "idle" /\ UNCHANGED <<Column, batches>>
      /\ \/ pc'[r] = "refused"
         \/ /\ pc'[r] = "admitted"
            /\ draft'[r].folio \in Folios /\ estado[draft'[r].folio] = "EN_PROCESO"
            /\ draft'[r].role \in ReviewerRoles
  BY <1>1, AdmitFacts
<1>3. pc'[r] \in Running => /\ "EN_PROCESO" \in past[draft'[r].folio]
                            /\ draft'[r].role \in ReviewerRoles
  BY <1>1, <1>2 DEF TakeInv, PresentIsPast, Running
<1>4. TakeInv'
  BY <1>1, <1>2, <1>3, TakeStep
<1> QED
  BY <1>1, <1>2, <1>4, FileAdmit, OutcomeEarly DEF IInv

\* From atomic() to the COMMIT, or the ROLLBACK.
LEMMA EarlyStep ==
  ASSUME IInv, NEW r \in Requests,
         Begin(r) \/ StoreUpload(r) \/ Commit(r) \/ UploadBreaks(r) \/ Abort(r)
  PROVE  IInv'
<1>1. /\ TypeOK /\ TakeInv /\ FileInv /\ OutcomeInv /\ thread[r] \in Threads
      /\ pc[r] \in Running
  BY RunningFacts DEF Begin, StoreUpload, Commit, UploadBreaks, Abort, Running
<1>2. /\ TypeOK' /\ OthersStay(r) /\ UNCHANGED Column
      /\ batches' = batches \/ batches' = batches \cup {draft[r]}
      /\ draft'[r].folio = draft[r].folio /\ draft'[r].role = draft[r].role
      /\ FileInv'
  <2>1. CASE Begin(r)
    BY <1>1, <2>1, BeginFacts, FileBegin
  <2>2. CASE StoreUpload(r)
    BY <1>1, <2>2, StoreUploadFacts, FileStoreUpload
  <2>3. CASE Commit(r)
    BY <1>1, <2>3, CommitFacts, FileCommit
  <2>4. CASE UploadBreaks(r) \/ Abort(r)
    BY <1>1, <2>4, RollBackFacts, FileLoss
  <2> QED
    BY <2>1, <2>2, <2>3, <2>4
<1>3. "EN_PROCESO" \in past[draft[r].folio] /\ draft[r].role \in ReviewerRoles
  BY <1>1 DEF TakeInv, RunningFollowATake
<1>4. TakeInv'
  BY <1>1, <1>2, <1>3, TakeStep
<1>5. OutcomeInv'
  BY <1>1, OutcomeEarly
<1> QED
  BY <1>2, <1>4, <1>5 DEF IInv

\* The callbacks, the sweep and the death of the worker.
LEMMA LateStep ==
  ASSUME IInv, NEW r \in Requests, RunHook(r) \/ Sweep(r) \/ Crash(r)
  PROVE  IInv'
<1>1. /\ TypeOK /\ TakeInv /\ FileInv /\ OutcomeInv /\ thread[r] \in Threads
      /\ pc[r] \in Running
  BY RunningFacts DEF RunHook, Sweep, Crash, Running
<1>2. /\ TypeOK' /\ OthersStay(r) /\ UNCHANGED <<Column, batches, draft>> /\ FileInv'
  <2>1. CASE RunHook(r)
    BY <1>1, <2>1, RunHookFacts, FileHooks
  <2>2. CASE Sweep(r)
    BY <1>1, <2>2, SweepFacts, FileLoss
  <2>3. CASE Crash(r)
    BY <1>1, <2>3, CrashFacts, FileLoss
  <2> QED
    BY <2>1, <2>2, <2>3
<1>3. "EN_PROCESO" \in past[draft[r].folio] /\ draft[r].role \in ReviewerRoles
  BY <1>1 DEF TakeInv, RunningFollowATake
<1>4. TakeInv'
  BY <1>1, <1>2, <1>3, TakeStep
<1>5. OutcomeInv'
  BY <1>1, OutcomeLate
<1> QED
  BY <1>2, <1>4, <1>5 DEF IInv

\* The POSTs, the tables and the disk stay: so does what is said of them.
LEMMA FileIdle ==
  ASSUME FileInv, UNCHANGED <<batches, posting, storage>>
  PROVE  FileInv'
BY DEF FileInv, DraftsCountDown, BatchesAreDrafts, ThreadsServeOne, HooksAreOfTheDraft,
   StoredAreScheduled, RenamedOrScheduled, PendingIsStored, SweepIsPrivate,
   FinalFilesHaveRows, Scheduled

\* A GET.
LEMMA ReadStep == ASSUME IInv, NEW g \in Readers, Read(g) PROVE IInv'
<1>1. TypeOK' /\ OutcomeInv' /\ UNCHANGED <<Column, batches, posting, storage>>
  BY ReadFacts DEF IInv
<1>2. TakeInv'
  BY <1>1 DEF IInv, TakeInv, PresentIsPast, RunningFollowATake, AnswersFollowATake
<1> QED
  BY <1>1, <1>2, FileIdle DEF IInv

\* The lifecycle, the catalogue, and a step that changes nothing: the past grows.
LEMMA EnvironmentStep ==
  ASSUME IInv,
         \/ \E f \in Folios : Transition(f) \/ EditTipo(f)
         \/ UNCHANGED vars
  PROVE  IInv'
<1>1. UNCHANGED <<batches, posting, reading, storage>>
  BY DEF Transition, EditTipo, vars
<1>2. /\ TypeOK' /\ PresentIsPast' /\ \A e \in Folios : past[e] \subseteq past'[e]
  <2>1. CASE \E f \in Folios : Transition(f)
    <3>1. PICK f \in Folios : Transition(f)
      BY <2>1
    <3>2. Move(f) /\ UNCHANGED responsible
      BY <3>1 DEF Transition
    <3>3. /\ estado' \in [Folios -> Estados] /\ past' \in [Folios -> SUBSET Estados]
          /\ \A e \in Folios : past[e] \subseteq past'[e]
          /\ PresentIsPast'
      BY <3>2, MoveFacts DEF IInv, TakeInv
    <3> QED
      BY <1>1, <3>2, <3>3 DEF IInv, TypeOK
  <2>2. CASE \E f \in Folios : EditTipo(f)
    <3>1. responsible' \in [Folios -> CatalogueRoles] /\ UNCHANGED Column
      BY <2>2 DEF EditTipo, IInv, TypeOK
    <3> QED
      BY <1>1, <3>1 DEF IInv, TypeOK, TakeInv, PresentIsPast
  <2>3. CASE UNCHANGED vars
    BY <2>3 DEF vars, IInv, TypeOK, TakeInv, PresentIsPast
  <2> QED
    BY <2>1, <2>2, <2>3
<1>3. \A r \in Requests : draft[r].folio \in Folios
  BY BatchType DEF IInv, TypeOK
<1>4. \A b \in batches : b.folio \in Folios
  BY BatchType DEF IInv, TypeOK
<1>5. \A g \in Readers : ask[g].folio \in Folios
  BY DEF IInv, TypeOK, Asked
<1>6. TakeInv'
  BY <1>1, <1>2, <1>3, <1>4 DEF IInv, TakeInv, RunningFollowATake, AnswersFollowATake
<1>7. SolicitanteReadsAfterFinal'
  BY <1>1, <1>2, <1>5 DEF IInv, OutcomeInv, SolicitanteReadsAfterFinal
<1>8. OutcomeInv'
  BY <1>1, <1>7 DEF IInv, OutcomeInv, DoneIsWhole, TroubleIsLogged, AskedAreFiled
<1> QED
  BY <1>1, <1>2, <1>6, <1>8, FileIdle DEF IInv

\* Every step keeps the invariant.
LEMMA NextHolds == ASSUME IInv, [Next]_vars PROVE IInv'
<1>1. ASSUME NEW r \in Requests, Step(r) \/ Fault(r) PROVE IInv'
  BY <1>1, EarlyStep, LateStep DEF Step, Fault
<1>2. ASSUME NEW r \in Requests, NEW t \in Threads, Admit(r, t) PROVE IInv'
  BY <1>2, AdmitStep
<1>3. ASSUME NEW g \in Readers, Read(g) PROVE IInv'
  BY <1>3, ReadStep
<1>4. CASE (\E f \in Folios : Transition(f) \/ EditTipo(f)) \/ UNCHANGED vars
  BY <1>4, EnvironmentStep
<1> QED
  BY <1>1, <1>2, <1>3, <1>4 DEF Next

\* The inductive invariant of Respuesta.
THEOREM Invariance == Spec => []IInv
BY InitHolds, NextHolds, PTL DEF Spec

\* Every variable keeps its type.
THEOREM TypeCorrect == Spec => []TypeOK
<1>1. IInv => TypeOK
  BY DEF IInv
<1> QED
  BY <1>1, Invariance, PTL

\* The guard of create_batch is stale by the COMMIT, and yet it leaves this much:
\* an answer is on a solicitud that was in process at some time, by a reviewer.
THEOREM AnswersAreOfTakenOnes == Spec => []AnswersFollowATake
<1>1. IInv => AnswersFollowATake
  BY DEF IInv, TakeInv
<1> QED
  BY <1>1, Invariance, PTL

\* What can be downloaded belongs to a committed archivo row.
THEOREM FinalFilesAreOfRows == Spec => []FinalFilesHaveRows
<1>1. IInv => FinalFilesHaveRows
  BY DEF IInv, FileInv
<1> QED
  BY <1>1, Invariance, PTL

\* The thread's list is empty between two requests although create_batch sweeps it
\* in its except branch only.
THEOREM SweepsArePrivate == Spec => []SweepIsPrivate
<1>1. IInv => SweepIsPrivate
  BY DEF IInv, FileInv
<1> QED
  BY <1>1, Invariance, PTL

\* _can_read, evaluated before the bytes or the rows are read, still means that no
\* solicitante reads an answer of a solicitud that was never finalized.
THEOREM SolicitantesReadAfterFinal == Spec => []SolicitanteReadsAfterFinal
<1>1. IInv => SolicitanteReadsAfterFinal
  BY DEF IInv, OutcomeInv
<1> QED
  BY <1>1, Invariance, PTL

\* "Respuesta adjuntada" is said of a batch that is whole, on disk and in the table.
THEOREM SuccessesAreWhole == Spec => []SuccessIsWhole
<1>1. ASSUME IInv PROVE SuccessIsWhole
  <2> SUFFICES ASSUME NEW r \in Requests, pc[r] = "done"
               PROVE  \E b \in batches :
                        /\ b.req = r
                        /\ b.archivos = { FileOf(r, i) : i \in 1 .. b.posted }
                        /\ b.archivos \subseteq final
    BY DEF SuccessIsWhole
  <2>1. draft[r] \in batches /\ draft[r].archivos \subseteq final
    BY <1>1 DEF IInv, OutcomeInv, DoneIsWhole
  <2>2. /\ draft[r].req = r
        /\ draft[r].archivos = { FileOf(r, i) : i \in todo[r] + 1 .. draft[r].posted }
    BY <1>1 DEF IInv, FileInv, DraftsCountDown
  <2>3. todo[r] = 0
    BY <1>1, <2>1, <2>2 DEF IInv, FileInv, BatchesAreDrafts
  <2> QED
    BY <2>1, <2>2, <2>3
<1> QED
  BY <1>1, Invariance, PTL

\* A failed POST has left nothing, or a batch one of whose files the log names.
THEOREM FailuresAreUndoneOrLogged == Spec => []FailureIsUndoneOrLogged
<1>1. ASSUME IInv PROVE FailureIsUndoneOrLogged
  <2> SUFFICES ASSUME NEW b \in batches, pc[b.req] = "failed"
               PROVE  \E x \in b.archivos : x \in logged
    BY DEF FailureIsUndoneOrLogged
  <2>1. b = draft[b.req] /\ b.req \in Requests
    BY <1>1, BatchType DEF IInv, FileInv, BatchesAreDrafts, TypeOK
  <2> QED
    BY <1>1, <2>1 DEF IInv, OutcomeInv, TroubleIsLogged
<1> QED
  BY <1>1, Invariance, PTL

\* Hence what a POST answers is true of what it left.
THEOREM OutcomesAreTrue == Spec => []OutcomeIsTrue
<1>1. SuccessIsWhole /\ FailureIsUndoneOrLogged => OutcomeIsTrue
  BY DEF OutcomeIsTrue
<1> QED
  BY <1>1, SuccessesAreWhole, FailuresAreUndoneOrLogged, PTL

\* A permitted download that finds no bytes has met a POST that is not over, that
\* died, or that the log knows of; or the bytes have come since.
THEOREM MissingsAreExplained == Spec => []MissingIsExplained
<1>1. ASSUME IInv PROVE MissingIsExplained
  <2> SUFFICES ASSUME NEW g \in Readers, at[g] = "missing", NEW x \in ask[g].files
               PROVE  \/ x \in final
                      \/ pc[x[1]] \in {"renaming", "cleaning", "crashed"}
                      \/ /\ pc[x[1]] = "failed"
                         /\ \E b \in batches : b.req = x[1] /\ b.archivos \cap logged # {}
    BY DEF MissingIsExplained
  <2>1. PICK b \in batches : x \in b.archivos
    BY <1>1 DEF IInv, OutcomeInv, AskedAreFiled
  <2>2. b = draft[b.req] /\ b.req \in Requests /\ pc[b.req] \in Committed
    BY <1>1, BatchType DEF IInv, FileInv, BatchesAreDrafts, TypeOK
  <2>3. x[1] = b.req
    BY <1>1, <2>1, <2>2, FilesOfDraft DEF IInv, FileInv
  <2>4. CASE pc[b.req] = "done"
    BY <1>1, <2>1, <2>2, <2>4 DEF IInv, OutcomeInv, DoneIsWhole
  <2>5. CASE pc[b.req] = "failed"
    <3>1. \E y \in b.archivos : y \in logged
      BY <1>1, <2>2, <2>5 DEF IInv, OutcomeInv, TroubleIsLogged
    <3>2. b.archivos \cap logged # {}
      BY <3>1
    <3> QED
      BY <2>3, <2>5, <3>2
  <2> QED
    BY <2>2, <2>3, <2>4, <2>5 DEF Committed
<1> QED
  BY <1>1, Invariance, PTL

-----------------------------------------------------------------------------
(***************************************************************************)
(* The promise of the storage: each step as a step of Archivos.            *)
(***************************************************************************)
LEMMA NamedFiles ==
  ASSUME NEW B
  PROVE  B \in Named <=> \E b \in batches : B = b.archivos
  BY DEF Named

\* A committed batch is the draft of its request, and names that request's files.
LEMMA BatchIs ==
  ASSUME TypeOK, FileInv, NEW b \in batches, NEW x \in b.archivos
  PROVE  b = draft[b.req] /\ b.req \in Requests /\ x[1] = b.req
<1>1. b = draft[b.req] /\ b.req \in Requests
  BY BatchType DEF FileInv, BatchesAreDrafts, TypeOK
<1> QED
  BY <1>1, FilesOfDraft DEF FileInv

\* What leaves the batches and the files alone is nothing to the storage.
LEMMA StoreIdle ==
  ASSUME UNCHANGED <<batches, partial, final, logged>>
  PROVE  UNCHANGED Store!Vars
  BY DEF Store!Vars, Named

\* What a step of the code is to the storage.
StoreStep == Store!Next \/ UNCHANGED Store!Vars

\* The bytes of an upload, whole or in part, get a name that no batch has.
LEMMA StoreWrite ==
  ASSUME IInv, NEW r \in Requests, StoreUpload(r) \/ UploadBreaks(r)
  PROVE  StoreStep
<1> DEFINE x == FileOf(r, todo[r])
<1>1. TypeOK /\ FileInv /\ pc[r] = "storing" /\ thread[r] \in Threads
  BY RunningFacts DEF StoreUpload, UploadBreaks, Running
<1>2. /\ UNCHANGED <<batches, final, logged>>
      /\ partial' \in {partial, partial \cup {x}}
  BY DEF StoreUpload, UploadBreaks, Save, SaveBreaks
<1>3. ASSUME NEW B \in Named, x \in B PROVE FALSE
  <2>1. PICK b \in batches : B = b.archivos
    BY NamedFiles
  <2>2. x[1] = b.req
    BY <1>1, <1>3, <2>1, BatchIs
  <2>3. b.req # r
    BY <1>1, NoBatchYet DEF Committed
  <2> QED
    BY <2>2, <2>3 DEF FileOf
<1>4. Named' = Named
  BY <1>2 DEF Named
<1>5. CASE partial' = partial
  BY <1>2, <1>5, StoreIdle DEF StoreStep
<1>6. CASE partial' # partial
  <2>1. x \notin partial /\ x \in partial' /\ partial' = partial \cup {x}
    BY <1>2, <1>6
  <2>2. Store!Write(x)
    BY <1>2, <1>3, <1>4, <2>1 DEF Store!Write
  <2> QED
    BY <2>1, <2>2 DEF StoreStep, Store!Next
<1> QED
  BY <1>5, <1>6

\* The COMMIT makes a row of files that are all written, and nobody else's.
LEMMA StoreCommit ==
  ASSUME IInv, NEW r \in Requests, Commit(r)
  PROVE  StoreStep
<1> DEFINE B == draft[r].archivos
<1>1. TypeOK /\ FileInv /\ pc[r] = "storing" /\ thread[r] \in Threads
  BY RunningFacts DEF Commit, Running
<1>2. batches' = batches \cup {draft[r]} /\ UNCHANGED storage
  BY DEF Commit
<1>3. B \subseteq partial
  <2>1. \A x \in B : Scheduled(x, thread[r])
    BY <1>1 DEF FileInv, StoredAreScheduled
  <2>2. \A i \in DOMAIN hooks[thread[r]] : hooks[thread[r]][i] \in partial
    BY <1>1, HookFacts
  <2> QED
    BY <2>1, <2>2 DEF Scheduled
<1>4. ASSUME NEW C \in Named PROVE B \cap C = {}
  <2>1. PICK b \in batches : C = b.archivos
    BY NamedFiles
  <2>2. b.req # r
    BY <1>1, NoBatchYet DEF Committed
  <2>3. \A x \in C : x[1] = b.req
    BY <1>1, <2>1, BatchIs
  <2>4. \A x \in B : x[1] = r
    BY <1>1, FilesOfDraft DEF FileInv
  <2> QED
    BY <2>2, <2>3, <2>4
<1>5. Named' = Named \cup {B}
  BY <1>2 DEF Named
<1>6. Store!Commit(B)
  BY <1>2, <1>3, <1>4, <1>5 DEF Store!Commit
<1> QED
  BY <1>5, <1>6 DEF StoreStep, Store!Next

\* A callback makes a file of its committed batch durable, or logs it.
LEMMA StoreHook ==
  ASSUME IInv, NEW r \in Requests, RunHook(r)
  PROVE  StoreStep
<1> DEFINE t == thread[r]
           x == hooks[t][1]
<1>1. /\ TypeOK /\ FileInv /\ ThreadsServeOne /\ pc[r] \in Running /\ pc[r] = "renaming"
      /\ t \in Threads /\ hooks[t] \in Seq(Files)
  BY RunningFacts DEF RunHook, Running, TypeOK, FileInv
<1>2. UNCHANGED batches /\ Named' = Named
  BY DEF RunHook, Named
<1>3. hooks[t] # <<>> => x \in partial /\ Store!Committed(x)
  <2> SUFFICES ASSUME hooks[t] # <<>> PROVE x \in partial /\ Store!Committed(x)
    OBVIOUS
  <2>1. 1 \in DOMAIN hooks[t]
    BY <1>1
  <2>2. /\ x \in partial /\ pc[x[1]] \in Running /\ thread[x[1]] = t /\ x[1] \in Requests
        /\ x \in draft[x[1]].archivos
    BY <1>1, <2>1, HookFacts
  <2>3. x[1] = r
    BY <1>1, <2>2, OneOnThread
  <2>4. draft[r] \in batches
    BY <1>1 DEF FileInv, RenamedOrScheduled
  <2>5. draft[r].archivos \in Named
    BY <2>4, NamedFiles
  <2> QED
    BY <2>2, <2>3, <2>5 DEF Store!Committed
<1>4. CASE Rename(t)
  <2>1. /\ hooks[t] # <<>> /\ partial' = partial \ {x} /\ final' = final \cup {x}
        /\ UNCHANGED logged
    BY <1>1, <1>4 DEF Rename
  <2>2. Store!Rename(x)
    BY <1>2, <1>3, <2>1 DEF Store!Rename
  <2> QED
    BY <1>3, <2>1, <2>2 DEF StoreStep, Store!Next
<1>5. CASE RenameBreaks(t)
  <2>1. hooks[t] # <<>> /\ logged' = logged \cup {x} /\ UNCHANGED <<partial, final>>
    BY <1>1, <1>5 DEF RenameBreaks
  <2>2. Store!Log(x)
    BY <1>2, <1>3, <2>1 DEF Store!Log
  <2> QED
    BY <1>3, <2>1, <2>2 DEF StoreStep, Store!Next
<1>6. CASE UNCHANGED storage
  BY <1>2, <1>6, StoreIdle DEF StoreStep
<1> QED
  BY <1>4, <1>5, <1>6 DEF RunHook

\* What the sweep of a failed POST takes, to its end or until it is killed, is its own:
\* of a batch, if it was committed, that a failed rename has put in the log.
LEMMA StoreSweep ==
  ASSUME IInv, NEW r \in Requests, Sweep(r) \/ (pc[r] = "cleaning" /\ Crash(r))
  PROVE  StoreStep
<1> DEFINE t == thread[r]
<1>1. /\ TypeOK /\ FileInv /\ ThreadsServeOne /\ pc[r] \in Running /\ pc[r] = "cleaning"
      /\ t \in Threads
  BY RunningFacts DEF Sweep, Running, FileInv
<1>2. PICK left, stuck \in SUBSET (pending[t] \cap partial) :
        partial' = (partial \ pending[t]) \cup left /\ logged' = logged \cup stuck
  <2>1. CASE CutCleanup(t)
    BY <2>1 DEF CutCleanup
  <2>2. CASE CleanupPending(t)
    BY <2>2 DEF CleanupPending
  <2> QED
    BY <1>1, <2>1, <2>2 DEF Sweep, Crash
<1> DEFINE gone == (pending[t] \cap partial) \ left
<1>3. UNCHANGED <<batches, final>> /\ Named' = Named
  BY <1>1 DEF Sweep, Crash, CleanupPending, CutCleanup, Named
<1>4. partial' = partial \ gone /\ gone \in SUBSET partial /\ stuck \in SUBSET partial
  BY <1>2
<1>5. ASSUME NEW B \in Named, B \cap gone # {} PROVE B \cap logged # {}
  <2>1. PICK x : x \in B /\ x \in gone
    BY <1>5
  <2>2. pc[x[1]] \in Running /\ thread[x[1]] = t /\ x[1] \in Requests
    BY <1>1, <2>1, PendingFacts
  <2>3. x[1] = r
    BY <1>1, <2>2, OneOnThread
  <2>4. PICK b \in batches : B = b.archivos
    BY NamedFiles
  <2>5. b = draft[r]
    BY <1>1, <2>1, <2>3, <2>4, BatchIs
  <2>6. \E y \in draft[r].archivos : y \in logged
    BY <1>1, <2>5 DEF IInv, OutcomeInv, TroubleIsLogged
  <2> QED
    BY <2>4, <2>5, <2>6
<1>6. Store!Cleanup(gone, stuck)
  BY <1>2, <1>3, <1>4, <1>5 DEF Store!Cleanup
<1> QED
  BY <1>4, <1>6 DEF StoreStep, Store!Next

LEMMA StoreNext == ASSUME IInv, [Next]_vars PROVE StoreStep
<1>1. ASSUME NEW r \in Requests, Begin(r) \/ Abort(r) \/ Crash(r) PROVE StoreStep
  <2>1. CASE Begin(r) \/ Abort(r)
    BY <2>1, StoreIdle DEF Begin, Abort, DropHooks, StoreStep
  <2>2. CASE Crash(r) /\ pc[r] # "cleaning"
    BY <2>2, StoreIdle DEF Crash, ForgetThread, StoreStep
  <2> QED
    BY <1>1, <2>1, <2>2, StoreSweep
<1>2. ASSUME NEW r \in Requests, Step(r) \/ Fault(r) PROVE StoreStep
  BY <1>1, <1>2, StoreWrite, StoreCommit, StoreHook, StoreSweep DEF Step, Fault
<1>3. ASSUME NEW r \in Requests, NEW t \in Threads, Admit(r, t) PROVE StoreStep
  BY <1>3, StoreIdle DEF Admit, StoreStep
<1>4. ASSUME NEW g \in Readers, Read(g) PROVE StoreStep
  BY <1>4, StoreIdle
     DEF Read, FindArchivo, AuthorizeDownload, OpenFile, AuthorizeList, ReadList, StoreStep
<1>5. CASE \E f \in Folios : Transition(f) \/ EditTipo(f)
  BY <1>5, StoreIdle DEF Transition, EditTipo, StoreStep
<1>6. CASE UNCHANGED vars
  BY <1>6, StoreIdle DEF vars, StoreStep
<1> QED
  BY <1>2, <1>3, <1>4, <1>5, <1>6 DEF Next

LEMMA StoreInit == Init => Store!Start
<1> SUFFICES ASSUME Init PROVE Store!Start
  OBVIOUS
<1>1. \A B : B \notin Named
  BY NamedFiles DEF Init
<1> QED
  BY <1>1 DEF Init, StorageInit, Store!Start

\* Answering keeps the promise of the storage, though nothing is swept after a POST
\* that succeeds and a POST that fails may have committed its batch.
THEOREM KeepsTheArchivos == Spec => ImplementsArchivos
<1>1. StoreStep => [Store!Next]_Store!Vars
  BY DEF StoreStep
<1> QED
  BY <1>1, Invariance, StoreInit, StoreNext, PTL DEF Spec, ImplementsArchivos, Store!Contract

\* What the promise is good for, by itself.
LEMMA ArchivosKeepBytes == ASSUME BytesAreKept, StoreStep PROVE BytesAreKept'
<1> USE DEF BytesAreKept, Store!BytesAreKept
<1>1. CASE UNCHANGED Store!Vars
  BY <1>1 DEF Store!Vars
<1>2. ASSUME NEW x, Store!Write(x) PROVE BytesAreKept'
  BY <1>2 DEF Store!Write
<1>3. ASSUME NEW B, Store!Commit(B) PROVE BytesAreKept'
  BY <1>3 DEF Store!Commit
<1>4. ASSUME NEW x, Store!Rename(x) PROVE BytesAreKept'
  BY <1>4 DEF Store!Rename, Store!Committed
<1>5. ASSUME NEW x, Store!Log(x) PROVE BytesAreKept'
  BY <1>5 DEF Store!Log
<1>6. ASSUME NEW gone, NEW stuck, Store!Cleanup(gone, stuck) PROVE BytesAreKept'
  BY <1>6 DEF Store!Cleanup
<1>7. ASSUME NEW B, Store!Cut(B) PROVE BytesAreKept'
  BY <1>7 DEF Store!Cut
<1> QED
  BY <1>1, <1>2, <1>3, <1>4, <1>5, <1>6, <1>7 DEF StoreStep, Store!Next

\* A durable file has a committed batch, and a committed batch has all its files on
\* disk unless the log names one: at every moment, also of POSTs that crashed.
THEOREM BytesOfBatchesAreKept == Spec => []BytesAreKept
<1>1. Store!Start => BytesAreKept
  BY DEF BytesAreKept, Store!BytesAreKept, Store!Start
<1> QED
  BY <1>1, Invariance, StoreInit, StoreNext, ArchivosKeepBytes, PTL DEF Spec
=============================================================================
