---------------------------- MODULE IntakeProofs ----------------------------
(***************************************************************************)
(* Intake, proved for every set of requests, threads, tipo values and      *)
(* years.                                                                  *)
(*                                                                         *)
(* FolioInv: who has allocated a number holds the counter row, so at its   *)
(* COMMIT the number is still the next one.  FileInv: a thread serves one  *)
(* request, so nobody else renames or sweeps what it wrote.  UploadInv:    *)
(* what is committed was decided and uploaded by one request, so a file    *)
(* that misses its row was renamed by it, or was noticed.  LocksAreHeld    *)
(* and RowsAreHeld: nobody who is gone holds a row, and who has a User row *)
(* has it for his own sender, so a ring of waits needs two of one person.  *)
(* NameInv: an upload has a name nobody else has, so what the storage does *)
(* to it is what Archivos allows.                                          *)
(***************************************************************************)
EXTENDS Intake, TLAPS

USE DEF intake, locals, storage

\* Nothing happens to the other requests.
OthersStay(r) ==
  \A s \in Requests \ {r} :
    /\ pc'[s] = pc[s] /\ thread'[s] = thread[s] /\ todo'[s] = todo[s]
    /\ year'[s] = year[s] /\ draft'[s] = draft[s]

\* The tipo row holds a value the model knows.
LEMMA TipoType == TypeOK => tipo \in Version
  BY VersionsAssumption DEF TypeOK

\* A draft is a row of the table.
LEMMA RowType ==
  ASSUME TypeOK, NEW r \in Requests
  PROVE  /\ draft[r] \in Row
         /\ draft[r].n \in Nat /\ draft[r].archivos \subseteq Files \X Kinds
  BY DEF TypeOK, Row, Archivo

\* The locals of nobody are typed.
LEMMA EmptyRowType ==
  ASSUME NEW r \in Requests
  PROVE  EmptyRow(r) \in Row /\ SomeYear \in Years
  BY YearsAssumption DEF EmptyRow, Row, SomeYear

\* The writes of one field of a row: it stays a row of the same request.
LEMMA RowUpdate ==
  ASSUME NEW row \in Row
  PROVE  /\ \A b \in BOOLEAN :
              /\ [row EXCEPT !.asked = b] \in Row /\ [row EXCEPT !.asked = b].req = row.req
              /\ \A c \in BOOLEAN :
                   /\ [row EXCEPT !.requierePago = b, !.pagoExento = c] \in Row
                   /\ [row EXCEPT !.requierePago = b, !.pagoExento = c].req = row.req
         /\ \A k \in Nat :
              /\ [row EXCEPT !.seen = k] \in Row /\ [row EXCEPT !.seen = k].req = row.req
              /\ [row EXCEPT !.snapshot = k] \in Row
              /\ [row EXCEPT !.snapshot = k].req = row.req
              /\ [row EXCEPT !.n = k] \in Row /\ [row EXCEPT !.n = k].req = row.req
              /\ [row EXCEPT !.n = k].n = k
         /\ \A files \in SUBSET (Files \X Kinds) :
              /\ [row EXCEPT !.archivos = files] \in Row
              /\ [row EXCEPT !.archivos = files].req = row.req
              /\ [row EXCEPT !.archivos = files].n = row.n
              /\ [row EXCEPT !.archivos = files].archivos = files
<1> DEFINE S == SUBSET (Files \X Kinds)
<1>1. Row = [n: Nat, req: Requests, asked: BOOLEAN, requierePago: BOOLEAN,
             pagoExento: BOOLEAN, seen: Nat, snapshot: Nat, archivos: S]
  BY DEF Row, Archivo
<1> HIDE DEF S
<1>2. ASSUME NEW b \in BOOLEAN
      PROVE  [row EXCEPT !.asked = b] \in Row /\ [row EXCEPT !.asked = b].req = row.req
  BY <1>1
<1>3. ASSUME NEW b \in BOOLEAN, NEW c \in BOOLEAN
      PROVE  /\ [row EXCEPT !.requierePago = b, !.pagoExento = c] \in Row
             /\ [row EXCEPT !.requierePago = b, !.pagoExento = c].req = row.req
  BY <1>1
<1>4. ASSUME NEW k \in Nat
      PROVE  [row EXCEPT !.seen = k] \in Row /\ [row EXCEPT !.seen = k].req = row.req
  BY <1>1
<1>5. ASSUME NEW k \in Nat
      PROVE  [row EXCEPT !.snapshot = k] \in Row /\ [row EXCEPT !.snapshot = k].req = row.req
  BY <1>1
<1>6. ASSUME NEW k \in Nat
      PROVE  /\ [row EXCEPT !.n = k] \in Row /\ [row EXCEPT !.n = k].req = row.req
             /\ [row EXCEPT !.n = k].n = k
  BY <1>1
<1>7. ASSUME NEW files \in S
      PROVE  /\ [row EXCEPT !.archivos = files] \in Row
             /\ [row EXCEPT !.archivos = files].req = row.req
             /\ [row EXCEPT !.archivos = files].n = row.n
             /\ [row EXCEPT !.archivos = files].archivos = files
  BY <1>1
<1> QED
  BY <1>2, <1>3, <1>4, <1>5, <1>6, <1>7 DEF S

\* r writes its own draft.
LEMMA DraftUpdate ==
  ASSUME TypeOK, NEW r \in Requests, NEW row \in Row, draft' = [draft EXCEPT ![r] = row]
  PROVE  /\ draft' \in [Requests -> Row] /\ draft'[r] = row
         /\ \A s \in Requests \ {r} : draft'[s] = draft[s]
  BY DEF TypeOK

\* r moves on and nobody else.
LEMMA PcUpdate ==
  ASSUME TypeOK, NEW r \in Requests, NEW step \in Running \cup Ended, Goto(r, step)
  PROVE  /\ pc' \in [Requests -> {"idle"} \cup Running \cup Ended] /\ pc'[r] = step
         /\ \A s \in Requests \ {r} : pc'[s] = pc[s]
  BY DEF TypeOK, Goto

\* The end of a request: its locals are those of nobody.
LEMMA EndFacts ==
  ASSUME TypeOK, NEW r \in Requests, NEW how \in Ended, End(r, how)
  PROVE  /\ pc' \in [Requests -> {"idle"} \cup Running \cup Ended]
         /\ thread' \in [Requests -> Threads \cup {NoThread}]
         /\ mentor' \in [Requests -> BOOLEAN]
         /\ todo' \in [Requests -> Seq(Kinds)]
         /\ year' \in [Requests -> Years]
         /\ draft' \in [Requests -> Row]
         /\ pc'[r] = how /\ draft'[r].req = r
         /\ OthersStay(r)
<1>1. /\ pc' \in [Requests -> {"idle"} \cup Running \cup Ended] /\ pc'[r] = how
      /\ \A s \in Requests \ {r} : pc'[s] = pc[s]
  BY PcUpdate DEF End
<1>2. draft' \in [Requests -> Row] /\ draft'[r] = EmptyRow(r)
  BY EmptyRowType DEF End, TypeOK
<1>3. draft'[r].req = r
  BY <1>2 DEF EmptyRow
<1>4. /\ thread' \in [Requests -> Threads \cup {NoThread}]
      /\ mentor' \in [Requests -> BOOLEAN]
      /\ todo' \in [Requests -> Seq(Kinds)]
      /\ year' \in [Requests -> Years]
  BY EmptyRowType DEF End, TypeOK
<1>5. OthersStay(r)
  BY <1>1 DEF OthersStay, End, TypeOK
<1> QED
  BY <1>1, <1>2, <1>3, <1>4, <1>5

\* The initial states.
LEMMA InitHolds == Init => IInv
<1> SUFFICES ASSUME Init PROVE IInv
  OBVIOUS
<1>1. TypeOK
  <2>1. /\ mentor \in [Requests -> BOOLEAN] /\ todo \in [Requests -> Seq(Kinds)]
        /\ year \in [Requests -> Years] /\ draft \in [Requests -> Row]
        /\ counter \in [Years -> Nat]
    BY EmptyRowType DEF Init
  <2>2. /\ partial \subseteq Files /\ final \subseteq Files /\ logged \subseteq Files
        /\ pending \in [Threads -> SUBSET Files] /\ hooks \in [Threads -> Seq(Files)]
    BY DEF Init, StorageInit
  <2> QED
    BY <2>1, <2>2 DEF Init, TypeOK
<1>2. FolioInv
  BY <1>1 DEF Init, FolioInv, HoldersAreNext, RowsNameTheirRequest, MailsAreOfTheDraft,
     FiledArePast, FoliosAreGapless, MailsNameTheNextFolio, Holding, EmptyRow
<1>3. FileInv
  BY DEF Init, StorageInit, FileInv, ThreadsServeOne, HooksAreOfTheRow, PendingIsStored,
     RenamingIsCommitted, FinalFilesHaveRows, SweepIsPrivate, HooksFindTheirPartial, Running, InBlock
<1> QED
  BY <1>2, <1>3 DEF IInv

\* Every way out of a transaction without COMMIT frees what r held.
LEMMA FreeLocksFacts ==
  ASSUME TypeOK, NEW r \in Requests, FreeLocks(r)
  PROVE  /\ UNCHANGED <<tipo, editing, clock, counter, solicitudes, announced>>
         /\ counterLock' \in [Years -> Requests \cup {NoRequest}]
         /\ userLock' \in [Users -> Requests \cup {NoRequest}]
         /\ \A y \in Years : counterLock'[y] = counterLock[y] \/ counterLock[y] = r
  BY DEF FreeLocks, Unlock, TypeOK
-----------------------------------------------------------------------------
(***************************************************************************)
(* Types.                                                                  *)
(***************************************************************************)
LEMMA OpenFacts ==
  ASSUME TypeOK, NEW r \in Requests, NEW t \in Threads, Open(r, t)
  PROVE  /\ TypeOK' /\ OthersStay(r)
         /\ draft'[r].req = draft[r].req
         /\ \/ pc'[r] = "opened" /\ thread'[r] = t
            \/ pc'[r] = "ended"
<1>1. CASE tipo.activo /\ tipo.admits
  <2>1. PICK isMentor \in BOOLEAN :
          /\ mentor' = [mentor EXCEPT ![r] = isMentor]
          /\ draft' = [draft EXCEPT ![r].asked = NeedsComprobante(tipo, isMentor)]
    BY <1>1 DEF Open
  <2>2. NeedsComprobante(tipo, isMentor) \in BOOLEAN
    BY TipoType DEF NeedsComprobante, Version
  <2>3. /\ draft' \in [Requests -> Row] /\ draft'[r].req = draft[r].req
        /\ \A s \in Requests \ {r} : draft'[s] = draft[s]
    <3> DEFINE row == [draft[r] EXCEPT !.asked = NeedsComprobante(tipo, isMentor)]
    <3>1. row \in Row /\ row.req = draft[r].req
      BY <2>2, RowType, RowUpdate
    <3>2. draft' = [draft EXCEPT ![r] = row]
      BY <2>1
    <3> HIDE DEF row
    <3> QED
      BY <3>1, <3>2, DraftUpdate
  <2>4. /\ mentor' \in [Requests -> BOOLEAN]
        /\ thread' \in [Requests -> Threads \cup {NoThread}]
        /\ thread'[r] = t
        /\ \A s \in Requests \ {r} : thread'[s] = thread[s]
    <3>1. thread' = [thread EXCEPT ![r] = t]
      BY <1>1 DEF Open
    <3> QED
      BY <2>1, <3>1 DEF TypeOK
  <2>5. Goto(r, "opened")
    BY <1>1 DEF Open
  <2>6. TypeOK'
    BY <1>1, <2>3, <2>4, <2>5, PcUpdate DEF TypeOK, Open, Running
  <2> QED
    BY <1>1, <2>3, <2>4, <2>5, <2>6, PcUpdate DEF Open, OthersStay, Running
<1>2. CASE ~(tipo.activo /\ tipo.admits)
  BY <1>2, PcUpdate DEF TypeOK, Open, OthersStay, Ended
<1> QED
  BY <1>1, <1>2

\* The form is accepted, or the request is over.
LEMMA ValidateFormFacts ==
  ASSUME TypeOK, NEW r \in Requests, draft[r].req = r, ValidateForm(r)
  PROVE  /\ TypeOK' /\ OthersStay(r) /\ draft'[r].req = r
         /\ \/ pc'[r] \in {"valid", "previewing"} /\ thread'[r] = thread[r]
            \/ pc'[r] = "ended"
<1>1. ASSUME NEW step \in {"valid", "previewing"}, Goto(r, step),
             \E files \in UploadSets : todo' = [todo EXCEPT ![r] = files],
             draft' = [draft EXCEPT ![r].seen = tipo.campos],
             UNCHANGED <<thread, mentor, year>>
      PROVE  /\ TypeOK' /\ OthersStay(r) /\ draft'[r].req = r
             /\ pc'[r] = step /\ thread'[r] = thread[r]
  <2>1. tipo.campos \in Nat
    BY TipoType DEF Version
  <2>2. /\ draft' \in [Requests -> Row] /\ draft'[r].req = draft[r].req
        /\ \A s \in Requests \ {r} : draft'[s] = draft[s]
    <3> DEFINE row == [draft[r] EXCEPT !.seen = tipo.campos]
    <3>1. row \in Row /\ row.req = draft[r].req
      BY <2>1, RowType, RowUpdate
    <3>2. draft' = [draft EXCEPT ![r] = row]
      BY <1>1
    <3> HIDE DEF row
    <3> QED
      BY <3>1, <3>2, DraftUpdate
  <2>3. /\ todo' \in [Requests -> Seq(Kinds)]
        /\ \A s \in Requests \ {r} : todo'[s] = todo[s]
    BY <1>1, UploadsAssumption DEF TypeOK
  <2>4. TypeOK'
    BY <1>1, <2>2, <2>3, PcUpdate DEF TypeOK, ValidateForm, Running
  <2> QED
    BY <1>1, <2>2, <2>3, <2>4, PcUpdate DEF OthersStay, Running
<1>2. CASE End(r, "ended")
  BY <1>2, EndFacts DEF TypeOK, ValidateForm, Ended
<1> QED
  BY <1>1, <1>2 DEF ValidateForm

\* The preview waits for a row and changes nothing here.
LEMMA PreviewFacts ==
  ASSUME TypeOK, NEW r \in Requests, draft[r].req = r, Preview(r)
  PROVE  /\ TypeOK' /\ OthersStay(r) /\ draft'[r].req = r
         /\ \/ pc'[r] = "valid" /\ thread'[r] = thread[r]
            \/ pc'[r] = "ended"
<1>1. CASE Goto(r, "valid") /\ UNCHANGED locals
  BY <1>1, PcUpdate DEF TypeOK, Preview, OthersStay, Running
<1>2. CASE End(r, "ended")
  BY <1>2, EndFacts DEF TypeOK, Preview, Ended
<1> QED
  BY <1>1, <1>2 DEF Preview

\* The price is the tipo's, or create refuses.
LEMMA ReadTipoFacts ==
  ASSUME TypeOK, NEW r \in Requests, ReadTipo(r)
  PROVE  /\ TypeOK' /\ OthersStay(r) /\ pc'[r] \in {"priced", "cleaning"}
         /\ thread'[r] = thread[r] /\ draft'[r].req = draft[r].req
<1>1. CASE tipo.activo /\ tipo.admits
  <2>1. tipo.pays \in BOOLEAN /\ Exento(tipo, mentor[r]) \in BOOLEAN
    BY TipoType DEF TypeOK, Version, Exento
  <2>2. Goto(r, "priced")
    BY <1>1 DEF ReadTipo
  <2>4. /\ draft' \in [Requests -> Row] /\ draft'[r].req = draft[r].req
        /\ \A s \in Requests \ {r} : draft'[s] = draft[s]
    <3> DEFINE owed == tipo.pays
               free == Exento(tipo, mentor[r])
               row  == [draft[r] EXCEPT !.requierePago = owed, !.pagoExento = free]
    <3>1. row \in Row /\ row.req = draft[r].req
      <4>1. draft[r] \in Row /\ owed \in BOOLEAN /\ free \in BOOLEAN
        BY <2>1, RowType
      <4> HIDE DEF owed, free
      <4> QED
        BY <4>1, RowUpdate, ZenonT(30)
    <3>2. draft' = [draft EXCEPT ![r] = row]
      BY <1>1 DEF ReadTipo
    <3> HIDE DEF row
    <3> QED
      BY <3>1, <3>2, DraftUpdate
  <2>5. TypeOK'
    BY <2>2, <2>4, PcUpdate DEF TypeOK, ReadTipo, Running, InBlock
  <2> QED
    BY <2>2, <2>4, <2>5, PcUpdate DEF OthersStay, ReadTipo, Running, InBlock
<1>2. CASE ~(tipo.activo /\ tipo.admits)
  BY <1>2, PcUpdate DEF TypeOK, ReadTipo, OthersStay, Running, InBlock
<1> QED
  BY <1>1, <1>2

\* The snapshot is the tipo's, or create refuses.
LEMMA ReadSnapshotFacts ==
  ASSUME TypeOK, NEW r \in Requests, ReadSnapshot(r)
  PROVE  /\ TypeOK' /\ OthersStay(r) /\ pc'[r] \in {"snapped", "answered", "cleaning"}
         /\ thread'[r] = thread[r] /\ draft'[r].req = draft[r].req
<1>1. CASE tipo.activo
  <2>1. tipo.campos \in Nat
    BY TipoType DEF Version
  <2>2. /\ draft' \in [Requests -> Row] /\ draft'[r].req = draft[r].req
        /\ \A s \in Requests \ {r} : draft'[s] = draft[s]
    <3> DEFINE row == [draft[r] EXCEPT !.snapshot = tipo.campos]
    <3>1. row \in Row /\ row.req = draft[r].req
      BY <2>1, RowType, RowUpdate
    <3>2. draft' = [draft EXCEPT ![r] = row]
      BY <1>1 DEF ReadSnapshot
    <3> HIDE DEF row
    <3> QED
      BY <3>1, <3>2, DraftUpdate
  <2>3. PICK step \in {"snapped", "answered"} : Goto(r, step)
    BY <1>1 DEF ReadSnapshot
  <2>4. TypeOK'
    BY <2>2, <2>3, PcUpdate DEF TypeOK, ReadSnapshot, Running, InBlock
  <2> QED
    BY <2>2, <2>3, <2>4, PcUpdate DEF OthersStay, ReadSnapshot, Running, InBlock
<1>2. CASE ~tipo.activo
  BY <1>2, PcUpdate DEF TypeOK, ReadSnapshot, OthersStay, Running, InBlock
<1> QED
  BY <1>1, <1>2

\* The year is the clock's, and the User row of the sender is r's or stays.
LEMMA ResolveFacts ==
  ASSUME TypeOK, NEW r \in Requests, Resolve(r)
  PROVE  /\ TypeOK' /\ OthersStay(r) /\ pc'[r] = "ready" /\ pc[r] \in {"snapped", "answered"}
         /\ UNCHANGED <<thread, draft, counter, counterLock, solicitudes, announced, storage>>
         /\ \/ UNCHANGED userLock
            \/ /\ RowOwner(r) = NoRequest /\ userLock'[Sender[r]] = r
               /\ \A u \in Users \ {Sender[r]} : userLock'[u] = userLock[u]
<1>1. Sender[r] \in Users
  BY SenderAssumption
<1>2. userLock' \in [Users -> Requests \cup {NoRequest}]
  BY <1>1 DEF Resolve, TypeOK
<1>3. \/ UNCHANGED userLock
      \/ /\ RowOwner(r) = NoRequest /\ userLock'[Sender[r]] = r
         /\ \A u \in Users \ {Sender[r]} : userLock'[u] = userLock[u]
  BY <1>1 DEF Resolve, TypeOK
<1>4. /\ year' \in [Requests -> Years]
      /\ \A s \in Requests \ {r} : year'[s] = year[s]
  BY DEF Resolve, TypeOK
<1>5. /\ pc' \in [Requests -> {"idle"} \cup Running \cup Ended] /\ pc'[r] = "ready"
      /\ \A s \in Requests \ {r} : pc'[s] = pc[s]
  BY PcUpdate DEF Resolve, Running, InBlock
<1>6. TypeOK'
  BY <1>2, <1>4, <1>5 DEF Resolve, TypeOK
<1> QED
  BY <1>3, <1>4, <1>5, <1>6 DEF Resolve, OthersStay

\* The number is the one after the counter's, and the counter row is r's.
LEMMA FileSolicitudFacts ==
  ASSUME TypeOK, NEW r \in Requests, FileSolicitud(r)
  PROVE  /\ TypeOK' /\ OthersStay(r) /\ pc'[r] = "filed"
         /\ thread'[r] = thread[r] /\ draft'[r].req = draft[r].req
         /\ year'[r] = year[r] /\ year[r] \in Years
         /\ draft'[r].n = counter[year[r]] + 1
         /\ counterLock[year[r]] = NoRequest
         /\ counterLock'[year[r]] = r
         /\ \A y \in Years \ {year[r]} : counterLock'[y] = counterLock[y]
<1>1. year[r] \in Years /\ counter[year[r]] + 1 \in Nat
  BY DEF TypeOK
<1>2. /\ draft' \in [Requests -> Row] /\ draft'[r].req = draft[r].req
      /\ draft'[r].n = counter[year[r]] + 1
      /\ \A s \in Requests \ {r} : draft'[s] = draft[s]
  <2> DEFINE row == [draft[r] EXCEPT !.n = counter[year[r]] + 1]
  <2>1. row \in Row /\ row.req = draft[r].req /\ row.n = counter[year[r]] + 1
    BY <1>1, RowType, RowUpdate, ZenonT(20)
  <2>2. draft' = [draft EXCEPT ![r] = row]
    BY DEF FileSolicitud
  <2> HIDE DEF row
  <2> QED
    BY <2>1, <2>2, DraftUpdate
<1>3. /\ counterLock' \in [Years -> Requests \cup {NoRequest}]
      /\ counterLock[year[r]] = NoRequest
      /\ counterLock'[year[r]] = r
      /\ \A y \in Years \ {year[r]} : counterLock'[y] = counterLock[y]
  BY <1>1 DEF FileSolicitud, LockCounter, TypeOK
<1>4. /\ pc' \in [Requests -> {"idle"} \cup Running \cup Ended] /\ pc'[r] = "filed"
      /\ \A s \in Requests \ {r} : pc'[s] = pc[s]
  BY PcUpdate DEF FileSolicitud, Running, InBlock
<1>5. TypeOK'
  BY <1>2, <1>3, <1>4 DEF TypeOK, FileSolicitud
<1> QED
  BY <1>1, <1>2, <1>3, <1>4, <1>5 DEF OthersStay, FileSolicitud

\* Nothing but the announcement.
LEMMA NotifyCreationFacts ==
  ASSUME TypeOK, NEW r \in Requests, NotifyCreation(r)
  PROVE  /\ TypeOK' /\ OthersStay(r) /\ pc'[r] = "storing"
         /\ thread'[r] = thread[r]
<1>1. <<year[r], draft[r].n, r>> \in Years \X Nat \X Requests
  BY RowType DEF TypeOK
<1>2. /\ pc' \in [Requests -> {"idle"} \cup Running \cup Ended] /\ pc'[r] = "storing"
      /\ \A s \in Requests \ {r} : pc'[s] = pc[s]
  BY PcUpdate DEF NotifyCreation, Running, InBlock
<1>3. TypeOK'
  BY <1>1, <1>2 DEF TypeOK, NotifyCreation, NewFolio
<1> QED
  BY <1>2, <1>3 DEF OthersStay, NotifyCreation

\* The file of the next upload has a name of its own: all stored ones have a
\* larger index.
LEMMA StoreUploadFacts ==
  ASSUME TypeOK, NEW r \in Requests, StoreUpload(r), thread[r] \in Threads
  PROVE  /\ TypeOK' /\ OthersStay(r) /\ pc'[r] = "storing" /\ pc[r] = "storing"
         /\ UNCHANGED <<thread, year>>
         /\ draft'[r].req = draft[r].req /\ draft'[r].n = draft[r].n
         /\ draft'[r].archivos = draft[r].archivos \cup { <<NextFile(r), NextKind(r)>> }
         /\ NextFile(r) \in Files
         /\ Len(todo[r]) \in Nat /\ Len(todo'[r]) = Len(todo[r]) - 1
<1>1. /\ todo[r] \in Seq(Kinds) /\ todo[r] # <<>> /\ pc[r] = "storing"
  BY DEF StoreUpload, TypeOK
<1>2. /\ NextKind(r) \in Kinds /\ NextFile(r) \in Files
      /\ Len(todo[r]) \in Nat /\ Tail(todo[r]) \in Seq(Kinds)
      /\ Len(Tail(todo[r])) = Len(todo[r]) - 1
  BY <1>1 DEF NextKind, NextFile, Files
<1>3. /\ todo' \in [Requests -> Seq(Kinds)] /\ todo'[r] = Tail(todo[r])
      /\ \A s \in Requests \ {r} : todo'[s] = todo[s]
  BY <1>2 DEF StoreUpload, TypeOK
<1>4. /\ draft' \in [Requests -> Row] /\ draft'[r].req = draft[r].req
      /\ draft'[r].n = draft[r].n
      /\ draft'[r].archivos = draft[r].archivos \cup { <<NextFile(r), NextKind(r)>> }
      /\ \A s \in Requests \ {r} : draft'[s] = draft[s]
  <2> DEFINE more == draft[r].archivos \cup { <<NextFile(r), NextKind(r)>> }
  <2> DEFINE row == [draft[r] EXCEPT !.archivos = more]
  <2>1. more \in SUBSET (Files \X Kinds)
    BY <1>2, RowType
  <2>2. row \in Row /\ row.req = draft[r].req /\ row.n = draft[r].n /\ row.archivos = more
    BY <2>1, RowType, RowUpdate, ZenonT(30)
  <2>3. draft' = [draft EXCEPT ![r] = row]
    BY DEF StoreUpload, NewArchivo
  <2> HIDE DEF row
  <2> QED
    BY <2>2, <2>3, DraftUpdate
<1>5. /\ partial' \subseteq Files /\ pending' \in [Threads -> SUBSET Files]
      /\ hooks' \in [Threads -> Seq(Files)]
  BY <1>2 DEF StoreUpload, Save, TypeOK
<1>6. TypeOK'
  BY <1>3, <1>4, <1>5 DEF TypeOK, StoreUpload, Save
<1> QED
  BY <1>1, <1>2, <1>3, <1>4, <1>6 DEF OthersStay, StoreUpload

\* RefuseUpload, UploadBreaks, Abort and Interrupt: the block ends without COMMIT, or
\* the callbacks without their work.
LEMMA RollBackFacts ==
  ASSUME TypeOK, NEW r \in Requests, thread[r] \in Threads,
         RefuseUpload(r) \/ UploadBreaks(r) \/ Abort(r) \/ Interrupt(r)
  PROVE  /\ TypeOK' /\ OthersStay(r) /\ pc'[r] \in {"cleaning", "dying"}
         /\ UNCHANGED <<thread, draft>>
         /\ FreeLocks(r)
         /\ hooks' = [hooks EXCEPT ![thread[r]] = <<>>]
         /\ partial \subseteq partial'
         /\ \A t \in Threads : pending'[t] \subseteq pending[t]
         /\ UNCHANGED final
<1>1. PICK step \in {"cleaning", "dying"} : Goto(r, step) /\ FreeLocks(r) /\ UNCHANGED locals
  BY DEF RefuseUpload, UploadBreaks, Abort, RollBack, Interrupt
<1>2. /\ hooks' = [hooks EXCEPT ![thread[r]] = <<>>]
      /\ UNCHANGED <<final, logged>>
      /\ partial \subseteq partial' /\ partial' \subseteq Files
      /\ pending' \in [Threads -> SUBSET Files]
      /\ \A t \in Threads : pending'[t] \subseteq pending[t]
  <2>1. CASE DropHooks(thread[r])
    BY <2>1 DEF DropHooks, TypeOK
  <2>2. CASE pc[r] = "storing" /\ todo[r] # <<>> /\ SaveBreaks(thread[r], NextFile(r))
    <3>1. NextFile(r) \in Files
      BY <2>2 DEF TypeOK, NextFile, Files
    <3> QED
      BY <2>2, <3>1 DEF SaveBreaks, TypeOK
  <2>3. CASE RenameIsCut(thread[r])
    BY <2>3 DEF RenameIsCut, TypeOK
  <2> QED
    BY <2>1, <2>2, <2>3 DEF RefuseUpload, UploadBreaks, Abort, RollBack, Interrupt, CutOff
<1>3. /\ pc' \in [Requests -> {"idle"} \cup Running \cup Ended]
      /\ pc'[r] \in {"cleaning", "dying"}
      /\ \A s \in Requests \ {r} : pc'[s] = pc[s]
  BY <1>1, PcUpdate DEF Running
<1>4. hooks' \in [Threads -> Seq(Files)]
  BY <1>2 DEF TypeOK
<1>5. TypeOK'
  BY <1>1, <1>2, <1>3, <1>4, FreeLocksFacts DEF TypeOK
<1> QED
  BY <1>1, <1>2, <1>3, <1>5 DEF OthersStay

\* One year gets one row and one count more, and its counter row is free.
LEMMA CommitFacts ==
  ASSUME TypeOK, NEW r \in Requests, Commit(r)
  PROVE  /\ TypeOK' /\ OthersStay(r) /\ pc'[r] = "renaming" /\ pc[r] = "storing"
         /\ UNCHANGED locals /\ UNCHANGED announced
         /\ year[r] \in Years /\ draft[r] \in Row
         /\ counter'[year[r]] = draft[r].n
         /\ solicitudes'[year[r]] = solicitudes[year[r]] \cup {draft[r]}
         /\ Unlock(r)
         /\ \A y \in Years \ {year[r]} :
              counter'[y] = counter[y] /\ solicitudes'[y] = solicitudes[y]
         /\ \A y \in Years : counterLock'[y] = counterLock[y] \/ counterLock[y] = r
<1>1. year[r] \in Years /\ draft[r] \in Row /\ draft[r].n \in Nat
  BY RowType DEF TypeOK
<1>2. /\ pc' \in [Requests -> {"idle"} \cup Running \cup Ended] /\ pc'[r] = "renaming"
      /\ \A s \in Requests \ {r} : pc'[s] = pc[s]
  BY PcUpdate DEF Commit, Running
<1>3. /\ counter' \in [Years -> Nat]
      /\ solicitudes' \in [Years -> SUBSET Row]
      /\ counterLock' \in [Years -> Requests \cup {NoRequest}]
      /\ userLock' \in [Users -> Requests \cup {NoRequest}]
  BY <1>1 DEF Commit, Unlock, TypeOK
<1>4. TypeOK'
  BY <1>2, <1>3 DEF Commit, TypeOK
<1>5. /\ counter'[year[r]] = draft[r].n
      /\ solicitudes'[year[r]] = solicitudes[year[r]] \cup {draft[r]}
      /\ \A y \in Years \ {year[r]} :
           counter'[y] = counter[y] /\ solicitudes'[y] = solicitudes[y]
      /\ \A y \in Years : counterLock'[y] = counterLock[y] \/ counterLock[y] = r
  BY <1>1 DEF Commit, Unlock, TypeOK
<1> QED
  BY <1>1, <1>2, <1>4, <1>5 DEF OthersStay, Commit, AtCommit

\* Callbacks touch the disk and the lists of their thread only.
LEMMA RunHookFacts ==
  ASSUME TypeOK, NEW r \in Requests, RunHook(r), thread[r] \in Threads
  PROVE  /\ TypeOK' /\ OthersStay(r) /\ pc[r] = "renaming" /\ pc'[r] \in {"renaming", "cleaning"}
         /\ UNCHANGED <<intake, locals>>
<1>1. /\ pc' \in [Requests -> {"idle"} \cup Running \cup Ended]
      /\ pc'[r] \in {"renaming", "cleaning"}
      /\ \A s \in Requests \ {r} : pc'[s] = pc[s]
  <2>1. CASE UNCHANGED pc
    BY <2>1 DEF RunHook, TypeOK
  <2>2. CASE Goto(r, "cleaning")
    BY <2>2, PcUpdate DEF Running
  <2> QED
    BY <2>1, <2>2 DEF RunHook
<1>2. /\ partial' \subseteq Files /\ final' \subseteq Files /\ logged' \subseteq Files
      /\ pending' \in [Threads -> SUBSET Files] /\ hooks' \in [Threads -> Seq(Files)]
  <2>1. hooks[thread[r]] \in Seq(Files)
    BY DEF TypeOK
  <2>2. hooks[thread[r]] # <<>> =>
          Head(hooks[thread[r]]) \in Files /\ Tail(hooks[thread[r]]) \in Seq(Files)
    BY <2>1
  <2>3. CASE Rename(thread[r])
    BY <2>1, <2>2, <2>3 DEF Rename, TypeOK
  <2>4. CASE RenameBreaks(thread[r])
    BY <2>1, <2>2, <2>4 DEF RenameBreaks, TypeOK
  <2>5. CASE UNCHANGED storage
    BY <2>5 DEF TypeOK
  <2> QED
    BY <2>3, <2>4, <2>5 DEF RunHook
<1>3. TypeOK'
  BY <1>1, <1>2 DEF TypeOK, RunHook
<1> QED
  BY <1>1, <1>3 DEF OthersStay, RunHook

\* The sweep ends the request and leaves the tables alone.
LEMMA SweepFacts ==
  ASSUME TypeOK, NEW r \in Requests, Sweep(r), thread[r] \in Threads
  PROVE  /\ TypeOK' /\ OthersStay(r) /\ pc[r] \in {"cleaning", "dying"} /\ pc'[r] \in Ended
         /\ draft'[r].req = r /\ UNCHANGED intake
<1>1. /\ partial' \subseteq Files /\ logged' \subseteq Files
      /\ pending' \in [Threads -> SUBSET Files] /\ UNCHANGED <<final, hooks>>
  BY DEF Sweep, CleanupPending, TypeOK
<1>2. PICK how \in Ended : End(r, how)
  BY DEF Sweep, Ended
<1>3. UNCHANGED intake /\ pc[r] \in {"cleaning", "dying"}
  BY DEF Sweep
<1>4. /\ OthersStay(r) /\ pc'[r] = how /\ draft'[r].req = r
      /\ pc' \in [Requests -> {"idle"} \cup Running \cup Ended]
      /\ thread' \in [Requests -> Threads \cup {NoThread}]
      /\ mentor' \in [Requests -> BOOLEAN] /\ todo' \in [Requests -> Seq(Kinds)]
      /\ year' \in [Requests -> Years] /\ draft' \in [Requests -> Row]
  BY <1>2, EndFacts
<1>5. TypeOK'
  BY <1>1, <1>3, <1>4 DEF TypeOK
<1> QED
  BY <1>3, <1>4, <1>5

\* A crash ends the request, rolls back and forgets.
LEMMA CrashFacts ==
  ASSUME TypeOK, NEW r \in Requests, Crash(r), thread[r] \in Threads
  PROVE  /\ TypeOK' /\ OthersStay(r) /\ pc'[r] \in {"crashed", "interrupted"}
         /\ draft'[r].req = r /\ FreeLocks(r)
         /\ UNCHANGED final
         /\ \/ UNCHANGED partial
            \/ pc[r] \in {"cleaning", "dying"} /\ partial \ pending[thread[r]] \subseteq partial'
         /\ hooks' = [hooks EXCEPT ![thread[r]] = <<>>]
         /\ pending' = [pending EXCEPT ![thread[r]] = {}]
<1>1. /\ UNCHANGED final /\ partial' \subseteq Files /\ logged' \subseteq Files
      /\ \/ UNCHANGED partial
         \/ pc[r] \in {"cleaning", "dying"} /\ partial \ pending[thread[r]] \subseteq partial'
      /\ hooks' = [hooks EXCEPT ![thread[r]] = <<>>]
      /\ pending' = [pending EXCEPT ![thread[r]] = {}]
  <2>1. CASE ForgetThread(thread[r])
    BY <2>1 DEF ForgetThread, TypeOK
  <2>2. CASE pc[r] \in {"cleaning", "dying"} /\ CutCleanup(thread[r])
    BY <2>2 DEF CutCleanup, TypeOK
  <2> QED
    BY <2>1, <2>2 DEF Crash
<1>2. hooks' \in [Threads -> Seq(Files)] /\ pending' \in [Threads -> SUBSET Files]
  BY <1>1 DEF TypeOK
<1>3. PICK how \in {"crashed", "interrupted"} : End(r, how) /\ FreeLocks(r)
  BY DEF Crash
<1>4. /\ OthersStay(r) /\ pc'[r] = how /\ draft'[r].req = r
      /\ pc' \in [Requests -> {"idle"} \cup Running \cup Ended]
      /\ thread' \in [Requests -> Threads \cup {NoThread}]
      /\ mentor' \in [Requests -> BOOLEAN] /\ todo' \in [Requests -> Seq(Kinds)]
      /\ year' \in [Requests -> Years] /\ draft' \in [Requests -> Row]
  BY <1>3, EndFacts DEF Ended
<1>5. /\ counterLock' \in [Years -> Requests \cup {NoRequest}]
      /\ userLock' \in [Users -> Requests \cup {NoRequest}]
      /\ UNCHANGED <<tipo, editing, clock, counter, solicitudes, announced>>
  BY <1>3, FreeLocksFacts
<1>6. TypeOK'
  BY <1>1, <1>2, <1>4, <1>5 DEF TypeOK
<1> QED
  BY <1>1, <1>3, <1>4, <1>6

\* The tipo row and the clock are nobody's.
LEMMA EnvironmentFacts ==
  ASSUME TypeOK, Environment
  PROVE  /\ TypeOK'
         /\ UNCHANGED <<counter, counterLock, userLock, solicitudes, announced, pc, locals,
                        storage>>
BY DEF Environment, BeginEdit, EndEdit, Deactivate, NewYear, TypeOK
-----------------------------------------------------------------------------
(***************************************************************************)
(* The counter row and the tables.                                         *)
(***************************************************************************)
\* Every step of a request but its COMMIT: the tables stay, and a counter row
\* changes hands only between r and nobody.
LEMMA FolioStep ==
  ASSUME FolioInv, TypeOK', NEW r \in Requests, OthersStay(r),
         UNCHANGED <<counter, solicitudes>>,
         \/ UNCHANGED announced
         \/ /\ pc[r] = "filed" /\ pc'[r] = "storing"
            /\ announced' = announced \cup { <<year'[r], draft'[r].n, r>> },
         \A y \in Years : counterLock'[y] = counterLock[y] \/ counterLock[y] \in {r, NoRequest},
         draft'[r].req = r,
         pc'[r] \in Holding => /\ counterLock'[year'[r]] = r
                               /\ draft'[r].n = counter[year'[r]] + 1,
         pc[r] \in {"storing"} \cup Past => pc'[r] \in {"storing"} \cup Past,
         pc[r] \in Past => pc'[r] \in Past,
         pc[r] = "storing" /\ pc'[r] = "storing" =>
           year'[r] = year[r] /\ draft'[r].n = draft[r].n
  PROVE  FolioInv'
<1>1. HoldersAreNext'
  <2> SUFFICES ASSUME NEW s \in Requests, pc'[s] \in Holding
               PROVE  counterLock'[year'[s]] = s /\ draft'[s].n = counter'[year'[s]] + 1
    BY DEF HoldersAreNext
  <2>1. CASE s = r
    BY <2>1
  <2>2. CASE s # r
    <3>1. /\ counterLock[year[s]] = s /\ draft[s].n = counter[year[s]] + 1
          /\ year'[s] = year[s] /\ draft'[s] = draft[s] /\ year[s] \in Years
      BY <2>2 DEF OthersStay, FolioInv, HoldersAreNext, TypeOK
    <3>2. s # NoRequest
      BY NoReqAssumption
    <3> QED
      BY <2>2, <3>1, <3>2
  <2> QED
    BY <2>1, <2>2
<1>2. RowsNameTheirRequest'
  BY DEF FolioInv, RowsNameTheirRequest, OthersStay
<1>3. FiledArePast'
  <2> SUFFICES ASSUME NEW y \in Years, NEW row \in solicitudes[y]
               PROVE  pc'[row.req] \in Past
    BY DEF FiledArePast
  <2>1. pc[row.req] \in Past /\ row.req \in Requests
    BY DEF FolioInv, FiledArePast, TypeOK, Row
  <2> QED
    BY <2>1 DEF OthersStay
<1>4. FoliosAreGapless'
  BY DEF FolioInv, FoliosAreGapless
<1>5. ASSUME NEW mail \in announced'
      PROVE  /\ pc'[mail[3]] \in {"storing"} \cup Past
             /\ pc'[mail[3]] = "storing" => mail = NewFolio(mail[3])'
             /\ mail[2] \in 1 .. counter'[mail[1]] + 1
             /\ \A z \in Years : \A row \in solicitudes'[z] :
                  row.req = mail[3] => z = mail[1] /\ row.n = mail[2]
  <2>1. CASE mail \in announced
    <3>1. /\ mail[3] \in Requests /\ pc[mail[3]] \in {"storing"} \cup Past
          /\ pc[mail[3]] = "storing" => mail = NewFolio(mail[3])
          /\ mail[2] \in 1 .. counter[mail[1]] + 1
          /\ \A z \in Years : \A row \in solicitudes[z] :
               row.req = mail[3] => z = mail[1] /\ row.n = mail[2]
      BY <2>1 DEF FolioInv, MailsAreOfTheDraft, MailsNameTheNextFolio, TypeOK
    <3>2. "storing" \notin Past
      BY DEF Past, Ended
    <3> QED
      BY <3>1, <3>2 DEF OthersStay, NewFolio
  <2>2. CASE mail \notin announced
    <3>1. mail = <<year'[r], draft'[r].n, r>> /\ pc[r] = "filed" /\ pc'[r] = "storing"
      BY <2>2
    <3>2. mail[2] \in 1 .. counter'[mail[1]] + 1
      <4>1. /\ mail[1] \in Years /\ counter'[mail[1]] \in Nat
            /\ mail[2] = counter'[mail[1]] + 1
        BY <3>1 DEF TypeOK, Holding
      <4> QED
        BY <4>1
    <3>3. \A z \in Years : \A row \in solicitudes'[z] : row.req # r
      BY <3>1 DEF FolioInv, FiledArePast, Past, Ended
    <3> QED
      BY <3>1, <3>2, <3>3 DEF NewFolio
  <2> QED
    BY <2>1, <2>2
<1>6. MailsAreOfTheDraft'
  BY <1>5 DEF MailsAreOfTheDraft
<1>7. MailsNameTheNextFolio'
  BY <1>5 DEF MailsNameTheNextFolio
<1> QED
  BY <1>1, <1>2, <1>3, <1>4, <1>6, <1>7 DEF FolioInv

\* The COMMIT adds the row after the last one of its year.
LEMMA FolioCommit ==
  ASSUME FolioInv, NEW r \in Requests, Commit(r)
  PROVE  FolioInv'
<1> DEFINE y == year[r]
           n == draft[r].n
<1>1. /\ TypeOK /\ TypeOK' /\ OthersStay(r) /\ pc'[r] = "renaming" /\ pc[r] = "storing"
      /\ UNCHANGED locals /\ UNCHANGED announced
      /\ y \in Years /\ draft[r] \in Row
      /\ counter'[y] = n /\ solicitudes'[y] = solicitudes[y] \cup {draft[r]}
      /\ \A z \in Years \ {y} : /\ counter'[z] = counter[z]
                                /\ solicitudes'[z] = solicitudes[z]
      /\ \A z \in Years : counterLock'[z] = counterLock[z] \/ counterLock[z] = r
  BY CommitFacts DEF FolioInv
<1>2. /\ n = counter[y] + 1 /\ counterLock[y] = r /\ counter[y] \in Nat
      /\ draft[r].req = r
  BY <1>1 DEF FolioInv, HoldersAreNext, RowsNameTheirRequest, Holding, TypeOK
<1> HIDE DEF y, n
<1>3. HoldersAreNext'
  <2> SUFFICES ASSUME NEW s \in Requests, pc'[s] \in Holding
               PROVE  counterLock'[year'[s]] = s /\ draft'[s].n = counter'[year'[s]] + 1
    BY DEF HoldersAreNext
  <2>1. s # r
    BY <1>1 DEF Holding
  <2>2. /\ counterLock[year[s]] = s /\ draft[s].n = counter[year[s]] + 1 /\ year[s] \in Years
        /\ year'[s] = year[s] /\ draft'[s] = draft[s]
    BY <1>1, <2>1 DEF OthersStay, FolioInv, HoldersAreNext, TypeOK
  <2>3. year[s] # y
    BY <1>2, <2>1, <2>2
  <2>4. counterLock'[year[s]] = s /\ counter'[year[s]] = counter[year[s]]
    BY <1>1, <2>1, <2>2, <2>3
  <2> QED
    BY <2>2, <2>4
<1>4. RowsNameTheirRequest' /\ FiledArePast'
  <2>1. ASSUME NEW z \in Years, NEW row \in solicitudes'[z] PROVE pc'[row.req] \in Past
    <3>1. CASE row \in solicitudes[z]
      <4>1. row.req \in Requests /\ pc[row.req] \in Past
        BY <1>1, <3>1 DEF FolioInv, FiledArePast, TypeOK, Row
      <4>2. CASE row.req = r
        BY <1>1, <4>2 DEF Past
      <4>3. CASE row.req # r
        BY <1>1, <4>1, <4>3 DEF OthersStay
      <4> QED
        BY <4>2, <4>3
    <3>2. CASE row \notin solicitudes[z]
      BY <1>1, <1>2, <3>2 DEF Past
    <3> QED
      BY <3>1, <3>2
  <2> QED
    BY <1>1, <2>1 DEF FolioInv, RowsNameTheirRequest, FiledArePast, OthersStay
<1>5. FoliosAreGapless'
  <2> SUFFICES ASSUME NEW z \in Years
               PROVE  /\ { row.n : row \in solicitudes'[z] } = 1 .. counter'[z]
                      /\ \A a, b \in solicitudes'[z] : a.n = b.n => a = b
    BY DEF FoliosAreGapless
  <2>1. /\ { row.n : row \in solicitudes[z] } = 1 .. counter[z]
        /\ \A a, b \in solicitudes[z] : a.n = b.n => a = b
    BY DEF FolioInv, FoliosAreGapless
  <2>2. CASE z # y
    BY <1>1, <2>1, <2>2
  <2>3. CASE z = y
    <3>1. { row.n : row \in solicitudes'[y] } = { row.n : row \in solicitudes[y] } \cup {n}
      BY <1>1 DEF n
    <3>2. (1 .. counter[y]) \cup {n} = 1 .. n /\ n \notin 1 .. counter[y]
      BY <1>2
    <3>3. \A a \in solicitudes[y] : a.n # n
      BY <2>1, <2>3, <3>2
    <3>4. \A a, b \in solicitudes'[y] : a.n = b.n => a = b
      <4> TAKE a, b \in solicitudes'[y]
      <4>1. CASE a \in solicitudes[y] /\ b \in solicitudes[y]
        BY <2>1, <2>3, <4>1
      <4>2. CASE a = draft[r] \/ b = draft[r]
        BY <1>1, <3>3, <4>2 DEF n
      <4> QED
        BY <1>1, <4>1, <4>2
    <3> QED
      BY <1>1, <2>1, <2>3, <3>1, <3>2, <3>4
  <2> QED
    BY <2>2, <2>3
<1>6. ASSUME NEW mail \in announced'
      PROVE  /\ pc'[mail[3]] \in {"storing"} \cup Past
             /\ pc'[mail[3]] = "storing" => mail = NewFolio(mail[3])'
             /\ mail[2] \in 1 .. counter'[mail[1]] + 1
             /\ \A z \in Years : \A row \in solicitudes'[z] :
                  row.req = mail[3] => z = mail[1] /\ row.n = mail[2]
  <2>1. /\ mail[1] \in Years /\ mail[2] \in Nat /\ mail[3] \in Requests
        /\ pc[mail[3]] \in {"storing"} \cup Past
        /\ pc[mail[3]] = "storing" => mail = NewFolio(mail[3])
        /\ mail[2] \in 1 .. counter[mail[1]] + 1 /\ counter[mail[1]] \in Nat
        /\ \A z \in Years : \A row \in solicitudes[z] :
             row.req = mail[3] => z = mail[1] /\ row.n = mail[2]
    BY <1>1, <1>6 DEF FolioInv, MailsAreOfTheDraft, MailsNameTheNextFolio, TypeOK
  <2>2. mail[2] \in 1 .. counter'[mail[1]] + 1
    BY <1>1, <1>2, <2>1
  <2>3. /\ pc'[mail[3]] \in {"storing"} \cup Past
        /\ pc'[mail[3]] = "storing" => mail = NewFolio(mail[3])'
    BY <1>1, <2>1 DEF OthersStay, Past, NewFolio
  <2>4. ASSUME NEW z \in Years, NEW row \in solicitudes'[z], row.req = mail[3]
        PROVE  z = mail[1] /\ row.n = mail[2]
    <3>1. CASE row \in solicitudes[z]
      BY <2>1, <2>4, <3>1
    <3>2. CASE row \notin solicitudes[z]
      <4>1. z = y /\ row = draft[r] /\ mail[3] = r
        BY <1>1, <1>2, <2>4, <3>2
      <4> QED
        BY <1>1, <2>1, <4>1 DEF n, y, NewFolio
    <3> QED
      BY <3>1, <3>2
  <2> QED
    BY <2>2, <2>3, <2>4
<1>7. MailsAreOfTheDraft'
  BY <1>6 DEF MailsAreOfTheDraft
<1>8. MailsNameTheNextFolio'
  BY <1>6 DEF MailsNameTheNextFolio
<1> QED
  BY <1>1, <1>3, <1>4, <1>5, <1>7, <1>8 DEF FolioInv
-----------------------------------------------------------------------------
(***************************************************************************)
(* Threads, hooks and the disk.                                            *)
(***************************************************************************)
\* A request keeps the thread it began on.
LEMMA ThreadStep ==
  ASSUME TypeOK, ThreadsServeOne, NEW r \in Requests, OthersStay(r),
         pc'[r] \in Running => pc[r] \in Running /\ thread'[r] = thread[r]
  PROVE  ThreadsServeOne'
BY DEF ThreadsServeOne, OthersStay

\* A running request is the only one on its thread.
LEMMA OneOnThread ==
  ASSUME ThreadsServeOne, NEW r \in Requests, NEW s \in Requests,
         pc[r] \in Running, pc[s] \in Running, thread[r] = thread[s]
  PROVE  r = s
BY DEF ThreadsServeOne

\* What a scheduled rename is of.
LEMMA HookFacts ==
  ASSUME TypeOK, FileInv, NEW t \in Threads, NEW i \in DOMAIN hooks[t]
  PROVE  /\ hooks[t][i] \in Files /\ hooks[t][i][1] \in Requests
         /\ hooks[t][i][2] \in Nat
         /\ pc[hooks[t][i][1]] \in {"storing", "renaming"}
         /\ pc[hooks[t][i][1]] \in Running
         /\ thread[hooks[t][i][1]] = t
         /\ hooks[t][i] \in partial
<1>1. hooks[t][i] \in Files
  BY DEF TypeOK
<1>2. hooks[t][i] \in partial
  BY DEF FileInv, HooksFindTheirPartial
<1>3. /\ pc[hooks[t][i][1]] \in {"storing", "renaming"} /\ thread[hooks[t][i][1]] = t
  BY DEF FileInv, HooksAreOfTheRow
<1> QED
  BY <1>1, <1>2, <1>3 DEF Files, Running, InBlock

\* Whose a file on the list of a thread is.
LEMMA PendingFacts ==
  ASSUME TypeOK, FileInv, NEW t \in Threads, NEW x \in pending[t]
  PROVE  /\ x \in Files /\ x[1] \in Requests
         /\ pc[x[1]] \in {"storing", "renaming", "cleaning", "dying"}
         /\ pc[x[1]] \in Running /\ thread[x[1]] = t
<1>1. x \in Files
  BY DEF TypeOK
<1>2. /\ pc[x[1]] \in {"storing", "renaming", "cleaning", "dying"}
      /\ pc[x[1]] \in Running /\ thread[x[1]] = t
  BY DEF FileInv, PendingIsStored, SweepIsPrivate
<1> QED
  BY <1>1, <1>2 DEF Files

\* Every step of r that schedules no file and renames none: the hooks and the
\* list of a thread stay or shrink, and what is left of r's on them agrees with
\* where r is.
LEMMA FileStep ==
  ASSUME TypeOK, FileInv, TypeOK', NEW r \in Requests, OthersStay(r), ThreadsServeOne',
         \A t \in Threads : hooks'[t] = hooks[t] \/ hooks'[t] = <<>>,
         \A t \in Threads : pending'[t] \subseteq pending[t],
         \A y \in Years : solicitudes[y] \subseteq solicitudes'[y],
         final' = final,
         \A t \in Threads : \A i \in DOMAIN hooks'[t] : hooks'[t][i] \in partial',
         \A t \in Threads : \A i \in DOMAIN hooks'[t] :
           hooks'[t][i][1] = r => /\ pc'[r] \in {"storing", "renaming"}
                                  /\ thread'[r] = thread[r] /\ draft'[r] = draft[r]
                                  /\ todo'[r] = todo[r],
         \A t \in Threads : \A x \in pending'[t] :
           x[1] = r => /\ pc'[r] \in {"storing", "renaming", "cleaning", "dying"}
                       /\ thread'[r] = thread[r],
         pc'[r] = "renaming" => draft'[r] \in solicitudes'[year'[r]]
  PROVE  FileInv'
<1>1. HooksAreOfTheRow'
  <2> SUFFICES ASSUME NEW t \in Threads, NEW i \in DOMAIN hooks'[t]
               PROVE  LET x == hooks'[t][i]
                          s == x[1] IN
                      /\ pc'[s] \in {"storing", "renaming"} /\ thread'[s] = t
                      /\ \E a \in draft'[s].archivos : a[1] = x
                      /\ x[2] > Len(todo'[s])
                      /\ \A j \in DOMAIN hooks'[t] : hooks'[t][j] = x => j = i
    BY DEF HooksAreOfTheRow
  <2> DEFINE x == hooks[t][i]
             s == x[1]
  <2>1. hooks'[t] = hooks[t] /\ i \in DOMAIN hooks[t]
    OBVIOUS
  <2>2. /\ pc[s] \in {"storing", "renaming"} /\ thread[s] = t
        /\ \E a \in draft[s].archivos : a[1] = x
        /\ x[2] > Len(todo[s])
        /\ \A j \in DOMAIN hooks[t] : hooks[t][j] = x => j = i
    BY <2>1 DEF FileInv, HooksAreOfTheRow
  <2>3. s \in Requests
    BY <2>1, HookFacts
  <2>4. /\ pc'[s] \in {"storing", "renaming"} /\ thread'[s] = thread[s]
        /\ draft'[s] = draft[s] /\ todo'[s] = todo[s]
    <3>1. CASE s = r
      BY <2>1, <3>1
    <3>2. CASE s # r
      BY <2>2, <2>3, <3>2 DEF OthersStay
    <3> QED
      BY <3>1, <3>2
  <2> QED
    BY <2>1, <2>2, <2>4
<1>2. PendingIsStored' /\ SweepIsPrivate'
  <2>1. ASSUME NEW t \in Threads, NEW x \in pending'[t]
        PROVE  pc'[x[1]] \in {"storing", "renaming", "cleaning", "dying"} /\ thread'[x[1]] = t
    <3>1. /\ x[1] \in Requests /\ pc[x[1]] \in {"storing", "renaming", "cleaning", "dying"}
          /\ thread[x[1]] = t
      BY PendingFacts
    <3> QED
      BY <3>1 DEF OthersStay
  <2> QED
    BY <2>1 DEF PendingIsStored, SweepIsPrivate, Running, InBlock
<1>3. RenamingIsCommitted'
  <2> SUFFICES ASSUME NEW s \in Requests, pc'[s] = "renaming"
               PROVE  draft'[s] \in solicitudes'[year'[s]]
    BY DEF RenamingIsCommitted
  <2>1. CASE s # r
    <3>1. draft[s] \in solicitudes[year[s]] /\ year[s] \in Years
      BY <2>1 DEF FileInv, RenamingIsCommitted, OthersStay, TypeOK
    <3> QED
      BY <2>1, <3>1 DEF OthersStay
  <2> QED
    BY <2>1
<1>4. FinalFilesHaveRows'
  BY DEF FileInv, FinalFilesHaveRows
<1>5. HooksFindTheirPartial'
  BY DEF HooksFindTheirPartial
<1> QED
  BY <1>1, <1>2, <1>3, <1>4, <1>5 DEF FileInv

\* Nobody's files are r's while r has stored none.
LEMMA NothingStored ==
  ASSUME TypeOK, FileInv, NEW r \in Requests, pc[r] \notin {"storing", "renaming", "cleaning", "dying"}
  PROVE  /\ \A t \in Threads : \A i \in DOMAIN hooks[t] : hooks[t][i][1] # r
         /\ \A t \in Threads : \A x \in pending[t] : x[1] # r
<1>1. ASSUME NEW t \in Threads, NEW i \in DOMAIN hooks[t] PROVE hooks[t][i][1] # r
  BY HookFacts
<1>2. ASSUME NEW t \in Threads, NEW x \in pending[t] PROVE x[1] # r
  BY PendingFacts
<1> QED
  BY <1>1, <1>2

\* The hooks of another thread are not r's.
LEMMA HooksOfOthers ==
  ASSUME TypeOK, FileInv, NEW r \in Requests, NEW t \in Threads \ {thread[r]},
         NEW i \in DOMAIN hooks[t]
  PROVE  hooks[t][i][1] # r
BY HookFacts

\* A step that leaves the disk and the tables alone, of a request that has not
\* stored anything.
LEMMA FileQuiet ==
  ASSUME TypeOK, FileInv, TypeOK', NEW r \in Requests, OthersStay(r), ThreadsServeOne',
         pc[r] \notin {"storing", "renaming", "cleaning", "dying"}, pc'[r] # "renaming",
         UNCHANGED <<solicitudes, storage>>
  PROVE  FileInv'
<1>1. /\ \A t \in Threads : \A i \in DOMAIN hooks'[t] : hooks'[t][i][1] # r
      /\ \A t \in Threads : \A x \in pending'[t] : x[1] # r
  BY NothingStored
<1>2. \A t \in Threads : \A i \in DOMAIN hooks'[t] : hooks'[t][i] \in partial'
  BY DEF FileInv, HooksFindTheirPartial
<1> QED
  BY <1>1, <1>2, FileStep

\* The new file has a name no scheduled rename has.
LEMMA FileStoreUpload ==
  ASSUME TypeOK, FileInv, NEW r \in Requests, thread[r] \in Threads, StoreUpload(r)
  PROVE  FileInv'
<1> DEFINE t == thread[r]
           x == NextFile(r)
<1>1. /\ TypeOK' /\ OthersStay(r) /\ pc'[r] = "storing" /\ pc[r] = "storing"
      /\ UNCHANGED <<thread, year>>
      /\ draft'[r].archivos = draft[r].archivos \cup { <<x, NextKind(r)>> }
      /\ x \in Files /\ Len(todo[r]) \in Nat /\ Len(todo'[r]) = Len(todo[r]) - 1
  BY StoreUploadFacts
<1>2. x[1] = r /\ x[2] = Len(todo[r]) /\ t \in Threads /\ pc[r] \in Running
  BY <1>1 DEF NextFile, Running, InBlock
<1>3. /\ partial' = partial \cup {x} /\ final' = final
      /\ pending'[t] = pending[t] \cup {x} /\ hooks'[t] = Append(hooks[t], x)
      /\ hooks[t] \in Seq(Files)
      /\ \A u \in Threads \ {t} : pending'[u] = pending[u] /\ hooks'[u] = hooks[u]
      /\ UNCHANGED <<solicitudes, pc>>
  BY DEF StoreUpload, Save, TypeOK
<1> HIDE DEF t, x
<1>4. ASSUME NEW i \in DOMAIN hooks[t]
      PROVE  hooks[t][i][1] = r /\ hooks[t][i][2] > Len(todo[r]) /\ hooks[t][i] # x
  <2>1. hooks[t][i][1] = r
    BY <1>2, HookFacts, OneOnThread DEF FileInv, t
  <2>2. hooks[t][i][2] > Len(todo[r])
    BY <1>2, <2>1 DEF FileInv, HooksAreOfTheRow
  <2> QED
    BY <1>1, <1>2, <2>1, <2>2
<1>5. ThreadsServeOne'
  BY <1>1, <1>2, ThreadStep DEF FileInv
<1>6. HooksAreOfTheRow'
  <2> SUFFICES ASSUME NEW u \in Threads, NEW i \in DOMAIN hooks'[u]
               PROVE  LET z == hooks'[u][i]
                          s == z[1] IN
                      /\ pc'[s] \in {"storing", "renaming"} /\ thread'[s] = u
                      /\ \E a \in draft'[s].archivos : a[1] = z
                      /\ z[2] > Len(todo'[s])
                      /\ \A j \in DOMAIN hooks'[u] : hooks'[u][j] = z => j = i
    BY DEF HooksAreOfTheRow
  <2>1. CASE u # t
    <3>1. hooks'[u] = hooks[u] /\ i \in DOMAIN hooks[u]
      BY <1>3, <2>1
    <3>2. hooks[u][i][1] \in Requests \ {r}
      BY <2>1, <3>1, HookFacts, HooksOfOthers DEF t
    <3> QED
      BY <1>1, <1>3, <3>1, <3>2 DEF OthersStay, FileInv, HooksAreOfTheRow
  <2>2. CASE u = t /\ i \in DOMAIN hooks[t]
    <3>1. hooks'[t][i] = hooks[t][i] /\ hooks[t][i][1] = r
      BY <1>3, <1>4, <2>2
    <3>2. /\ pc[r] \in {"storing", "renaming"} /\ thread[r] = t
          /\ \E a \in draft[r].archivos : a[1] = hooks[t][i]
          /\ hooks[t][i][2] > Len(todo[r]) /\ hooks[t][i][2] \in Nat
          /\ \A j \in DOMAIN hooks[t] : hooks[t][j] = hooks[t][i] => j = i
      BY <1>2, <2>2, <3>1, HookFacts DEF FileInv, HooksAreOfTheRow
    <3>3. \A j \in DOMAIN hooks'[t] : hooks'[t][j] = hooks[t][i] => j = i
      BY <1>3, <1>4, <2>2, <3>2
    <3>4. \E a \in draft'[r].archivos : a[1] = hooks[t][i]
      BY <1>1, <3>2
    <3>5. hooks[t][i][2] > Len(todo'[r])
      BY <1>1, <3>2
    <3>6. thread'[r] = t
      BY <1>1 DEF t
    <3> QED
      BY <1>1, <2>2, <3>1, <3>3, <3>4, <3>5, <3>6
  <2>3. CASE u = t /\ i \notin DOMAIN hooks[t]
    <3>1. hooks'[t][i] = x
      BY <1>3, <2>3
    <3>2. \A j \in DOMAIN hooks'[t] : hooks'[t][j] = x => j = i
      BY <1>3, <1>4, <2>3
    <3>3. \E a \in draft'[r].archivos : a[1] = x
      <4> DEFINE new == <<x, NextKind(r)>>
      <4>1. new \in draft'[r].archivos /\ new[1] = x
        BY <1>1
      <4> HIDE DEF new
      <4> QED
        BY <4>1
    <3> QED
      BY <1>1, <1>2, <2>3, <3>1, <3>2, <3>3 DEF t
  <2> QED
    BY <2>1, <2>2, <2>3
<1>7. PendingIsStored' /\ SweepIsPrivate'
  <2> SUFFICES ASSUME NEW u \in Threads, NEW z \in pending'[u]
               PROVE  /\ pc'[z[1]] \in {"storing", "renaming", "cleaning", "dying"}
                      /\ thread'[z[1]] = u
    BY DEF PendingIsStored, SweepIsPrivate, Running, InBlock
  <2>1. CASE z \in pending[u]
    BY <1>1, <1>3, <2>1, PendingFacts
  <2>2. CASE z \notin pending[u]
    BY <1>1, <1>2, <1>3, <2>2 DEF t
  <2> QED
    BY <2>1, <2>2
<1>8. RenamingIsCommitted'
  BY <1>1, <1>3 DEF FileInv, RenamingIsCommitted, OthersStay
<1>9. FinalFilesHaveRows'
  BY <1>3 DEF FileInv, FinalFilesHaveRows
<1>10. HooksFindTheirPartial'
  <2> SUFFICES ASSUME NEW u \in Threads, NEW i \in DOMAIN hooks'[u]
               PROVE  hooks'[u][i] \in partial'
    BY DEF HooksFindTheirPartial
  <2>1. CASE u # t
    BY <1>3, <2>1 DEF FileInv, HooksFindTheirPartial
  <2>2. CASE u = t /\ i \in DOMAIN hooks[t]
    BY <1>3, <2>2 DEF FileInv, HooksFindTheirPartial
  <2>3. CASE u = t /\ i \notin DOMAIN hooks[t]
    BY <1>3, <2>3
  <2> QED
    BY <2>1, <2>2, <2>3
<1> QED
  BY <1>5, <1>6, <1>7, <1>8, <1>9, <1>10 DEF FileInv

\* The rename of a file of the committed row.
LEMMA FileRename ==
  ASSUME TypeOK, FileInv, NEW r \in Requests, thread[r] \in Threads, pc[r] = "renaming",
         Rename(thread[r]), UNCHANGED <<intake, pc, locals>>
  PROVE  FileInv'
<1> DEFINE t == thread[r]
           x == Head(hooks[t])
<1>1. /\ hooks[t] # <<>> /\ hooks[t] \in Seq(Files) /\ t \in Threads
      /\ 1 \in DOMAIN hooks[t] /\ x = hooks[t][1]
  BY DEF Rename, TypeOK
<1>2. /\ partial' = partial \ {x} /\ final' = final \cup {x}
      /\ hooks'[t] = Tail(hooks[t])
      /\ \A u \in Threads \ {t} : hooks'[u] = hooks[u]
      /\ \A u \in Threads : pending'[u] \subseteq pending[u]
  BY DEF Rename, TypeOK
<1> HIDE DEF x, t
<1>3. /\ \A i \in DOMAIN hooks'[t] : i + 1 \in DOMAIN hooks[t] /\ hooks'[t][i] = hooks[t][i + 1]
      /\ \A i \in DOMAIN hooks'[t] : i \in Nat
  BY <1>1, <1>2
<1>4. x[1] = r
  BY <1>1, HookFacts, OneOnThread DEF FileInv, t, Running
<1>5. ThreadsServeOne' /\ RenamingIsCommitted'
  BY DEF FileInv, ThreadsServeOne, RenamingIsCommitted
<1>6. HooksAreOfTheRow'
  <2> SUFFICES ASSUME NEW u \in Threads, NEW i \in DOMAIN hooks'[u]
               PROVE  LET z == hooks'[u][i]
                          s == z[1] IN
                      /\ pc[s] \in {"storing", "renaming"} /\ thread[s] = u
                      /\ \E a \in draft[s].archivos : a[1] = z
                      /\ z[2] > Len(todo[s])
                      /\ \A j \in DOMAIN hooks'[u] : hooks'[u][j] = z => j = i
    BY DEF HooksAreOfTheRow
  <2>1. CASE u # t
    BY <1>2, <2>1 DEF FileInv, HooksAreOfTheRow
  <2>2. CASE u = t
    <3>1. i + 1 \in DOMAIN hooks[t] /\ hooks'[t][i] = hooks[t][i + 1]
      BY <1>3, <2>2
    <3>2. \A j \in DOMAIN hooks'[t] : hooks'[t][j] = hooks'[t][i] => j = i
      <4> TAKE j \in DOMAIN hooks'[t]
      <4> HAVE hooks'[t][j] = hooks'[t][i]
      <4>1. j + 1 \in DOMAIN hooks[t] /\ hooks[t][j + 1] = hooks[t][i + 1]
        BY <1>3, <3>1
      <4>2. j + 1 = i + 1
        BY <1>1, <3>1, <4>1 DEF FileInv, HooksAreOfTheRow
      <4> QED
        BY <1>3, <2>2, <4>2
    <3> QED
      BY <1>1, <2>2, <3>1, <3>2 DEF FileInv, HooksAreOfTheRow
  <2> QED
    BY <2>1, <2>2
<1>7. PendingIsStored' /\ SweepIsPrivate'
  BY <1>2 DEF FileInv, PendingIsStored, SweepIsPrivate
<1>8. FinalFilesHaveRows'
  <2>1. draft[r] \in solicitudes[year[r]] /\ year[r] \in Years
    BY DEF FileInv, RenamingIsCommitted, TypeOK
  <2>2. \E a \in draft[r].archivos : a[1] = x
    BY <1>1, <1>4 DEF FileInv, HooksAreOfTheRow
  <2> QED
    BY <1>2, <2>1, <2>2 DEF FileInv, FinalFilesHaveRows
<1>9. HooksFindTheirPartial'
  <2> SUFFICES ASSUME NEW u \in Threads, NEW i \in DOMAIN hooks'[u]
               PROVE  hooks'[u][i] \in partial'
    BY DEF HooksFindTheirPartial
  <2>1. CASE u # t
    <3>1. hooks'[u][i] = hooks[u][i] /\ i \in DOMAIN hooks[u]
      BY <1>2, <2>1
    <3>2. hooks[u][i] \in partial /\ hooks[u][i][1] # r
      BY <2>1, <3>1, HookFacts, HooksOfOthers DEF t
    <3> QED
      BY <1>2, <1>4, <3>1, <3>2
  <2>2. CASE u = t
    <3>1. i + 1 \in DOMAIN hooks[t] /\ hooks'[t][i] = hooks[t][i + 1] /\ i \in Nat
      BY <1>3, <2>2
    <3>2. hooks[t][i + 1] \in partial
      BY <1>1, <3>1, HookFacts
    <3>3. hooks[t][i + 1] # x
      <4> SUFFICES ASSUME hooks[t][i + 1] = x PROVE FALSE
        OBVIOUS
      <4>1. HooksAreOfTheRow /\ t \in Threads /\ hooks[t] # <<>>
        BY <1>1 DEF FileInv
      <4> PICK h : h = hooks[t]
        OBVIOUS
      <4>2. \A k, j \in DOMAIN h : h[j] = h[k] => j = k
        BY <4>1, Zenon DEF HooksAreOfTheRow
      <4>3. h[1] = x /\ 1 \in DOMAIN h /\ i + 1 \in DOMAIN h /\ h[i + 1] = x
        BY <1>1, <3>1, <4>1
      <4>4. i + 1 = 1
        BY <4>2, <4>3
      <4>5. i = 0
        BY <3>1, <4>4
      <4>6. hooks'[u] = Tail(hooks[t])
        BY <1>2, <2>2
      <4>7. Tail(hooks[t]) \in Seq(Files)
        BY <1>1
      <4>8. DOMAIN Tail(hooks[t]) = 1 .. Len(Tail(hooks[t]))
        BY <4>7
      <4> QED
        BY <4>5, <4>6, <4>8
    <3> QED
      BY <1>2, <2>2, <3>1, <3>2, <3>3
  <2> QED
    BY <2>1, <2>2
<1> QED
  BY <1>5, <1>6, <1>7, <1>8, <1>9 DEF FileInv

\* The callbacks that remain are dropped, or there are none: no hook of r is left
\* when it goes to its sweep.
LEMMA FileHooks ==
  ASSUME TypeOK, FileInv, NEW r \in Requests, thread[r] \in Threads, RunHook(r)
  PROVE  FileInv'
<1>1. /\ TypeOK' /\ OthersStay(r) /\ pc[r] = "renaming" /\ pc'[r] \in {"renaming", "cleaning"}
      /\ UNCHANGED <<intake, locals>>
  BY RunHookFacts
<1>2. CASE Rename(thread[r]) /\ UNCHANGED pc
  BY <1>1, <1>2, FileRename
<1>3. CASE /\ pc'[r] = "cleaning" /\ UNCHANGED <<partial, final>>
           /\ hooks' = [hooks EXCEPT ![thread[r]] = <<>>]
           /\ \A t \in Threads : pending'[t] \subseteq pending[t]
  <2>1. \A t \in Threads : hooks'[t] = hooks[t] \/ hooks'[t] = <<>>
    BY <1>3 DEF TypeOK
  <2>2. \A t \in Threads : \A i \in DOMAIN hooks'[t] :
          hooks'[t][i][1] # r /\ hooks'[t][i] \in partial'
    <3> TAKE t \in Threads
    <3> TAKE i \in DOMAIN hooks'[t]
    <3>1. t # thread[r] /\ hooks'[t] = hooks[t]
      BY <1>3 DEF TypeOK
    <3> QED
      BY <1>3, <3>1, HookFacts, HooksOfOthers
  <2>3. ThreadsServeOne'
    BY <1>1, ThreadStep DEF FileInv, Running
  <2> QED
    BY <1>1, <1>3, <2>1, <2>2, <2>3, FileStep
<1>4. CASE RenameBreaks(thread[r]) /\ Goto(r, "cleaning")
  <2>1. pc'[r] = "cleaning"
    BY <1>4 DEF Goto, TypeOK
  <2>2. /\ UNCHANGED <<partial, final>>
        /\ hooks' = [hooks EXCEPT ![thread[r]] = <<>>]
        /\ \A t \in Threads : pending'[t] \subseteq pending[t]
    BY <1>4 DEF RenameBreaks, TypeOK
  <2> QED
    BY <1>3, <2>1, <2>2
<1>5. CASE hooks[thread[r]] = <<>> /\ Goto(r, "cleaning") /\ UNCHANGED storage
  <2>1. pc'[r] = "cleaning"
    BY <1>5 DEF Goto, TypeOK
  <2>2. hooks' = [hooks EXCEPT ![thread[r]] = <<>>]
    BY <1>5 DEF TypeOK
  <2> QED
    BY <1>3, <1>5, <2>1, <2>2
<1> QED
  BY <1>2, <1>4, <1>5 DEF RunHook

\* After the COMMIT the row is there for its renames.
LEMMA FileCommit ==
  ASSUME FolioInv, FileInv, NEW r \in Requests, Commit(r)
  PROVE  FileInv'
<1>1. /\ TypeOK /\ TypeOK' /\ OthersStay(r) /\ pc'[r] = "renaming" /\ pc[r] = "storing"
      /\ UNCHANGED locals /\ UNCHANGED storage
      /\ year[r] \in Years
      /\ solicitudes'[year[r]] = solicitudes[year[r]] \cup {draft[r]}
      /\ \A y \in Years \ {year[r]} : solicitudes'[y] = solicitudes[y]
  BY CommitFacts DEF FolioInv, Commit
<1>2. ThreadsServeOne'
  BY <1>1, ThreadStep DEF FileInv, Running, InBlock
<1>3. \A t \in Threads : \A i \in DOMAIN hooks'[t] : hooks'[t][i] \in partial'
  BY <1>1 DEF FileInv, HooksFindTheirPartial
<1>4. \A y \in Years : solicitudes[y] \subseteq solicitudes'[y]
  BY <1>1
<1> QED
  BY <1>1, <1>2, <1>3, <1>4, FileStep

\* ROLLBACK drops the hooks of r's thread, which are all of r's.
LEMMA FileRollBack ==
  ASSUME TypeOK, FileInv, NEW r \in Requests, thread[r] \in Threads, pc[r] \in Running,
         RefuseUpload(r) \/ UploadBreaks(r) \/ Abort(r) \/ Interrupt(r)
  PROVE  FileInv'
<1>1. /\ TypeOK' /\ OthersStay(r) /\ pc'[r] \in {"cleaning", "dying"}
      /\ UNCHANGED <<thread, draft>>
      /\ FreeLocks(r) /\ hooks' = [hooks EXCEPT ![thread[r]] = <<>>]
      /\ partial \subseteq partial' /\ UNCHANGED final
      /\ \A t \in Threads : pending'[t] \subseteq pending[t]
  BY RollBackFacts
<1>2. ThreadsServeOne'
  BY <1>1, ThreadStep DEF FileInv
<1>3. UNCHANGED solicitudes
  BY <1>1 DEF FreeLocks
<1>4. \A t \in Threads : hooks'[t] = hooks[t] \/ hooks'[t] = <<>>
  BY <1>1 DEF TypeOK
<1>5. \A t \in Threads : \A i \in DOMAIN hooks'[t] :
        hooks'[t][i][1] # r /\ hooks'[t][i] \in partial'
  <2> TAKE t \in Threads
  <2> TAKE i \in DOMAIN hooks'[t]
  <2>1. t # thread[r] /\ hooks'[t] = hooks[t]
    BY <1>1 DEF TypeOK
  <2> QED
    BY <1>1, <2>1, HookFacts, HooksOfOthers
<1> QED
  BY <1>1, <1>2, <1>3, <1>4, <1>5, FileStep

\* The sweep deletes files of its own request only, and that request has no hook.
LEMMA FileSweep ==
  ASSUME TypeOK, FileInv, NEW r \in Requests, thread[r] \in Threads, Sweep(r)
  PROVE  FileInv'
<1>1. /\ TypeOK' /\ OthersStay(r) /\ pc[r] \in {"cleaning", "dying"} /\ pc'[r] \in Ended
      /\ UNCHANGED intake /\ pc[r] \in Running
  BY SweepFacts DEF Running
<1>2. /\ UNCHANGED <<final, hooks>> /\ partial \ pending[thread[r]] \subseteq partial'
      /\ pending' = [pending EXCEPT ![thread[r]] = {}]
  BY DEF Sweep, CleanupPending
<1>3. ThreadsServeOne' /\ pc'[r] # "renaming"
  BY <1>1, ThreadStep DEF FileInv, Running, InBlock, Ended
<1>4. \A t \in Threads : \A i \in DOMAIN hooks'[t] :
        hooks'[t][i][1] # r /\ hooks'[t][i] \in partial'
  <2> TAKE t \in Threads
  <2> TAKE i \in DOMAIN hooks'[t]
  <2>1. /\ hooks'[t][i] = hooks[t][i] /\ i \in DOMAIN hooks[t]
        /\ hooks[t][i] \in partial /\ hooks[t][i][1] \in Requests
        /\ pc[hooks[t][i][1]] \in {"storing", "renaming"}
        /\ pc[hooks[t][i][1]] \in Running
    BY <1>2, HookFacts
  <2>2. hooks[t][i][1] # r
    BY <1>1, <2>1
  <2>3. hooks[t][i] \notin pending[thread[r]]
    BY <1>1, <2>1, <2>2, PendingFacts, OneOnThread DEF FileInv
  <2> QED
    BY <1>2, <2>1, <2>2, <2>3
<1>5. \A t \in Threads : \A x \in pending'[t] : x[1] # r /\ x \in pending[t]
  <2> TAKE t \in Threads
  <2> TAKE x \in pending'[t]
  <2>1. t # thread[r] /\ x \in pending[t]
    BY <1>2 DEF TypeOK
  <2> QED
    BY <2>1, PendingFacts
<1> QED
  BY <1>1, <1>2, <1>3, <1>4, <1>5, FileStep

\* The crash of a worker forgets what its thread had, which is all of r's.
LEMMA FileCrash ==
  ASSUME TypeOK, FileInv, NEW r \in Requests, thread[r] \in Threads, Crash(r)
  PROVE  FileInv'
<1>1. /\ TypeOK' /\ OthersStay(r) /\ pc'[r] \in {"crashed", "interrupted"} /\ FreeLocks(r)
      /\ UNCHANGED final /\ pc[r] \in Running
      /\ \/ UNCHANGED partial
         \/ pc[r] \in {"cleaning", "dying"} /\ partial \ pending[thread[r]] \subseteq partial'
      /\ hooks' = [hooks EXCEPT ![thread[r]] = <<>>]
      /\ pending' = [pending EXCEPT ![thread[r]] = {}]
  BY CrashFacts DEF Crash
<1>2. ThreadsServeOne'
  BY <1>1, ThreadStep DEF FileInv, Running, InBlock
<1>3. UNCHANGED solicitudes
  BY <1>1 DEF FreeLocks
<1>4. \A t \in Threads : hooks'[t] = hooks[t] \/ hooks'[t] = <<>>
  BY <1>1 DEF TypeOK
<1>5. \A t \in Threads : \A i \in DOMAIN hooks'[t] :
        hooks'[t][i][1] # r /\ hooks'[t][i] \in partial'
  <2> TAKE t \in Threads
  <2> TAKE i \in DOMAIN hooks'[t]
  <2>1. t # thread[r] /\ hooks'[t] = hooks[t]
    BY <1>1 DEF TypeOK
  <2>2. /\ hooks[t][i] \in partial /\ hooks[t][i][1] # r /\ hooks[t][i][1] \in Requests
        /\ pc[hooks[t][i][1]] \in Running /\ thread[hooks[t][i][1]] = t
    BY <2>1, HookFacts, HooksOfOthers
  <2>3. hooks[t][i] \notin pending[thread[r]]
    BY <2>1, <2>2, PendingFacts
  <2> QED
    BY <1>1, <2>1, <2>2, <2>3
<1>6. \A t \in Threads : \A x \in pending'[t] : x[1] # r /\ x \in pending[t]
  <2> TAKE t \in Threads
  <2> TAKE x \in pending'[t]
  <2>1. t # thread[r] /\ x \in pending[t]
    BY <1>1 DEF TypeOK
  <2> QED
    BY <2>1, PendingFacts
<1> QED
  BY <1>1, <1>2, <1>3, <1>4, <1>5, <1>6, FileStep
-----------------------------------------------------------------------------
(***************************************************************************)
(* The invariant.                                                          *)
(***************************************************************************)
\* What every step of a running request starts from.
LEMMA RunningFacts ==
  ASSUME IInv, NEW r \in Requests
  PROVE  /\ TypeOK /\ FolioInv /\ FileInv /\ ThreadsServeOne /\ draft[r].req = r
         /\ pc[r] \in Running => thread[r] \in Threads
BY DEF IInv, FolioInv, FileInv, RowsNameTheirRequest, ThreadsServeOne

\* A step that touches nothing but the locals of a request that has stored and
\* allocated nothing.
LEMMA LocalStep ==
  ASSUME IInv, NEW r \in Requests, TypeOK', OthersStay(r), ThreadsServeOne',
         UNCHANGED <<counter, counterLock, solicitudes, announced, storage>>,
         pc[r] \notin {"storing"} \cup Past,
         pc'[r] \notin {"filed", "storing", "renaming"},
         draft'[r].req = r
  PROVE  IInv'
<1> pc[r] \notin {"storing", "renaming", "cleaning", "dying"}
  BY DEF Past
<1>1. FolioInv'
  BY RunningFacts, FolioStep DEF Holding
<1>2. FileInv'
  BY RunningFacts, FileQuiet
<1> QED
  BY <1>1, <1>2 DEF IInv

\* A request is taken up by a free thread.
LEMMA OpenStep == ASSUME IInv, NEW r \in Requests, NEW t \in Threads, Open(r, t) PROVE IInv'
<1>1. /\ TypeOK /\ ThreadsServeOne /\ draft[r].req = r
  BY RunningFacts
<1>2. /\ TypeOK' /\ OthersStay(r) /\ draft'[r].req = r
      /\ \/ pc'[r] = "opened" /\ thread'[r] = t
         \/ pc'[r] = "ended"
  BY <1>1, OpenFacts
<1>3. /\ pc[r] = "idle" /\ Free(t)
      /\ UNCHANGED <<counter, counterLock, solicitudes, announced, storage>>
  BY DEF Open
<1>4. ThreadsServeOne'
  <2>1. CASE pc'[r] = "ended"
    BY <1>1, <1>2, <2>1, ThreadStep DEF Running, InBlock
  <2>2. CASE pc'[r] = "opened" /\ thread'[r] = t
    BY <1>1, <1>2, <1>3, <2>2 DEF ThreadsServeOne, OthersStay, Free
  <2> QED
    BY <1>2, <2>1, <2>2
<1>5. pc[r] \notin {"storing"} \cup Past
  BY <1>3 DEF Past, Ended
<1> QED
  BY <1>2, <1>3, <1>4, <1>5, LocalStep

\* The form and its preview, the two readings of the tipo, the year.
LEMMA EarlyStep ==
  ASSUME IInv, NEW r \in Requests,
         ValidateForm(r) \/ Preview(r) \/ ReadTipo(r) \/ ReadSnapshot(r) \/ Resolve(r)
  PROVE  IInv'
<1>1. /\ TypeOK /\ ThreadsServeOne /\ draft[r].req = r
  BY RunningFacts
<1>2. /\ pc[r] \in {"opened", "previewing", "valid", "priced", "snapped", "answered"}
      /\ UNCHANGED <<counter, counterLock, solicitudes, announced, storage>>
  BY DEF ValidateForm, Preview, ReadTipo, ReadSnapshot, Resolve
<1>3. pc[r] \in Running /\ pc[r] \notin {"storing"} \cup Past
  BY <1>2 DEF Running, InBlock, Past, Ended
<1>4. /\ TypeOK' /\ OthersStay(r) /\ draft'[r].req = r
      /\ \/ pc'[r] = "ended"
         \/ /\ pc'[r] \in {"valid", "previewing", "priced", "snapped", "answered", "ready",
                          "cleaning"}
            /\ thread'[r] = thread[r]
  <2>1. CASE ValidateForm(r)
    BY <1>1, <2>1, ValidateFormFacts
  <2>2. CASE Preview(r)
    BY <1>1, <2>2, PreviewFacts
  <2>3. CASE ReadTipo(r)
    BY <1>1, <2>3, ReadTipoFacts
  <2>4. CASE ReadSnapshot(r)
    BY <1>1, <2>4, ReadSnapshotFacts
  <2>5. CASE Resolve(r)
    BY <1>1, <2>5, ResolveFacts
  <2> QED
    BY <2>1, <2>2, <2>3, <2>4, <2>5
<1>5. ThreadsServeOne'
  BY <1>1, <1>3, <1>4, ThreadStep DEF Running, InBlock
<1>6. pc'[r] \notin {"filed", "storing", "renaming"}
  BY <1>4
<1> QED
  BY <1>2, <1>3, <1>4, <1>5, <1>6, LocalStep

\* The allocation takes the counter row from nobody.
LEMMA FileSolicitudStep ==
  ASSUME IInv, NEW r \in Requests, FileSolicitud(r)
  PROVE  IInv'
<1>1. /\ TypeOK /\ FolioInv /\ FileInv /\ ThreadsServeOne /\ draft[r].req = r
  BY RunningFacts
<1>2. /\ pc[r] = "ready" /\ pc[r] \in Running
      /\ UNCHANGED <<counter, solicitudes, announced, storage>>
  BY DEF FileSolicitud, Running, InBlock
<1>3. /\ TypeOK' /\ OthersStay(r) /\ pc'[r] = "filed"
      /\ thread'[r] = thread[r] /\ draft'[r].req = draft[r].req
      /\ year'[r] = year[r] /\ year[r] \in Years
      /\ draft'[r].n = counter[year[r]] + 1
      /\ counterLock[year[r]] = NoRequest
      /\ counterLock'[year[r]] = r
      /\ \A y \in Years \ {year[r]} : counterLock'[y] = counterLock[y]
  BY <1>1, FileSolicitudFacts
<1>4. ThreadsServeOne'
  BY <1>1, <1>2, <1>3, ThreadStep
<1>5. FolioInv'
  <2>1. \A y \in Years :
          counterLock'[y] = counterLock[y] \/ counterLock[y] \in {r, NoRequest}
    BY <1>3
  <2> QED
    BY <1>1, <1>2, <1>3, <2>1, FolioStep DEF Past, Ended
<1>6. FileInv'
  BY <1>1, <1>2, <1>3, <1>4, FileQuiet
<1> QED
  BY <1>5, <1>6 DEF IInv

\* The number announced, if any mail leaves, is the one allocated.
LEMMA NotifyCreationStep ==
  ASSUME IInv, NEW r \in Requests, NotifyCreation(r)
  PROVE  IInv'
<1>1. /\ TypeOK /\ FolioInv /\ FileInv /\ ThreadsServeOne /\ draft[r].req = r
  BY RunningFacts
<1>2. /\ pc[r] = "filed" /\ pc[r] \in Running /\ pc[r] \in Holding
      /\ UNCHANGED <<counter, counterLock, solicitudes, storage, year, draft>>
      /\ \/ UNCHANGED announced
         \/ announced' = announced \cup { <<year[r], draft[r].n, r>> }
  BY DEF NotifyCreation, NewFolio, Running, InBlock, Holding
<1>3. /\ TypeOK' /\ OthersStay(r) /\ pc'[r] = "storing" /\ thread'[r] = thread[r]
  BY <1>1, NotifyCreationFacts
<1>4. ThreadsServeOne'
  BY <1>1, <1>2, <1>3, ThreadStep DEF Running, InBlock
<1>5. counterLock[year[r]] = r /\ draft[r].n = counter[year[r]] + 1
  BY <1>1, <1>2 DEF FolioInv, HoldersAreNext
<1>6. FolioInv'
  BY <1>1, <1>2, <1>3, <1>5, FolioStep DEF Past, Ended
<1>7. FileInv'
  BY <1>1, <1>2, <1>3, <1>4, FileQuiet
<1> QED
  BY <1>6, <1>7 DEF IInv

\* An upload is stored.
LEMMA StoreUploadStep ==
  ASSUME IInv, NEW r \in Requests, StoreUpload(r)
  PROVE  IInv'
<1>1. /\ TypeOK /\ FolioInv /\ FileInv /\ draft[r].req = r
      /\ pc[r] = "storing" /\ pc[r] \in Holding /\ thread[r] \in Threads
  BY RunningFacts DEF StoreUpload, Running, InBlock, Holding
<1>2. /\ TypeOK' /\ OthersStay(r) /\ pc'[r] = "storing" /\ UNCHANGED <<thread, year>>
      /\ draft'[r].req = draft[r].req /\ draft'[r].n = draft[r].n
  BY <1>1, StoreUploadFacts
<1>3. UNCHANGED <<counter, counterLock, solicitudes, announced>>
  BY DEF StoreUpload
<1>4. /\ counterLock[year[r]] = r /\ draft[r].n = counter[year[r]] + 1
  BY <1>1 DEF FolioInv, HoldersAreNext
<1>5. FolioInv'
  BY <1>1, <1>2, <1>3, <1>4, FolioStep DEF Past, Ended
<1> QED
  BY <1>1, <1>5, FileStoreUpload DEF IInv

\* The block ends without COMMIT, or the worker is interrupted or dies.
LEMMA LossStep ==
  ASSUME IInv, NEW r \in Requests,
         RefuseUpload(r) \/ UploadBreaks(r) \/ Abort(r) \/ Interrupt(r) \/ Crash(r)
  PROVE  IInv'
<1>1. /\ TypeOK /\ FolioInv /\ FileInv /\ draft[r].req = r
      /\ pc[r] \in Running /\ thread[r] \in Threads
  BY RunningFacts DEF RefuseUpload, UploadBreaks, Abort, Interrupt, Crash, Running, InBlock
<1>2. /\ TypeOK' /\ OthersStay(r) /\ pc'[r] \in {"cleaning", "dying", "crashed", "interrupted"}
      /\ draft'[r].req = r /\ FreeLocks(r) /\ FileInv'
  <2>1. CASE RefuseUpload(r) \/ UploadBreaks(r) \/ Abort(r) \/ Interrupt(r)
    BY <1>1, <2>1, RollBackFacts, FileRollBack
  <2>2. CASE Crash(r)
    BY <1>1, <2>2, CrashFacts, FileCrash
  <2> QED
    BY <2>1, <2>2
<1>3. /\ UNCHANGED <<counter, solicitudes, announced>>
      /\ \A y \in Years : counterLock'[y] = counterLock[y] \/ counterLock[y] \in {r, NoRequest}
  BY <1>1, <1>2, FreeLocksFacts
<1>4. pc'[r] \notin Holding /\ pc'[r] \in Past
  BY <1>2 DEF Holding, Past, Ended
<1>5. FolioInv'
  BY <1>1, <1>2, <1>3, <1>4, FolioStep DEF Holding
<1> QED
  BY <1>2, <1>5 DEF IInv

\* After the COMMIT: the callbacks and the sweep.
LEMMA LateStep ==
  ASSUME IInv, NEW r \in Requests, RunHook(r) \/ Sweep(r)
  PROVE  IInv'
<1>1. /\ TypeOK /\ FolioInv /\ FileInv /\ draft[r].req = r /\ thread[r] \in Threads
  BY RunningFacts DEF RunHook, Sweep, Running
<1>2. /\ TypeOK' /\ OthersStay(r) /\ pc'[r] \in {"renaming", "cleaning"} \cup Ended
      /\ draft'[r].req = r /\ UNCHANGED intake /\ FileInv'
  <2>1. CASE RunHook(r)
    BY <1>1, <2>1, RunHookFacts, FileHooks
  <2>2. CASE Sweep(r)
    BY <1>1, <2>2, SweepFacts, FileSweep
  <2> QED
    BY <2>1, <2>2
<1>3. pc'[r] \notin Holding /\ pc'[r] \in Past
  BY <1>2 DEF Holding, Past, Ended
<1>4. FolioInv'
  BY <1>1, <1>2, <1>3, FolioStep DEF Holding
<1> QED
  BY <1>2, <1>4 DEF IInv

\* A step that changes neither requests, tables nor files.
LEMMA IdleStep ==
  ASSUME IInv, TypeOK',
         UNCHANGED <<counter, counterLock, solicitudes, announced, pc, locals, storage>>
  PROVE  IInv'
<1>1. FolioInv'
  <2>1. MailsAreOfTheDraft' /\ MailsNameTheNextFolio'
    BY DEF IInv, FolioInv, MailsAreOfTheDraft, MailsNameTheNextFolio, NewFolio
  <2> QED
    BY <2>1 DEF IInv, FolioInv, HoldersAreNext, RowsNameTheirRequest, FiledArePast,
       FoliosAreGapless
<1>2. FileInv'
  BY DEF IInv, FileInv, ThreadsServeOne, HooksAreOfTheRow, PendingIsStored,
     RenamingIsCommitted, FinalFilesHaveRows, SweepIsPrivate, HooksFindTheirPartial
<1> QED
  BY <1>1, <1>2 DEF IInv

\* Every step keeps the invariant.
LEMMA NextHolds == ASSUME IInv, [Next]_vars PROVE IInv'
<1>1. CASE Next
  <2>1. ASSUME NEW r \in Requests, Step(r) PROVE IInv'
    <3>1. CASE Commit(r)
      BY <3>1, RunningFacts, FolioCommit, FileCommit DEF IInv
    <3> QED
      BY <2>1, <3>1, EarlyStep, FileSolicitudStep, NotifyCreationStep, StoreUploadStep,
         LossStep, LateStep DEF Step
  <2>2. ASSUME NEW r \in Requests, Fault(r) PROVE IInv'
    BY <2>2, LossStep DEF Fault
  <2>3. ASSUME NEW r \in Requests, NEW t \in Threads, Open(r, t) PROVE IInv'
    BY <2>3, OpenStep
  <2>4. CASE Environment
    BY <2>4, EnvironmentFacts, IdleStep DEF IInv, FolioInv
  <2> QED
    BY <1>1, <2>1, <2>2, <2>3, <2>4 DEF Next
<1>2. CASE UNCHANGED vars
  <2>1. TypeOK'
    BY <1>2 DEF vars, IInv, FolioInv, TypeOK
  <2> QED
    BY <1>2, <2>1, IdleStep DEF vars
<1> QED
  BY <1>1, <1>2

\* The inductive invariant of Intake.
THEOREM Invariance == Spec => []IInv
BY InitHolds, NextHolds, PTL DEF Spec

\* Every variable keeps its type.
THEOREM TypeCorrect == Spec => []TypeOK
<1>1. IInv => TypeOK
  BY DEF IInv, FolioInv
<1> QED
  BY <1>1, Invariance, PTL

\* The folios of a year are 1, 2, 3, ...: the row lock of FolioRepository.allocate,
\* held to the end of the outer transaction, is enough for that whatever aborts,
\* crashes and overlaps.
THEOREM FoliosHaveNoGap == Spec => []FoliosAreGapless
<1>1. IInv => FoliosAreGapless
  BY DEF IInv, FolioInv
<1> QED
  BY <1>1, Invariance, PTL

\* A mail of notify_creation leaves before the COMMIT that may never come: still the
\* number it names is a folio of the year or the next one to be, and if its request
\* did file, it is that request's.
THEOREM MailsNamedTheNextFolio == Spec => []MailsNameTheNextFolio
<1>1. IInv => MailsNameTheNextFolio
  BY DEF IInv, FolioInv
<1> QED
  BY <1>1, Invariance, PTL

\* What can be downloaded belongs to a committed row: on_commit callbacks run after
\* a COMMIT only, and only those of the transaction that committed.
THEOREM FinalFilesAreOfRows == Spec => []FinalFilesHaveRows
<1>1. IInv => FinalFilesHaveRows
  BY DEF IInv, FileInv
<1> QED
  BY <1>1, Invariance, PTL

\* The thread-local list of LocalFileStorage is empty between two requests.
THEOREM SweepsArePrivate == Spec => []SweepIsPrivate
<1>1. IInv => SweepIsPrivate
  BY DEF IInv, FileInv
<1> QED
  BY <1>1, Invariance, PTL

\* No sweep, of this request or of another one, takes away the partial of a rename
\* that is still to come.
THEOREM RenamesFindTheirPartial == Spec => []HooksFindTheirPartial
<1>1. IInv => HooksFindTheirPartial
  BY DEF IInv, FileInv
<1> QED
  BY <1>1, Invariance, PTL

-----------------------------------------------------------------------------
(***************************************************************************)
(* Debts and renames: UploadInv, next to the invariant above.              *)
(***************************************************************************)
\* What the writes before the uploads leave of a draft.
LEMMA Untouched ==
  ASSUME NEW row \in Row, NEW b, NEW c
  PROVE  /\ [row EXCEPT !.asked = b].archivos = row.archivos
         /\ [row EXCEPT !.seen = b].archivos = row.archivos
         /\ [row EXCEPT !.seen = b].asked = row.asked
         /\ [row EXCEPT !.requierePago = b, !.pagoExento = c].archivos = row.archivos
         /\ [row EXCEPT !.requierePago = b, !.pagoExento = c].asked = row.asked
         /\ [row EXCEPT !.snapshot = b].archivos = row.archivos
         /\ [row EXCEPT !.snapshot = b].asked = row.asked
         /\ [row EXCEPT !.n = b].archivos = row.archivos
         /\ [row EXCEPT !.n = b].asked = row.asked
         /\ [row EXCEPT !.archivos = b].archivos = b
         /\ [row EXCEPT !.archivos = b].asked = row.asked
         /\ [row EXCEPT !.archivos = b].requierePago = row.requierePago
         /\ [row EXCEPT !.archivos = b].pagoExento = row.pagoExento
  BY DEF Row

\* What r writes is its draft.
LEMMA DraftIs ==
  ASSUME TypeOK, NEW r \in Requests, NEW d, draft' = [draft EXCEPT ![r] = d]
  PROVE  draft'[r] = d
  BY DEF TypeOK

\* The renames of the other requests are on other threads.
LEMMA HooksElsewhere ==
  ASSUME TypeOK, ThreadsServeOne, NEW r \in Requests, pc[r] \in Running,
         \A t \in Threads \ {thread[r]} : hooks'[t] = hooks[t]
  PROVE  \A s \in Requests \ {r} : pc[s] \in Running => hooks'[thread[s]] = hooks[thread[s]]
  BY DEF ThreadsServeOne

\* Who has not committed has no row.
LEMMA NoRowYet ==
  ASSUME UploadInv, NEW r \in Requests,
         pc[r] \notin Past
  PROVE  \A y \in Years : \A row \in solicitudes[y] : row.req # r
  BY DEF UploadInv, RenamesOf

\* What a step of r on its own thread leaves of the invariant to the others.
LEMMA OthersKeepTheirs ==
  ASSUME UploadInv, NEW r \in Requests, OthersStay(r),
         final \subseteq final', logged \subseteq logged',
         \A s \in Requests \ {r} : pc[s] \in Running => hooks'[thread[s]] = hooks[thread[s]],
         \A y \in Years : \A row \in solicitudes'[y] : row \in solicitudes[y] \/ row.req = r,
         NEW s \in Requests \ {r}
  PROVE  DebtOf(s)' /\ RenamesOf(s)'
<1>1. /\ pc'[s] = pc[s] /\ thread'[s] = thread[s] /\ todo'[s] = todo[s]
      /\ draft'[s] = draft[s]
      /\ DebtOf(s) /\ RenamesOf(s)
  BY DEF OthersStay, UploadInv
<1>2. DebtOf(s)'
  BY <1>1 DEF DebtOf, HasComprobante, Due
<1>3. pc[s] \in {"storing", "renaming"} =>
        \A x : Scheduled(thread[s], x) => \E i \in DOMAIN hooks'[thread[s]] : hooks'[thread[s]][i] = x
  BY DEF Scheduled, Running, InBlock
<1>4. \A row : Noticed(row) => \/ \A a \in row.archivos : a[1] \in final'
                               \/ \E a \in row.archivos : a[1] \in logged'
  BY DEF Noticed
<1>5. RenamesOf(s)'
  <2>1. pc'[s] = "storing" => \A a \in draft'[s].archivos : Scheduled(thread[s], a[1])'
    BY <1>1, <1>3 DEF RenamesOf, Scheduled
  <2>2. ASSUME NEW y \in Years, NEW row \in solicitudes'[y], row.req = s
        PROVE  /\ pc'[s] \in Past
               /\ pc'[s] = "renaming" =>
                    /\ row = draft'[s]
                    /\ \A a \in row.archivos : a[1] \in final' \/ Scheduled(thread[s], a[1])'
               /\ pc'[s] \in {"cleaning", "ended"} => Noticed(row)'
    <3>1. row \in solicitudes[y]
      BY <2>2
    <3>2. /\ pc[s] \in Past
          /\ pc[s] = "renaming" =>
               /\ row = draft[s]
               /\ \A a \in row.archivos : a[1] \in final \/ Scheduled(thread[s], a[1])
          /\ pc[s] \in {"cleaning", "ended"} => Noticed(row)
      BY <1>1, <2>2, <3>1 DEF RenamesOf
    <3>3. pc[s] = "renaming" =>
            \A a \in row.archivos : a[1] \in final' \/ Scheduled(thread[s], a[1])'
      BY <1>1, <1>3, <3>2 DEF Scheduled
    <3>4. pc[s] \in {"cleaning", "ended"} => Noticed(row)'
      BY <1>4, <3>2 DEF Noticed
    <3> QED
      BY <1>1, <3>2, <3>3, <3>4
  <2> QED
    BY <2>1, <2>2 DEF RenamesOf
<1> QED
  BY <1>2, <1>5

\* A step that commits nothing.
LEMMA UploadStep ==
  ASSUME UploadInv, NEW r \in Requests, OthersStay(r),
         final \subseteq final', logged \subseteq logged',
         \A s \in Requests \ {r} : pc[s] \in Running => hooks'[thread[s]] = hooks[thread[s]],
         UNCHANGED solicitudes,
         DebtOf(r)', RenamesOf(r)'
  PROVE  UploadInv'
<1>1. ComprobanteMatchesDebt'
  BY DEF UploadInv, ComprobanteMatchesDebt, HasComprobante, Due
<1>2. ASSUME NEW s \in Requests \ {r} PROVE DebtOf(s)' /\ RenamesOf(s)'
  BY OthersKeepTheirs
<1> QED
  BY <1>1, <1>2 DEF UploadInv

\* A step before the uploads.
LEMMA UploadEarly ==
  ASSUME UploadInv, NEW r \in Requests, OthersStay(r), UNCHANGED <<solicitudes, storage>>,
         pc[r] \notin Past,
         pc'[r] # "idle",
         pc'[r] \in {"previewing", "valid"} \cup InBlock /\ draft'[r].asked =>
           \E i \in DOMAIN todo'[r] : todo'[r][i] = "comprobante",
         pc'[r] \in {"opened", "previewing", "valid"} \cup InBlock => draft'[r].archivos = {}
  PROVE  UploadInv'
<1>1. \A y \in Years : \A row \in solicitudes'[y] : row.req # r
  BY NoRowYet
<1>2. DebtOf(r)'
  BY DEF DebtOf, HasComprobante, InBlock
<1>3. RenamesOf(r)'
  BY <1>1 DEF RenamesOf, InBlock
<1> QED
  BY <1>2, <1>3, UploadStep

\* What the steps before the uploads have in common.
LEMMA EarlyFacts ==
  ASSUME UploadInv, NEW r \in Requests
  PROVE  /\ pc[r] \in ({"idle", "opened", "previewing", "valid"} \cup InBlock) \ {"storing"} =>
              draft[r].archivos = {}
         /\ pc[r] \in ({"previewing", "valid"} \cup InBlock) \ {"storing"} /\ draft[r].asked =>
              \E i \in DOMAIN todo[r] : todo[r][i] = "comprobante"
  BY DEF UploadInv, DebtOf, HasComprobante, InBlock

\* Open keeps the draft but for what it asks.
LEMMA UploadOpen ==
  ASSUME IInv, UploadInv, NEW r \in Requests, NEW t \in Threads, Open(r, t)
  PROVE  UploadInv'
<1>1. TypeOK /\ OthersStay(r) /\ pc'[r] \in {"opened", "ended"}
  BY OpenFacts DEF IInv, FolioInv
<1>2. pc[r] = "idle" /\ UNCHANGED <<solicitudes, storage>>
  BY DEF Open
<1>3. draft[r].archivos = {}
  BY <1>2, EarlyFacts
<1>4. draft'[r].archivos = draft[r].archivos
  <2>1. CASE tipo.activo /\ tipo.admits
    <3>1. PICK b : draft' = [draft EXCEPT ![r] = [draft[r] EXCEPT !.asked = b]]
      BY <2>1 DEF Open
    <3>2. draft'[r] = [draft[r] EXCEPT !.asked = b]
      BY <1>1, <3>1, DraftIs
    <3> QED
      BY <1>1, <3>2, RowType, Untouched
  <2>2. CASE ~(tipo.activo /\ tipo.admits)
    BY <2>2 DEF Open
  <2> QED
    BY <2>1, <2>2
<1> QED
  BY <1>1, <1>2, <1>3, <1>4, UploadEarly DEF Past, Ended, InBlock

\* The form has what it asked for.
LEMMA UploadValidate ==
  ASSUME IInv, UploadInv, NEW r \in Requests, ValidateForm(r)
  PROVE  UploadInv'
<1>1. TypeOK /\ OthersStay(r) /\ pc'[r] \in {"valid", "previewing", "ended"}
  BY ValidateFormFacts, RunningFacts
<1>2. pc[r] = "opened" /\ UNCHANGED <<solicitudes, storage>>
  BY DEF ValidateForm
<1>3. draft[r].archivos = {}
  BY <1>2, EarlyFacts
<1>4. pc'[r] # "ended" => /\ draft'[r].archivos = {}
                          /\ draft'[r].asked => \E i \in DOMAIN todo'[r] : todo'[r][i] = "comprobante"
  <2>1. CASE End(r, "ended")
    BY <1>1, <2>1, PcUpdate DEF End, Ended
  <2>2. CASE ~End(r, "ended")
    <3>1. PICK files \in UploadSets :
            /\ draft[r].asked => \E i \in DOMAIN files : files[i] = "comprobante"
            /\ todo' = [todo EXCEPT ![r] = files]
      BY <2>2 DEF ValidateForm
    <3>2. draft' = [draft EXCEPT ![r].seen = tipo.campos]
      BY <2>2 DEF ValidateForm
    <3>3. draft'[r] = [draft[r] EXCEPT !.seen = tipo.campos]
      BY <1>1, <3>2, DraftIs
    <3>4. draft'[r].archivos = draft[r].archivos /\ draft'[r].asked = draft[r].asked
      BY <1>1, <3>3, RowType, Untouched
    <3>5. todo'[r] = files
      BY <1>1, <3>1 DEF TypeOK
    <3> QED
      BY <1>3, <3>1, <3>4, <3>5
  <2> QED
    BY <2>1, <2>2
<1> QED
  BY <1>1, <1>2, <1>4, UploadEarly DEF Past, Ended, InBlock

\* The preview goes on with what the form has, or ends.
LEMMA UploadPreview ==
  ASSUME IInv, UploadInv, NEW r \in Requests, Preview(r)
  PROVE  UploadInv'
<1>1. TypeOK /\ OthersStay(r) /\ pc'[r] \in {"valid", "ended"} /\ pc[r] = "previewing"
  BY PreviewFacts, RunningFacts DEF Preview
<1>2. UNCHANGED <<solicitudes, storage>> /\ (pc'[r] = "valid" => UNCHANGED locals)
  <2>1. CASE UNCHANGED locals
    BY <2>1 DEF Preview
  <2>2. CASE End(r, "ended")
    BY <1>1, <2>2, PcUpdate DEF Preview, End, Ended
  <2> QED
    BY <2>1, <2>2 DEF Preview
<1> QED
  BY <1>1, <1>2, EarlyFacts, UploadEarly DEF Past, Ended, InBlock

\* The reads of the tipo write neither what was asked nor the archivos.
LEMMA UploadReads ==
  ASSUME IInv, UploadInv, NEW r \in Requests,
         ReadTipo(r) \/ ReadSnapshot(r) \/ Resolve(r) \/ FileSolicitud(r) \/ NotifyCreation(r)
  PROVE  UploadInv'
<1>1. /\ TypeOK /\ OthersStay(r)
      /\ pc'[r] \in InBlock \cup {"cleaning"}
      /\ pc[r] \in {"valid", "priced", "snapped", "answered", "ready", "filed"}
  BY ReadTipoFacts, ReadSnapshotFacts, ResolveFacts, FileSolicitudFacts, NotifyCreationFacts,
     RunningFacts DEF ReadTipo, ReadSnapshot, FileSolicitud, NotifyCreation, InBlock
<1>2. UNCHANGED <<solicitudes, storage, todo>>
  BY DEF ReadTipo, ReadSnapshot, Resolve, FileSolicitud, NotifyCreation
<1>3. draft'[r].archivos = draft[r].archivos /\ draft'[r].asked = draft[r].asked
  <2>1. CASE UNCHANGED draft
    BY <2>1
  <2>2. CASE ReadTipo(r) /\ ~UNCHANGED draft
    <3>1. PICK b, c : draft' = [draft EXCEPT ![r] = [draft[r] EXCEPT !.requierePago = b, !.pagoExento = c]]
      BY <2>2 DEF ReadTipo
    <3>2. draft'[r] = [draft[r] EXCEPT !.requierePago = b, !.pagoExento = c]
      BY <1>1, <3>1, DraftIs
    <3> QED
      BY <1>1, <3>2, RowType, Untouched
  <2>3. CASE ReadSnapshot(r) /\ ~UNCHANGED draft
    <3>1. PICK b : draft' = [draft EXCEPT ![r] = [draft[r] EXCEPT !.snapshot = b]]
      BY <2>3 DEF ReadSnapshot
    <3>2. draft'[r] = [draft[r] EXCEPT !.snapshot = b]
      BY <1>1, <3>1, DraftIs
    <3> QED
      BY <1>1, <3>2, RowType, Untouched
  <2>4. CASE FileSolicitud(r)
    <3>1. PICK b : draft' = [draft EXCEPT ![r] = [draft[r] EXCEPT !.n = b]]
      BY <2>4 DEF FileSolicitud
    <3>2. draft'[r] = [draft[r] EXCEPT !.n = b]
      BY <1>1, <3>1, DraftIs
    <3> QED
      BY <1>1, <3>2, RowType, Untouched
  <2>5. CASE Resolve(r) \/ NotifyCreation(r)
    BY <2>5 DEF Resolve, NotifyCreation
  <2> QED
    BY <2>1, <2>2, <2>3, <2>4, <2>5
<1>4. pc[r] \notin Past /\ pc'[r] # "idle"
  BY <1>1 DEF Past, Ended, InBlock
<1>5. draft[r].archivos = {} /\ (draft[r].asked => \E i \in DOMAIN todo[r] : todo[r][i] = "comprobante")
  BY <1>1, EarlyFacts DEF InBlock
<1> QED
  BY <1>1, <1>2, <1>3, <1>4, <1>5, UploadEarly

\* An upload adds its archivo, whose rename is scheduled last.
LEMMA UploadStore ==
  ASSUME IInv, UploadInv, NEW r \in Requests, StoreUpload(r)
  PROVE  UploadInv'
<1>1. TypeOK /\ ThreadsServeOne /\ pc[r] = "storing" /\ pc[r] \in Running /\ thread[r] \in Threads
  BY RunningFacts DEF StoreUpload, Running, InBlock
<1>2. OthersStay(r) /\ pc'[r] = "storing" /\ thread' = thread /\ solicitudes' = solicitudes
      /\ draft'[r].archivos = draft[r].archivos \cup { <<NextFile(r), NextKind(r)>> }
      /\ NextFile(r) \in Files
  BY <1>1, StoreUploadFacts DEF StoreUpload
<1>3. /\ draft'[r].asked = draft[r].asked
      /\ draft'[r].requierePago = draft[r].requierePago
      /\ draft'[r].pagoExento = draft[r].pagoExento
  <2>1. PICK b : draft' = [draft EXCEPT ![r] = [draft[r] EXCEPT !.archivos = b]]
    BY DEF StoreUpload
  <2>2. draft'[r] = [draft[r] EXCEPT !.archivos = b]
    BY <1>1, <2>1, DraftIs
  <2> QED
    BY <1>1, <2>2, RowType, Untouched
<1>4. /\ todo[r] \in Seq(Kinds) /\ todo[r] # <<>> /\ todo'[r] = Tail(todo[r])
      /\ NextKind(r) = todo[r][1] /\ Allowed(r)
  BY <1>1 DEF StoreUpload, TypeOK, NextKind
<1>5. /\ hooks[thread[r]] \in Seq(Files)
      /\ hooks' = [hooks EXCEPT ![thread[r]] = Append(hooks[thread[r]], NextFile(r))]
      /\ UNCHANGED <<final, logged>>
  BY <1>1 DEF StoreUpload, Save, TypeOK
<1>6. hooks'[thread[r]] = Append(hooks[thread[r]], NextFile(r))
      /\ \A t \in Threads \ {thread[r]} : hooks'[t] = hooks[t]
  BY <1>1, <1>5 DEF TypeOK
<1>7. DebtOf(r) /\ RenamesOf(r)
  BY DEF UploadInv
<1>8. DebtOf(r)'
  <2>1. HasComprobante(draft[r])' <=> HasComprobante(draft[r]) \/ NextKind(r) = "comprobante"
    <3>1. PICK new : new = <<NextFile(r), NextKind(r)>>
      OBVIOUS
    <3>2. new[2] = NextKind(r) /\ draft'[r].archivos = draft[r].archivos \cup {new}
      BY <1>2, <3>1
    <3>3. (\E a \in draft'[r].archivos : a[2] = "comprobante") <=>
            (\E a \in draft[r].archivos : a[2] = "comprobante") \/ new[2] = "comprobante"
      BY <3>2
    <3> QED
      BY <3>2, <3>3 DEF HasComprobante
  <2>2. Due(draft[r])' = Due(draft[r])
    BY <1>3 DEF Due
  <2>3. (\E i \in DOMAIN todo[r] : todo[r][i] = "comprobante") =>
          \/ NextKind(r) = "comprobante"
          \/ \E i \in DOMAIN todo'[r] : todo'[r][i] = "comprobante"
    <3>1. ASSUME NEW i \in DOMAIN todo[r], i # 1
          PROVE  i - 1 \in DOMAIN todo'[r] /\ todo'[r][i - 1] = todo[r][i]
      BY <1>4, <3>1
    <3> QED
      BY <1>4, <3>1
  <2>4. draft'[r].asked => HasComprobante(draft[r])' \/ \E i \in DOMAIN todo'[r] : todo'[r][i] = "comprobante"
    BY <1>1, <1>3, <1>7, <2>1, <2>3 DEF DebtOf, InBlock
  <2>5. HasComprobante(draft[r])' => Due(draft[r])'
    BY <1>1, <1>4, <1>7, <2>1, <2>2 DEF DebtOf, Allowed
  <2> QED
    BY <1>2, <2>4, <2>5 DEF DebtOf
<1>9. RenamesOf(r)'
  <2>1. \A x : Scheduled(thread[r], x) => \E i \in DOMAIN hooks'[thread[r]] : hooks'[thread[r]][i] = x
    <3>1. ASSUME NEW i \in DOMAIN hooks[thread[r]]
          PROVE  i \in DOMAIN hooks'[thread[r]] /\ hooks'[thread[r]][i] = hooks[thread[r]][i]
      BY <1>2, <1>5, <1>6
    <3> QED
      BY <3>1 DEF Scheduled
  <2>2. \E i \in DOMAIN hooks'[thread[r]] : hooks'[thread[r]][i] = NextFile(r)
    <3>1. Len(hooks[thread[r]]) + 1 \in DOMAIN hooks'[thread[r]]
      BY <1>2, <1>5, <1>6
    <3>2. hooks'[thread[r]][Len(hooks[thread[r]]) + 1] = NextFile(r)
      BY <1>2, <1>5, <1>6
    <3> QED
      BY <3>1, <3>2
  <2>3. \A a \in draft'[r].archivos : \E i \in DOMAIN hooks'[thread[r]] : hooks'[thread[r]][i] = a[1]
    BY <1>1, <1>2, <1>7, <2>1, <2>2 DEF RenamesOf
  <2>4. \A y \in Years : \A row \in solicitudes'[y] : row.req # r
    BY <1>1, <1>2, NoRowYet DEF Past, Ended
  <2> QED
    BY <1>2, <2>3, <2>4 DEF RenamesOf, Scheduled
<1>10. \A s \in Requests \ {r} : pc[s] \in Running => hooks'[thread[s]] = hooks[thread[s]]
  BY <1>1, <1>6, HooksElsewhere
<1> QED
  BY <1>2, <1>5, <1>8, <1>9, <1>10, UploadStep

\* What is undone, interrupted or killed before its COMMIT has no row; what is so after
\* it owes nothing to anybody.
LEMMA UploadLoss ==
  ASSUME IInv, UploadInv, NEW r \in Requests,
         RefuseUpload(r) \/ UploadBreaks(r) \/ Abort(r) \/ Interrupt(r) \/ Crash(r)
  PROVE  UploadInv'
<1>1. TypeOK /\ ThreadsServeOne /\ pc[r] \in Running /\ thread[r] \in Threads
  BY RunningFacts DEF RefuseUpload, UploadBreaks, Abort, Interrupt, Crash, Running, InBlock
<1>2. /\ OthersStay(r) /\ UNCHANGED <<final, solicitudes>>
      /\ hooks' = [hooks EXCEPT ![thread[r]] = <<>>]
  BY <1>1, RollBackFacts, CrashFacts, FreeLocksFacts
<1>3. logged \subseteq logged'
  BY DEF RefuseUpload, UploadBreaks, Abort, Interrupt, CutOff, Crash, RollBack, DropHooks,
     SaveBreaks, RenameIsCut, ForgetThread, CutCleanup
<1>4. \/ pc'[r] \in {"crashed", "interrupted", "dying"}
      \/ pc'[r] = "cleaning" /\ pc[r] \in InBlock
  <2>1. CASE RefuseUpload(r) \/ UploadBreaks(r) \/ Abort(r)
    BY <1>1, <2>1, RollBackFacts DEF RefuseUpload, UploadBreaks, Abort, InBlock
  <2>2. CASE Interrupt(r)
    BY <1>1, <2>2, PcUpdate DEF Interrupt, Running
  <2>3. CASE Crash(r)
    BY <1>1, <2>3, CrashFacts
  <2> QED
    BY <2>1, <2>2, <2>3
<1>5. \A s \in Requests \ {r} : pc[s] \in Running => hooks'[thread[s]] = hooks[thread[s]]
  BY <1>1, <1>2, HooksElsewhere DEF TypeOK
<1>6. DebtOf(r)'
  BY <1>4 DEF DebtOf, InBlock
<1>7. RenamesOf(r)'
  <2>1. CASE pc'[r] \in {"crashed", "interrupted", "dying"}
    BY <2>1 DEF RenamesOf, Past, Ended
  <2>2. CASE pc'[r] = "cleaning" /\ pc[r] \in InBlock
    <3>1. \A y \in Years : \A row \in solicitudes'[y] : row.req # r
      BY <1>2, <2>2, NoRowYet DEF InBlock, Past, Ended
    <3> QED
      BY <2>2, <3>1 DEF RenamesOf
  <2> QED
    BY <1>4, <2>1, <2>2
<1> QED
  BY <1>2, <1>3, <1>5, <1>6, <1>7, UploadStep

\* The COMMIT publishes a row whose debt is met and whose renames are all to come.
LEMMA UploadCommit ==
  ASSUME IInv, UploadInv, NEW r \in Requests, Commit(r)
  PROVE  UploadInv'
<1>1. TypeOK /\ ThreadsServeOne /\ draft[r].req = r /\ todo[r] = <<>>
  BY RunningFacts DEF Commit, AtCommit
<1>2. /\ OthersStay(r) /\ pc'[r] = "renaming" /\ pc[r] = "storing"
      /\ UNCHANGED <<thread, todo, draft, storage>>
      /\ year[r] \in Years
      /\ solicitudes'[year[r]] = solicitudes[year[r]] \cup {draft[r]}
      /\ \A y \in Years \ {year[r]} : solicitudes'[y] = solicitudes[y]
  BY <1>1, CommitFacts DEF Commit
<1>3. \A y \in Years : \A row \in solicitudes'[y] :
        row \in solicitudes[y] \/ row = draft[r]
  BY <1>2
<1>4. DebtOf(r) /\ RenamesOf(r) /\ ComprobanteMatchesDebt
  BY DEF UploadInv
<1>5. /\ HasComprobante(draft[r]) => Due(draft[r])
      /\ draft[r].asked => HasComprobante(draft[r])
  BY <1>1, <1>2, <1>4 DEF DebtOf, InBlock
<1>6. ComprobanteMatchesDebt'
  <2>1. ASSUME NEW y \in Years, NEW row \in solicitudes'[y]
        PROVE  /\ HasComprobante(row) => Due(row)
               /\ row.asked /\ Due(row) => HasComprobante(row)
    BY <1>3, <1>4, <1>5 DEF ComprobanteMatchesDebt
  <2> QED
    BY <2>1 DEF ComprobanteMatchesDebt, HasComprobante, Due
<1>7. DebtOf(r)'
  BY <1>2 DEF DebtOf, InBlock
<1>8. RenamesOf(r)'
  <2>1. \A y \in Years : \A row \in solicitudes'[y] : row.req = r => row = draft[r]
    BY <1>2, <1>3, NoRowYet DEF Past, Ended
  <2>2. \A a \in draft[r].archivos : Scheduled(thread[r], a[1])
    BY <1>2, <1>4 DEF RenamesOf
  <2>3. \A a \in draft[r].archivos : Scheduled(thread[r], a[1])'
    BY <1>2, <2>2 DEF Scheduled
  <2> QED
    BY <1>2, <2>1, <2>3 DEF RenamesOf, Past
<1>9. ASSUME NEW s \in Requests \ {r} PROVE DebtOf(s)' /\ RenamesOf(s)'
  <2>1. \A y \in Years : \A row \in solicitudes'[y] : row \in solicitudes[y] \/ row.req = r
    BY <1>1, <1>3
  <2> QED
    BY <1>2, <2>1, OthersKeepTheirs
<1> QED
  BY <1>6, <1>7, <1>8, <1>9 DEF UploadInv

\* A rename that works puts its file in place; one that fails is logged, and it is
\* of the row that was committed.
LEMMA UploadHook ==
  ASSUME IInv, UploadInv, NEW r \in Requests, RunHook(r)
  PROVE  UploadInv'
<1> DEFINE t == thread[r]
<1>1. /\ TypeOK /\ FileInv /\ ThreadsServeOne /\ pc[r] \in Running /\ pc[r] = "renaming"
      /\ t \in Threads /\ hooks[t] \in Seq(Files)
  BY RunningFacts DEF RunHook, Running, TypeOK
<1>2. OthersStay(r) /\ pc'[r] \in {"renaming", "cleaning"} /\ UNCHANGED <<solicitudes, locals>>
  BY <1>1, RunHookFacts
<1>3. /\ final \subseteq final' /\ logged \subseteq logged'
      /\ \A u \in Threads \ {t} : hooks'[u] = hooks[u]
  BY <1>1 DEF RunHook, Rename, RenameBreaks, TypeOK
<1>4. \A s \in Requests \ {r} : pc[s] \in Running => hooks'[thread[s]] = hooks[thread[s]]
  BY <1>1, <1>3, HooksElsewhere
<1>5. DebtOf(r)'
  BY <1>2 DEF DebtOf, InBlock
<1>6. ASSUME NEW y \in Years, NEW row \in solicitudes[y], row.req = r
      PROVE  /\ row = draft[r]
             /\ pc'[r] = "renaming" => \A a \in row.archivos : a[1] \in final' \/ Scheduled(t, a[1])'
             /\ pc'[r] = "cleaning" => \/ \A a \in row.archivos : a[1] \in final'
                                       \/ \E a \in row.archivos : a[1] \in logged'
  <2>1. /\ row = draft[r]
        /\ \A a \in row.archivos : a[1] \in final \/ Scheduled(t, a[1])
    BY <1>1, <1>6 DEF UploadInv, RenamesOf
  <2>2. CASE Rename(t) /\ UNCHANGED pc
    <3>1. hooks[t] # <<>> /\ hooks'[t] = Tail(hooks[t]) /\ final' = final \cup {hooks[t][1]}
      BY <1>1, <2>2 DEF Rename, TypeOK
    <3>2. ASSUME NEW x, Scheduled(t, x), x # hooks[t][1]
          PROVE  Scheduled(t, x)'
      <4>1. PICK i \in DOMAIN hooks[t] : hooks[t][i] = x
        BY <3>2 DEF Scheduled
      <4>2. i - 1 \in DOMAIN Tail(hooks[t]) /\ Tail(hooks[t])[i - 1] = x
        BY <1>1, <3>1, <3>2, <4>1, SMTT(20)
      <4>3. t' = t
        BY <1>2
      <4> QED
        BY <3>1, <4>2, <4>3 DEF Scheduled
    <3> QED
      BY <1>1, <2>1, <2>2, <3>1, <3>2
  <2>3. CASE RenameBreaks(t) /\ Goto(r, "cleaning")
    <3>1. 1 \in DOMAIN hooks[t] /\ hooks[t][1] \in logged'
      BY <1>1, <2>3 DEF RenameBreaks
    <3>2. pc[hooks[t][1][1]] \in Running /\ thread[hooks[t][1][1]] = t /\ hooks[t][1][1] \in Requests
      BY <1>1, <3>1, HookFacts
    <3>3. hooks[t][1][1] = r
      BY <1>1, <3>2, OneOnThread
    <3>4. \E a \in draft[r].archivos : a[1] = hooks[t][1]
      BY <1>1, <3>1, <3>3 DEF FileInv, HooksAreOfTheRow
    <3>5. pc'[r] = "cleaning"
      BY <1>1, <2>3, PcUpdate DEF Running
    <3> QED
      BY <2>1, <3>1, <3>4, <3>5
  <2>4. CASE hooks[t] = <<>> /\ Goto(r, "cleaning") /\ UNCHANGED storage
    <3>1. pc'[r] = "cleaning"
      BY <1>1, <2>4, PcUpdate DEF Running
    <3> QED
      BY <2>1, <2>4, <3>1 DEF Scheduled
  <2> QED
    BY <2>2, <2>3, <2>4 DEF RunHook
<1>7. RenamesOf(r)'
  <2>1. draft' = draft /\ thread' = thread
    BY <1>2
  <2>2. ASSUME NEW y \in Years, NEW row \in solicitudes'[y], row.req = r
        PROVE  /\ pc'[r] \in Past
               /\ pc'[r] = "renaming" =>
                    /\ row = draft'[r]
                    /\ \A a \in row.archivos : a[1] \in final' \/ Scheduled(t, a[1])'
               /\ pc'[r] \in {"cleaning", "ended"} => Noticed(row)'
    BY <1>2, <1>6, <2>1, <2>2 DEF Noticed, Past
  <2> QED
    BY <1>2, <2>2 DEF RenamesOf
<1> QED
  BY <1>2, <1>3, <1>4, <1>5, <1>7, UploadStep

\* The sweep takes away no file that is in place and no line of the log.
LEMMA UploadSweep ==
  ASSUME IInv, UploadInv, NEW r \in Requests, Sweep(r)
  PROVE  UploadInv'
<1>1. TypeOK /\ thread[r] \in Threads
  BY RunningFacts DEF Sweep, Running
<1>2. OthersStay(r) /\ pc'[r] \in Ended /\ UNCHANGED solicitudes
  BY <1>1, SweepFacts
<1>3. pc'[r] = "ended" => pc[r] = "cleaning"
  BY <1>1, PcUpdate DEF Sweep, End, Ended
<1>4. UNCHANGED <<final, hooks>> /\ logged \subseteq logged'
  BY DEF Sweep, CleanupPending
<1>5. DebtOf(r)'
  BY <1>2 DEF DebtOf, Ended, InBlock
<1>6. RenamesOf(r)'
  <2>1. pc'[r] = "ended" => \A y \in Years : \A row \in solicitudes'[y] : row.req = r => Noticed(row)
    BY <1>2, <1>3 DEF UploadInv, RenamesOf
  <2>2. pc'[r] = "ended" => \A y \in Years : \A row \in solicitudes'[y] : row.req = r => Noticed(row)'
    BY <1>4, <2>1 DEF Noticed
  <2> QED
    BY <1>2, <2>2 DEF RenamesOf, Past, Ended
<1> QED
  BY <1>2, <1>4, <1>5, <1>6, UploadStep

\* Steps that leave requests and files alone.
LEMMA UploadIdle ==
  ASSUME UploadInv, UNCHANGED <<solicitudes, pc, locals, storage>>
  PROVE  UploadInv'
  BY DEF UploadInv, ComprobanteMatchesDebt, DebtOf, RenamesOf, Noticed, Scheduled,
     HasComprobante, Due

LEMMA UploadInit == Init => UploadInv
  BY DEF Init, UploadInv, ComprobanteMatchesDebt, DebtOf, RenamesOf, HasComprobante, EmptyRow

LEMMA UploadNext == ASSUME IInv, UploadInv, [Next]_vars PROVE UploadInv'
<1>1. ASSUME NEW r \in Requests, Step(r) PROVE UploadInv'
  BY <1>1, UploadValidate, UploadPreview, UploadReads, UploadStore, UploadLoss, UploadCommit, UploadHook,
     UploadSweep DEF Step
<1>2. ASSUME NEW r \in Requests, Fault(r) PROVE UploadInv'
  BY <1>2, UploadLoss DEF Fault
<1>3. ASSUME NEW r \in Requests, NEW t \in Threads, Open(r, t) PROVE UploadInv'
  BY <1>3, UploadOpen
<1>4. CASE Environment
  BY <1>4, UploadIdle DEF Environment, BeginEdit, EndEdit, Deactivate, NewYear
<1>5. CASE UNCHANGED vars
  BY <1>5, UploadIdle DEF vars
<1> QED
  BY <1>1, <1>2, <1>3, <1>4, <1>5 DEF Next

THEOREM UploadInvariance == Spec => []UploadInv
  BY Invariance, UploadInit, UploadNext, PTL DEF Spec

\* A comprobante is stored only where one is due, and where the form asked for it
\* one is stored whenever it is due, whatever the tipo becomes in between.
THEOREM ComprobantesMatchDebts == Spec => []ComprobanteMatchesDebt
<1>1. UploadInv => ComprobanteMatchesDebt
  BY DEF UploadInv
<1> QED
  BY <1>1, UploadInvariance, PTL

\* No committed solicitud of a request that ended alive lacks a file in silence.
THEOREM MissingFilesWereNoticed == Spec => []MissingFilesAreNoticed
<1>1. TypeOK /\ UploadInv => MissingFilesAreNoticed
  <2> SUFFICES ASSUME TypeOK, UploadInv, NEW y \in Years, NEW row \in solicitudes[y],
                      pc[row.req] = "ended"
               PROVE  Noticed(row)
    BY DEF MissingFilesAreNoticed
  <2>1. row.req \in Requests
    BY DEF TypeOK, Row
  <2> QED
    BY <2>1 DEF UploadInv, RenamesOf
<1> QED
  BY <1>1, TypeCorrect, UploadInvariance, PTL

-----------------------------------------------------------------------------
(***************************************************************************)
(* Waiting for the counter row and for User rows: LocksAreHeld and         *)
(* RowsAreHeld, next to the ones above.                                    *)
(***************************************************************************)
\* A step of r leaves each counter row with its holder, frees it, or gives it to r.
LEMMA LockStep ==
  ASSUME TypeOK, LocksAreHeld, NEW r \in Requests, OthersStay(r),
         \A y \in Years :
           \/ counterLock'[y] = NoRequest
           \/ counterLock'[y] = counterLock[y] /\ counterLock[y] # r
           \/ counterLock'[y] = r /\ pc'[r] \in Holding /\ year'[r] = y
  PROVE  LocksAreHeld'
<1> SUFFICES ASSUME NEW y \in Years, counterLock'[y] # NoRequest
             PROVE  pc'[counterLock'[y]] \in Holding /\ year'[counterLock'[y]] = y
  BY DEF LocksAreHeld
<1>1. CASE counterLock'[y] = counterLock[y] /\ counterLock[y] # r
  <2>1. PICK s \in Requests \ {r} : s = counterLock[y]
    BY <1>1 DEF TypeOK
  <2>2. pc[s] \in Holding /\ year[s] = y
    BY <1>1, <2>1 DEF LocksAreHeld
  <2> QED
    BY <1>1, <2>1, <2>2 DEF OthersStay
<1> QED
  BY <1>1

\* And each User row.
LEMMA RowStep ==
  ASSUME TypeOK, RowsAreHeld, NEW r \in Requests, OthersStay(r),
         \A u \in Users :
           \/ userLock'[u] = NoRequest
           \/ userLock'[u] = userLock[u] /\ userLock[u] # r
           \/ userLock'[u] = r /\ pc'[r] \in {"ready"} \cup Holding /\ Sender[r] = u
  PROVE  RowsAreHeld'
<1> SUFFICES ASSUME NEW u \in Users, userLock'[u] # NoRequest
             PROVE  pc'[userLock'[u]] \in {"ready"} \cup Holding /\ Sender[userLock'[u]] = u
  BY DEF RowsAreHeld
<1>1. CASE userLock'[u] = userLock[u] /\ userLock[u] # r
  <2>1. PICK s \in Requests \ {r} : s = userLock[u]
    BY <1>1 DEF TypeOK
  <2>2. pc[s] \in {"ready"} \cup Holding /\ Sender[s] = u
    BY <1>1, <2>1 DEF RowsAreHeld
  <2> QED
    BY <1>1, <2>1, <2>2 DEF OthersStay
<1> QED
  BY <1>1

\* r has no counter row before its folio, and no other User row than its sender's.
LEMMA HolderFacts ==
  ASSUME LocksAreHeld, RowsAreHeld, NEW r \in Requests
  PROVE  /\ \A y \in Years : counterLock[y] = r => pc[r] \in Holding /\ year[r] = y
         /\ \A u \in Users : userLock[u] = r =>
              pc[r] \in {"ready"} \cup Holding /\ Sender[r] = u
<1>1. r # NoRequest
  BY NoReqAssumption
<1> QED
  BY <1>1 DEF LocksAreHeld, RowsAreHeld

\* What neither takes nor frees a row.
LEMMA LocksStay ==
  ASSUME TypeOK, LocksAreHeld, RowsAreHeld, NEW r \in Requests, OthersStay(r),
         UNCHANGED <<counterLock, userLock>>,
         pc[r] \in Holding => pc'[r] \in Holding /\ year'[r] = year[r],
         pc[r] # "ready"
  PROVE  LocksAreHeld' /\ RowsAreHeld'
<1>1. ASSUME NEW y \in Years
      PROVE  \/ counterLock'[y] = counterLock[y] /\ counterLock[y] # r
             \/ counterLock'[y] = r /\ pc'[r] \in Holding /\ year'[r] = y
  BY HolderFacts
<1>2. ASSUME NEW u \in Users
      PROVE  \/ userLock'[u] = userLock[u] /\ userLock[u] # r
             \/ userLock'[u] = r /\ pc'[r] \in {"ready"} \cup Holding /\ Sender[r] = u
  BY HolderFacts
<1> QED
  BY <1>1, <1>2, LockStep, RowStep

\* The end of a transaction.
LEMMA LocksFreed ==
  ASSUME TypeOK, LocksAreHeld, RowsAreHeld, NEW r \in Requests, OthersStay(r), Unlock(r)
  PROVE  LocksAreHeld' /\ RowsAreHeld'
<1>1. \A y \in Years : \/ counterLock'[y] = NoRequest
                       \/ counterLock'[y] = counterLock[y] /\ counterLock[y] # r
  BY DEF Unlock
<1>2. \A u \in Users : \/ userLock'[u] = NoRequest
                       \/ userLock'[u] = userLock[u] /\ userLock[u] # r
  BY DEF Unlock
<1> QED
  BY <1>1, <1>2, LockStep, RowStep

LEMMA LocksNext ==
  ASSUME IInv, LocksAreHeld, RowsAreHeld, [Next]_vars
  PROVE  LocksAreHeld' /\ RowsAreHeld'
<1>1. TypeOK
  BY DEF IInv, FolioInv
<1>2. ASSUME NEW r \in Requests, NEW t \in Threads, Open(r, t)
      PROVE  LocksAreHeld' /\ RowsAreHeld'
  BY <1>1, <1>2, OpenFacts, LocksStay DEF Open, Holding
<1>3. ASSUME NEW r \in Requests, Step(r) \/ Fault(r)
      PROVE  LocksAreHeld' /\ RowsAreHeld'
  <2>1. (pc[r] \in Running => thread[r] \in Threads) /\ draft[r].req = r
    BY RunningFacts
  <2>2. CASE ValidateForm(r) \/ Preview(r) \/ ReadTipo(r) \/ ReadSnapshot(r)
    <3>1. OthersStay(r)
      BY <1>1, <2>1, <2>2, ValidateFormFacts, PreviewFacts, ReadTipoFacts, ReadSnapshotFacts
    <3>2. pc[r] \notin {"ready"} \cup Holding /\ UNCHANGED <<counterLock, userLock>>
      BY <2>2 DEF ValidateForm, Preview, ReadTipo, ReadSnapshot, Holding
    <3> QED
      BY <1>1, <3>1, <3>2, LocksStay
  <2>3. CASE Resolve(r)
    <3>1. /\ OthersStay(r) /\ UNCHANGED counterLock /\ pc'[r] = "ready"
          /\ pc[r] \notin {"ready"} \cup Holding
          /\ \/ UNCHANGED userLock
             \/ /\ userLock'[Sender[r]] = r
                /\ \A u \in Users \ {Sender[r]} : userLock'[u] = userLock[u]
      BY <1>1, <2>3, ResolveFacts DEF Holding
    <3>2. (\A y \in Years : counterLock[y] # r) /\ (\A u \in Users : userLock[u] # r)
      BY <3>1, HolderFacts
    <3>3. LocksAreHeld'
      BY <1>1, <3>1, <3>2, LockStep
    <3>4. RowsAreHeld'
      BY <1>1, <3>1, <3>2, RowStep
    <3> QED
      BY <3>3, <3>4
  <2>4. CASE FileSolicitud(r)
    <3>1. /\ OthersStay(r) /\ pc[r] = "ready" /\ pc'[r] \in Holding /\ year'[r] = year[r]
          /\ counterLock'[year[r]] = r
          /\ \A y \in Years \ {year[r]} : counterLock'[y] = counterLock[y]
          /\ UNCHANGED userLock
      BY <1>1, <2>4, FileSolicitudFacts DEF FileSolicitud, Holding
    <3>2. pc[r] \notin Holding
      BY <3>1 DEF Holding
    <3>3. LocksAreHeld'
      BY <1>1, <3>1, <3>2, HolderFacts, LockStep
    <3>4. RowsAreHeld'
      BY <1>1, <3>1, HolderFacts, RowStep
    <3> QED
      BY <3>3, <3>4
  <2>5. CASE NotifyCreation(r)
    BY <1>1, <2>5, NotifyCreationFacts, LocksStay DEF NotifyCreation, Holding
  <2>6. CASE StoreUpload(r)
    <3>1. thread[r] \in Threads /\ pc[r] = "storing"
      BY <2>1, <2>6 DEF StoreUpload, Running, InBlock
    <3>2. OthersStay(r) /\ pc'[r] = "storing" /\ UNCHANGED year
      BY <1>1, <2>6, <3>1, StoreUploadFacts
    <3>3. UNCHANGED <<counterLock, userLock>>
      BY <2>6 DEF StoreUpload
    <3> QED
      BY <1>1, <3>1, <3>2, <3>3, LocksStay DEF Holding
  <2>7. CASE RefuseUpload(r) \/ UploadBreaks(r) \/ Abort(r) \/ Interrupt(r) \/ Crash(r)
    <3>1. thread[r] \in Threads
      BY <2>1, <2>7 DEF RefuseUpload, UploadBreaks, Abort, Interrupt, Crash, Running, InBlock
    <3>2. OthersStay(r) /\ FreeLocks(r)
      BY <1>1, <2>7, <3>1, RollBackFacts, CrashFacts
    <3> QED
      BY <1>1, <3>2, LocksFreed DEF FreeLocks
  <2>8. CASE Commit(r)
    BY <1>1, <2>8, CommitFacts, LocksFreed
  <2>9. CASE RunHook(r) \/ Sweep(r)
    <3>1. thread[r] \in Threads
      BY <2>1, <2>9 DEF RunHook, Sweep, Running
    <3>2. OthersStay(r) /\ pc[r] \notin {"ready"} \cup Holding /\ UNCHANGED <<counterLock, userLock>>
      BY <1>1, <2>9, <3>1, RunHookFacts, SweepFacts DEF Holding
    <3> QED
      BY <1>1, <3>2, LocksStay
  <2> QED
    BY <1>3, <2>2, <2>3, <2>4, <2>5, <2>6, <2>7, <2>8, <2>9 DEF Step, Fault
<1>4. CASE Environment
  BY <1>1, <1>4, EnvironmentFacts DEF LocksAreHeld, RowsAreHeld
<1>5. CASE UNCHANGED vars
  BY <1>5 DEF vars, LocksAreHeld, RowsAreHeld
<1> QED
  BY <1>2, <1>3, <1>4, <1>5 DEF Next

\* Whoever has the User row that another waits for, and waits himself, waits for the
\* counter: at his COMMIT the row is his own.
LEMMA OwnersWaitReady ==
  ASSUME TypeOK, RowsAreHeld, NEW r \in Requests, NEW h \in Requests, h = RowOwner(r),
         NEW s, WaitsFor(h, s)
  PROVE  pc[h] = "ready" /\ Sender[h] = Sender[r] /\ RowOwner(h) = h
<1>1. h # NoRequest /\ Sender[r] \in Users
  BY NoReqAssumption, SenderAssumption
<1>2. pc[h] \in {"ready"} \cup Holding /\ Sender[h] = Sender[r]
  BY <1>1 DEF RowsAreHeld, RowOwner
<1>3. RowOwner(h) = h
  BY <1>2 DEF RowOwner
<1>4. pc[h] = "ready"
  BY <1>2, <1>3 DEF WaitsFor, AtCommit, Holding
<1> QED
  BY <1>2, <1>3, <1>4

\* Whom a request waits for is another that is under way, and a ring of requests that
\* wait for each other has two filings of one person in it, one with the User row
\* before the counter and one with the counter before the User row.
THEOREM OnlyCrossedFilingsDeadlock == Spec => []DeadlocksAreOfOnePerson
<1>1. ASSUME TypeOK, LocksAreHeld, RowsAreHeld, NEW r \in Requests, NEW s \in Requests,
             WaitsFor(r, s)
      PROVE  s # r /\ pc[s] \in Running
  <2>1. Sender[r] \in Users /\ year[r] \in Years /\ s # NoRequest
    BY <1>1, SenderAssumption, NoReqAssumption DEF TypeOK
  <2>2. CASE pc[r] \in {"previewing", "answered"} /\ s = RowOwner(r)
    <3>1. pc[s] \in {"ready"} \cup Holding
      BY <1>1, <2>1, <2>2 DEF RowsAreHeld, RowOwner
    <3> QED
      BY <2>2, <3>1 DEF Holding, Running, InBlock
  <2>3. CASE pc[r] = "ready" /\ s = counterLock[year[r]]
    <3>1. pc[s] \in Holding
      BY <1>1, <2>1, <2>3 DEF LocksAreHeld
    <3> QED
      BY <2>3, <3>1 DEF Holding, Running, InBlock
  <2>4. CASE AtCommit(r) /\ s = RowOwner(r) /\ s # r
    BY <1>1, <2>1, <2>4 DEF RowsAreHeld, RowOwner, Holding, Running, InBlock
  <2> QED
    BY <1>1, <2>2, <2>3, <2>4 DEF WaitsFor
<1>2. ASSUME TypeOK, LocksAreHeld, RowsAreHeld,
             NEW S \in SUBSET Requests, S # {}, \A r \in S : \E s \in S : WaitsFor(r, s)
      PROVE  \E u, v \in S : CrossedFilings(u, v)
  <2>1. ASSUME NEW r \in S, NEW h \in S, h = RowOwner(r)
        PROVE  pc[h] = "ready" /\ Sender[h] = Sender[r] /\ RowOwner(h) = h
    BY <1>2, <2>1, OwnersWaitReady
  <2>2. PICK u \in S : pc[u] = "ready"
    <3>1. PICK r \in S, s \in S : WaitsFor(r, s)
      BY <1>2
    <3> QED
      BY <2>1, <3>1 DEF WaitsFor
  <2>3. PICK v \in S : v = counterLock[year[u]]
    BY <1>2, <2>2 DEF WaitsFor, AtCommit
  <2>4. pc[v] \in Holding /\ year[v] = year[u] /\ counterLock[year[v]] = v
    BY <1>2, <2>3, NoReqAssumption DEF LocksAreHeld, TypeOK
  <2>5. AtCommit(v) /\ \E w \in S : w = RowOwner(v) /\ w # v
    BY <1>2, <2>4 DEF WaitsFor, Holding
  <2>6. PICK w \in S : w = RowOwner(v) /\ w # v
    BY <2>5
  <2>7. pc[w] = "ready" /\ Sender[w] = Sender[v] /\ RowOwner(w) = w
    BY <2>1, <2>6
  <2>8. counterLock[year[w]] # NoRequest
    BY <1>2, <2>7, NoReqAssumption DEF WaitsFor, AtCommit
  <2> QED
    BY <2>4, <2>5, <2>6, <2>7, <2>8 DEF CrossedFilings
<1>3. TypeOK /\ LocksAreHeld /\ RowsAreHeld => DeadlocksAreOfOnePerson
  BY <1>1, <1>2 DEF DeadlocksAreOfOnePerson
<1>4. Init => LocksAreHeld /\ RowsAreHeld
  BY DEF Init, LocksAreHeld, RowsAreHeld
<1>5. IInv => TypeOK
  BY DEF IInv, FolioInv
<1> QED
  BY <1>3, <1>4, <1>5, LocksNext, Invariance, PTL DEF Spec

-----------------------------------------------------------------------------
(***************************************************************************)
(* The promise of the storage: NameInv, next to the invariants above, and  *)
(* each step as a step of Archivos.                                        *)
(***************************************************************************)
\* The rows of all years, and what they name.
LEMMA FiledRows ==
  ASSUME NEW row
  PROVE  row \in Filed <=> \E y \in Years : row \in solicitudes[y]
  BY DEF Filed

LEMMA NamedFiles ==
  ASSUME NEW B
  PROVE  B \in Named <=> \E row \in Filed : B = FilesOf(row)
  BY DEF Named

\* A file of a row has a name that the request of the row drew.
LEMMA NamesOfRows ==
  ASSUME NameInv, NEW row \in Filed, NEW x \in FilesOf(row)
  PROVE  x[1] = row.req
  BY FiledRows DEF NameInv, NamesAreOwn, FilesOf

\* A name drawn while storing is nobody else's, and not yet that of a row.
LEMMA FreshName ==
  ASSUME IInv, UploadInv, NameInv, NEW r \in Requests, pc[r] = "storing", NEW k \in Nat
  PROVE  (\A B \in Named : <<r, k>> \notin B) /\ <<r, k>> \notin final
<1>1. ASSUME NEW B \in Named, <<r, k>> \in B PROVE FALSE
  <2>1. PICK row \in Filed : B = FilesOf(row)
    BY NamedFiles
  <2>2. <<r, k>>[1] = row.req
    BY <1>1, <2>1, NamesOfRows
  <2> QED
    BY <2>2, FiledRows, NoRowYet DEF Past, Ended
<1>2. ASSUME <<r, k>> \in final PROVE FALSE
  <2>1. PICK row \in Filed : \E a \in row.archivos : a[1] = <<r, k>>
    BY <1>2, FiledRows DEF IInv, FileInv, FinalFilesHaveRows
  <2>2. FilesOf(row) \in Named
    BY NamedFiles
  <2>3. <<r, k>> \in FilesOf(row)
    BY <2>1 DEF FilesOf
  <2> QED
    BY <1>1, <2>2, <2>3
<1> QED
  BY <1>1, <1>2

\* A step of r that commits nothing.
LEMMA NameStep ==
  ASSUME NameInv, NEW r \in Requests, OthersStay(r), UNCHANGED solicitudes,
         pc'[r] = "storing" => \A a \in draft'[r].archivos : a[1][1] = r,
         partial' \cap final' = {}
  PROVE  NameInv'
  BY DEF NameInv, NamesAreOwn, OthersStay

\* What leaves the rows and the files alone is nothing to the storage.
LEMMA StoreIdle ==
  ASSUME UNCHANGED <<Named, CutFiles, partial, final, logged>>
  PROVE  UNCHANGED Store!Vars
  BY DEF Store!Vars

\* What an interrupt has cut stays so unless r has a row and is interrupted now.
LEMMA CutStays ==
  ASSUME TypeOK, UploadInv, NEW r \in Requests, OthersStay(r), UNCHANGED solicitudes,
         \/ pc[r] \notin Past
         \/ pc[r] \in {"dying", "interrupted"} <=> pc'[r] \in {"dying", "interrupted"}
  PROVE  UNCHANGED <<Named, CutFiles>>
<1>1. Filed' = Filed
  BY DEF Filed
<1>2. ASSUME NEW row \in Filed
      PROVE  pc[row.req] \in {"dying", "interrupted"} <=> pc'[row.req] \in {"dying", "interrupted"}
  <2>1. row.req \in Requests
    BY FiledRows DEF TypeOK, Row
  <2>2. pc[r] \notin Past => row.req # r
    BY FiledRows, NoRowYet
  <2> QED
    BY <2>1, <2>2 DEF OthersStay
<1>3. Interrupted' = Interrupted
  BY <1>1, <1>2 DEF Interrupted
<1>4. Named' = Named
  BY <1>1 DEF Named, FilesOf
<1>5. CutFiles' = CutFiles
  BY <1>3 DEF CutFiles, FilesOf
<1> QED
  BY <1>4, <1>5

\* What a step of the code is to the storage.
StoreStep == Store!Next \/ UNCHANGED Store!Vars

\* The steps that touch neither row nor file.
LEMMA StoreQuiet ==
  ASSUME IInv, UploadInv, NameInv, NEW r \in Requests,
         \/ ValidateForm(r) \/ Preview(r) \/ ReadTipo(r) \/ ReadSnapshot(r) \/ Resolve(r)
         \/ FileSolicitud(r) \/ NotifyCreation(r) \/ RefuseUpload(r) \/ Abort(r)
         \/ Interrupt(r) /\ pc[r] \in InBlock /\ UNCHANGED partial
         \/ Crash(r) /\ pc[r] \notin {"cleaning", "dying"}
         \/ \E t \in Threads : Open(r, t)
  PROVE  NameInv' /\ StoreStep
<1>1. TypeOK /\ draft[r].req = r /\ (pc[r] \in Running => thread[r] \in Threads)
  BY RunningFacts
<1> DEFINE early == \/ ValidateForm(r) \/ Preview(r) \/ ReadTipo(r) \/ ReadSnapshot(r)
                    \/ Resolve(r) \/ FileSolicitud(r) \/ NotifyCreation(r)
           loss  == \/ RefuseUpload(r) \/ Abort(r)
                    \/ Interrupt(r) /\ pc[r] \in InBlock /\ UNCHANGED partial
                    \/ Crash(r) /\ pc[r] \notin {"cleaning", "dying"}
<1>2. /\ OthersStay(r) /\ UNCHANGED <<solicitudes, partial, final, logged>>
      /\ (pc[r] \notin Past \/ (pc[r] = "renaming" /\ pc'[r] = "crashed"))
  <2>1. CASE early
    <3>1. OthersStay(r) /\ UNCHANGED <<solicitudes, partial, final, logged>>
      BY <1>1, <2>1, ValidateFormFacts, PreviewFacts, ReadTipoFacts, ReadSnapshotFacts,
         ResolveFacts, FileSolicitudFacts, NotifyCreationFacts
         DEF ValidateForm, Preview, ReadTipo, ReadSnapshot, Resolve, FileSolicitud, NotifyCreation
    <3>2. pc[r] \notin Past
      <4>1. pc[r] \in {"opened", "previewing", "valid", "priced", "snapped", "answered", "ready",
                       "filed"}
        BY <2>1 DEF ValidateForm, Preview, ReadTipo, ReadSnapshot, Resolve, FileSolicitud,
           NotifyCreation
      <4> QED
        BY <4>1 DEF Past, Ended
    <3> QED
      BY <3>1, <3>2
  <2>2. CASE loss
    <3>1. thread[r] \in Threads
      BY <1>1, <2>2 DEF RefuseUpload, Abort, Crash, Running, InBlock
    <3>2. OthersStay(r) /\ UNCHANGED <<solicitudes, final>>
      BY <1>1, <2>2, <3>1, RollBackFacts, CrashFacts, FreeLocksFacts
    <3>3. UNCHANGED <<partial, logged>>
      BY <2>2 DEF RefuseUpload, Abort, Interrupt, CutOff, Crash, RollBack, DropHooks, SaveBreaks,
         RenameIsCut, ForgetThread
    <3>4. pc[r] \in InBlock \/ (Crash(r) /\ pc[r] \notin {"cleaning", "dying"})
      BY <2>2 DEF RefuseUpload, Abort, InBlock
    <3>5. Crash(r) /\ pc[r] \notin {"cleaning", "dying"} => pc'[r] = "crashed"
      BY <1>1, PcUpdate DEF Crash, End, Ended
    <3>6. pc[r] \notin Past \/ (pc[r] = "renaming" /\ pc'[r] = "crashed")
      BY <3>4, <3>5 DEF Crash, Running, InBlock, Past, Ended
    <3> QED
      BY <3>2, <3>3, <3>6
  <2>3. CASE \E t \in Threads : Open(r, t)
    BY <1>1, <2>3, OpenFacts DEF Open, Past, Ended
  <2> QED
    BY <2>1, <2>2, <2>3
<1>3. pc'[r] = "storing" => draft'[r].archivos = {}
  <2>1. CASE NotifyCreation(r)
    BY <2>1, EarlyFacts DEF NotifyCreation, InBlock
  <2>2. CASE ~NotifyCreation(r)
    <3>1. CASE early
      BY <1>1, <2>2, <3>1, ValidateFormFacts, PreviewFacts, ReadTipoFacts, ReadSnapshotFacts,
         ResolveFacts, FileSolicitudFacts
    <3>2. CASE loss
      <4>1. thread[r] \in Threads
        BY <1>1, <3>2 DEF RefuseUpload, Abort, Crash, Running, InBlock
      <4> QED
        BY <1>1, <3>2, <4>1, RollBackFacts, CrashFacts
    <3>3. CASE \E t \in Threads : Open(r, t)
      BY <1>1, <3>3, OpenFacts
    <3> QED
      BY <3>1, <3>2, <3>3
  <2> QED
    BY <2>1, <2>2
<1>4. NameInv'
  BY <1>2, <1>3, NameStep DEF NameInv
<1>5. UNCHANGED <<Named, CutFiles>>
  BY <1>1, <1>2, CutStays
<1> QED
  BY <1>2, <1>4, <1>5, StoreIdle DEF StoreStep

\* An interrupt between the COMMIT and the last rename cuts the row of r, and no other.
LEMMA StoreCut ==
  ASSUME IInv, UploadInv, NameInv, NEW r \in Requests, Interrupt(r), pc[r] = "renaming"
  PROVE  NameInv' /\ StoreStep
<1> DEFINE B == FilesOf(draft[r])
<1>1. TypeOK /\ FileInv /\ thread[r] \in Threads
  BY RunningFacts DEF Running
<1>2. /\ OthersStay(r) /\ UNCHANGED <<solicitudes, partial, final, logged>>
      /\ pc'[r] = "dying"
  <2>1. OthersStay(r) /\ UNCHANGED solicitudes
    BY <1>1, RollBackFacts, FreeLocksFacts
  <2>2. UNCHANGED <<partial, final, logged>>
    BY DEF Interrupt, CutOff, DropHooks, RenameIsCut
  <2>3. pc'[r] = "dying"
    BY <1>1, PcUpdate DEF Interrupt, Running
  <2> QED
    BY <2>1, <2>2, <2>3
<1>3. draft[r] \in Filed
  BY <1>1, FiledRows DEF FileInv, RenamingIsCommitted, TypeOK
<1>4. \A row \in Filed : row.req \in Requests /\ (row.req = r => row = draft[r])
  BY <1>1, FiledRows DEF UploadInv, RenamesOf, TypeOK, Row
<1>5. draft[r].req = r
  BY RunningFacts
<1>6. Filed' = Filed
  BY <1>2 DEF Filed
<1>7. Interrupted' = Interrupted \cup {draft[r]}
  <2>1. ASSUME NEW row \in Filed
        PROVE  pc'[row.req] \in {"dying", "interrupted"} <=>
                 pc[row.req] \in {"dying", "interrupted"} \/ row = draft[r]
    BY <1>2, <1>4, <1>5 DEF OthersStay
  <2> QED
    BY <1>3, <1>6, <2>1 DEF Interrupted
<1>8. CutFiles' = CutFiles \cup B /\ Named' = Named
  <2>1. CutFiles' = UNION { FilesOf(row) : row \in Interrupted' }
    BY DEF CutFiles, FilesOf
  <2>2. Named' = { FilesOf(row) : row \in Filed' }
    BY DEF Named, FilesOf
  <2> QED
    BY <1>6, <1>7, <2>1, <2>2 DEF CutFiles, Named
<1>9. B \in Named
  BY <1>3, NamedFiles
<1>10. Store!Cut(B)
  BY <1>2, <1>8, <1>9 DEF Store!Cut
<1>11. NameInv'
  BY <1>2, NameStep DEF NameInv
<1> QED
  BY <1>9, <1>10, <1>11 DEF StoreStep, Store!Next

\* The bytes of an upload, whole or in part, get a name of their own.
LEMMA StoreWrite ==
  ASSUME IInv, UploadInv, NameInv, NEW r \in Requests,
         \/ StoreUpload(r) \/ UploadBreaks(r)
         \/ Interrupt(r) /\ pc[r] \in InBlock /\ ~UNCHANGED partial
  PROVE  NameInv' /\ StoreStep
<1> DEFINE x == NextFile(r)
<1>1. /\ TypeOK /\ pc[r] = "storing" /\ thread[r] \in Threads
      /\ Len(todo[r]) \in Nat /\ x = <<r, Len(todo[r])>>
  BY RunningFacts DEF StoreUpload, UploadBreaks, Interrupt, CutOff, DropHooks, RenameIsCut, Running,
     InBlock, TypeOK, NextFile
<1>2. /\ OthersStay(r) /\ UNCHANGED <<solicitudes, final, logged>>
      /\ partial' \in {partial, partial \cup {x}}
  <2>1. CASE StoreUpload(r)
    BY <1>1, <2>1, StoreUploadFacts DEF StoreUpload, Save
  <2>2. CASE UploadBreaks(r)
    BY <1>1, <2>2, RollBackFacts, FreeLocksFacts DEF UploadBreaks, SaveBreaks
  <2>3. CASE Interrupt(r) /\ ~UNCHANGED partial
    BY <1>1, <2>3, RollBackFacts, FreeLocksFacts
       DEF Interrupt, CutOff, DropHooks, SaveBreaks, RenameIsCut
  <2> QED
    BY <2>1, <2>2, <2>3
<1>3. (\A B \in Named : x \notin B) /\ x \notin final
  BY <1>1, FreshName
<1>4. pc'[r] = "storing" => \A a \in draft'[r].archivos : a[1][1] = r
  <2>1. CASE StoreUpload(r)
    <3>1. draft'[r].archivos = draft[r].archivos \cup { <<x, NextKind(r)>> }
      BY <1>1, <2>1, StoreUploadFacts
    <3>2. <<x, NextKind(r)>>[1][1] = r
      BY <1>1
    <3> QED
      BY <1>1, <3>1, <3>2 DEF NameInv, NamesAreOwn
  <2>2. CASE UploadBreaks(r) \/ Interrupt(r)
    BY <1>1, <2>2, RollBackFacts
  <2> QED
    BY <2>1, <2>2
<1>5. NameInv'
  BY <1>2, <1>3, <1>4, NameStep DEF NameInv
<1>6. StoreStep
  <2> USE <1>1, <1>2, CutStays DEF Past, Ended
  <2>1. CASE partial' = partial
    BY <2>1, StoreIdle DEF StoreStep
  <2>2. CASE partial' # partial
    <3>1. x \notin partial /\ x \in partial' /\ partial' = partial \cup {x}
      BY <1>2, <2>2
    <3>2. UNCHANGED <<Named, CutFiles>>
      OBVIOUS
    <3>3. Store!Write(x)
      BY <1>2, <1>3, <3>1, <3>2 DEF Store!Write
    <3> QED
      BY <3>1, <3>3 DEF StoreStep, Store!Next
  <2> QED
    BY <2>1, <2>2
<1> QED
  BY <1>5, <1>6

\* The COMMIT makes a row of files that are all written, and nobody else's.
LEMMA StoreCommit ==
  ASSUME IInv, UploadInv, NameInv, NEW r \in Requests, Commit(r)
  PROVE  NameInv' /\ StoreStep
<1> DEFINE B == FilesOf(draft[r])
<1>1. /\ TypeOK /\ FileInv /\ draft[r].req = r /\ pc[r] = "storing" /\ thread[r] \in Threads
  BY RunningFacts DEF Commit, AtCommit, Running, InBlock
<1>2. /\ OthersStay(r) /\ pc'[r] = "renaming" /\ UNCHANGED <<draft, storage>>
      /\ year[r] \in Years
      /\ solicitudes'[year[r]] = solicitudes[year[r]] \cup {draft[r]}
      /\ \A y \in Years \ {year[r]} : solicitudes'[y] = solicitudes[y]
  BY <1>1, CommitFacts DEF Commit
<1>3. \A a \in draft[r].archivos : a[1][1] = r
  BY <1>1 DEF NameInv, NamesAreOwn
<1>4. NameInv'
  <2>1. \A y \in Years : \A row \in solicitudes'[y] : \A a \in row.archivos : a[1][1] = row.req
    BY <1>1, <1>2, <1>3 DEF NameInv, NamesAreOwn
  <2>2. \A s \in Requests : pc'[s] = "storing" => \A a \in draft'[s].archivos : a[1][1] = s
    BY <1>2 DEF NameInv, NamesAreOwn, OthersStay
  <2> QED
    BY <1>2, <2>1, <2>2 DEF NameInv, NamesAreOwn
<1>5. B \subseteq partial
  <2>1. \A a \in draft[r].archivos : Scheduled(thread[r], a[1])
    BY <1>1 DEF UploadInv, RenamesOf
  <2>2. \A i \in DOMAIN hooks[thread[r]] : hooks[thread[r]][i] \in partial
    BY <1>1, HookFacts
  <2> QED
    BY <2>1, <2>2 DEF FilesOf, Scheduled
<1>6. ASSUME NEW C \in Named PROVE B \cap C = {}
  <2>1. PICK row \in Filed : C = FilesOf(row)
    BY NamedFiles
  <2>2. row.req # r
    BY <1>1, FiledRows, NoRowYet DEF Past, Ended
  <2>3. \A x \in C : x[1] = row.req
    BY <2>1, NamesOfRows
  <2> QED
    BY <1>3, <2>2, <2>3 DEF FilesOf
<1>7. Named' = Named \cup {B}
  <2>1. \A row : row \in Filed' <=> row \in Filed \/ row = draft[r]
    BY <1>2 DEF Filed
  <2>2. Filed' = Filed \cup {draft[r]}
    BY <2>1
  <2>3. Named' = { FilesOf(row) : row \in Filed' }
    BY DEF Named, FilesOf
  <2> QED
    BY <2>2, <2>3 DEF Named
<1>8. CutFiles' = CutFiles
  <2>1. \A row : row \in Filed' <=> row \in Filed \/ row = draft[r]
    BY <1>2 DEF Filed
  <2>2. \A row \in Filed : row.req \in Requests /\ row.req # r
    <3>1. pc[r] \notin Past
      BY <1>1 DEF Past, Ended
    <3>2. \A y \in Years : \A row \in solicitudes[y] : row.req # r
      BY <3>1, NoRowYet
    <3>3. \A y \in Years : \A row \in solicitudes[y] : row.req \in Requests
      BY <1>1 DEF TypeOK, Row
    <3> QED
      BY <3>2, <3>3, FiledRows
  <2>3. Interrupted' = Interrupted
    BY <1>1, <1>2, <2>1, <2>2 DEF Interrupted, OthersStay
  <2> QED
    BY <2>3 DEF CutFiles, FilesOf
<1>9. Store!Commit(B)
  BY <1>2, <1>5, <1>6, <1>7, <1>8 DEF Store!Commit
<1> QED
  BY <1>4, <1>7, <1>9 DEF StoreStep, Store!Next

\* A callback makes a file of its committed row durable, or logs it.
LEMMA StoreHook ==
  ASSUME IInv, UploadInv, NameInv, NEW r \in Requests, RunHook(r)
  PROVE  NameInv' /\ StoreStep
<1> DEFINE t == thread[r]
           x == hooks[t][1]
<1>1. /\ TypeOK /\ FileInv /\ ThreadsServeOne /\ pc[r] \in Running /\ pc[r] = "renaming"
      /\ t \in Threads /\ hooks[t] \in Seq(Files)
  BY RunningFacts DEF RunHook, Running, TypeOK
<1>2. OthersStay(r) /\ pc'[r] \in {"renaming", "cleaning"} /\ UNCHANGED <<solicitudes, locals>>
  BY <1>1, RunHookFacts
<1>3. UNCHANGED <<Named, CutFiles>>
  BY <1>1, <1>2, CutStays
<1>4. hooks[t] # <<>> => x \in partial /\ Store!Committed(x)
  <2> SUFFICES ASSUME hooks[t] # <<>> PROVE x \in partial /\ Store!Committed(x)
    OBVIOUS
  <2>1. 1 \in DOMAIN hooks[t]
    BY <1>1
  <2>2. x \in partial /\ pc[x[1]] \in Running /\ thread[x[1]] = t /\ x[1] \in Requests
    BY <1>1, <2>1, HookFacts
  <2>3. x[1] = r
    BY <1>1, <2>2, OneOnThread
  <2>4. \E a \in draft[r].archivos : a[1] = x
    BY <1>1, <2>1, <2>3 DEF FileInv, HooksAreOfTheRow
  <2>5. draft[r] \in solicitudes[year[r]] /\ year[r] \in Years
    BY <1>1 DEF FileInv, RenamingIsCommitted, TypeOK
  <2>6. FilesOf(draft[r]) \in Named
    BY <2>5, FiledRows, NamedFiles
  <2> QED
    BY <2>2, <2>4, <2>6 DEF Store!Committed, FilesOf
<1>5. CASE Rename(t)
  <2>1. /\ hooks[t] # <<>> /\ partial' = partial \ {x} /\ final' = final \cup {x}
        /\ UNCHANGED logged
    BY <1>1, <1>5 DEF Rename
  <2>2. Store!Rename(x)
    BY <1>3, <1>4, <2>1 DEF Store!Rename
  <2>3. NameInv'
    BY <1>2, <2>1, NameStep DEF NameInv, NamesAreOwn
  <2> QED
    BY <1>4, <2>1, <2>2, <2>3 DEF StoreStep, Store!Next
<1>6. CASE RenameBreaks(t)
  <2>1. hooks[t] # <<>> /\ logged' = logged \cup {x} /\ UNCHANGED <<partial, final>>
    BY <1>1, <1>6 DEF RenameBreaks
  <2>2. Store!Log(x)
    BY <1>3, <1>4, <2>1 DEF Store!Log
  <2>3. NameInv'
    BY <1>2, <2>1, NameStep DEF NameInv, NamesAreOwn
  <2> QED
    BY <1>4, <2>1, <2>2, <2>3 DEF StoreStep, Store!Next
<1>7. CASE UNCHANGED storage
  BY <1>2, <1>3, <1>7, NameStep, StoreIdle DEF NameInv, NamesAreOwn, StoreStep
<1> QED
  BY <1>5, <1>6, <1>7 DEF RunHook

\* What a sweep takes, whole or cut short, is of its own request: of a row only after a
\* line in the log, or when that request was interrupted.
LEMMA StoreSweep ==
  ASSUME IInv, UploadInv, NameInv, NEW r \in Requests, pc[r] \in {"cleaning", "dying"},
         Sweep(r) \/ Crash(r)
  PROVE  NameInv' /\ StoreStep
<1> DEFINE t == thread[r]
<1>1. /\ TypeOK /\ FileInv /\ ThreadsServeOne /\ pc[r] \in Running /\ t \in Threads
  BY RunningFacts DEF Running
<1>2. /\ OthersStay(r) /\ UNCHANGED solicitudes /\ pc'[r] # "storing"
      /\ pc[r] = "dying" <=> pc'[r] \in {"dying", "interrupted"}
  <2>1. OthersStay(r) /\ UNCHANGED solicitudes /\ pc'[r] \in Ended
    BY <1>1, SweepFacts, CrashFacts, FreeLocksFacts DEF Ended
  <2>2. pc[r] = "dying" <=> pc'[r] \in {"dying", "interrupted"}
    BY <1>1, PcUpdate DEF Sweep, Crash, End, Ended
  <2> QED
    BY <2>1, <2>2 DEF Ended
<1>3. PICK left \in SUBSET (pending[t] \cap partial), named \in SUBSET (pending[t] \cap partial) :
        partial' = (partial \ pending[t]) \cup left /\ logged' = logged \cup named
  BY DEF Sweep, Crash, CleanupPending, CutCleanup
<1> DEFINE gone == (pending[t] \cap partial) \ left
<1>4. UNCHANGED final
  BY DEF Sweep, Crash, CleanupPending, CutCleanup
<1>5. partial' = partial \ gone /\ gone \in SUBSET partial /\ named \in SUBSET partial
  BY <1>3
<1>6. ASSUME NEW B \in Named, B \cap gone # {} PROVE B \cap logged # {} \/ B \subseteq CutFiles
  <2>1. PICK x : x \in B /\ x \in gone
    BY <1>6
  <2>2. x \in partial /\ pc[x[1]] \in Running /\ thread[x[1]] = t /\ x[1] \in Requests
    BY <1>1, <2>1, PendingFacts
  <2>3. x[1] = r
    BY <1>1, <2>2, OneOnThread
  <2>4. PICK row \in Filed : B = FilesOf(row)
    BY NamedFiles
  <2>5. row.req = r
    BY <2>1, <2>3, <2>4, NamesOfRows
  <2>6. CASE pc[r] = "cleaning"
    <3>1. Noticed(row)
      BY <2>4, <2>5, <2>6, FiledRows DEF UploadInv, RenamesOf
    <3>2. x \notin final
      BY <2>2 DEF NameInv
    <3> QED
      BY <2>1, <2>4, <3>1, <3>2 DEF Noticed, FilesOf
  <2>7. CASE pc[r] = "dying"
    BY <2>4, <2>5, <2>7 DEF CutFiles, Interrupted
  <2> QED
    BY <2>6, <2>7
<1>7. NameInv'
  BY <1>2, <1>4, <1>5, NameStep DEF NameInv
<1>8. UNCHANGED <<Named, CutFiles>>
  BY <1>1, <1>2, CutStays
<1>9. Store!Cleanup(gone, named)
  BY <1>3, <1>4, <1>5, <1>6, <1>8 DEF Store!Cleanup
<1> QED
  BY <1>5, <1>7, <1>9 DEF StoreStep, Store!Next

LEMMA StoreNext ==
  ASSUME IInv, UploadInv, NameInv, [Next]_vars
  PROVE  NameInv' /\ StoreStep
<1>1. ASSUME NEW r \in Requests, Step(r) PROVE NameInv' /\ StoreStep
  BY <1>1, StoreQuiet, StoreWrite, StoreCommit, StoreHook, StoreSweep DEF Step, Sweep
<1>2. ASSUME NEW r \in Requests, Fault(r) PROVE NameInv' /\ StoreStep
  BY <1>2, StoreQuiet, StoreWrite, StoreCut, StoreSweep DEF Fault, Interrupt
<1>3. ASSUME NEW r \in Requests, NEW t \in Threads, Open(r, t) PROVE NameInv' /\ StoreStep
  BY <1>3, StoreQuiet
<1>4. CASE Environment
  <2>1. UNCHANGED <<solicitudes, pc, locals, storage>>
    BY <1>4 DEF Environment, BeginEdit, EndEdit, Deactivate, NewYear
  <2>2. UNCHANGED <<Named, CutFiles>>
    BY <2>1 DEF Named, CutFiles, Interrupted, Filed, FilesOf
  <2> QED
    BY <2>1, <2>2, StoreIdle DEF NameInv, NamesAreOwn, StoreStep
<1>5. CASE UNCHANGED vars
  <2>1. UNCHANGED <<Named, CutFiles>>
    BY <1>5 DEF vars, Named, CutFiles, Interrupted, Filed, FilesOf
  <2> QED
    BY <1>5, <2>1, StoreIdle DEF vars, NameInv, NamesAreOwn, StoreStep
<1> QED
  BY <1>1, <1>2, <1>3, <1>4, <1>5 DEF Next

LEMMA StoreInit == Init => NameInv /\ Store!Start
<1> SUFFICES ASSUME Init PROVE NameInv /\ Store!Start
  OBVIOUS
<1>1. NameInv
  BY DEF Init, StorageInit, NameInv, NamesAreOwn
<1>2. \A B : B \notin Named
  BY NamedFiles, FiledRows DEF Init
<1>3. Named = {} /\ CutFiles = {}
  BY <1>2, NamedFiles DEF CutFiles, Interrupted
<1> QED
  BY <1>1, <1>3 DEF Init, StorageInit, Store!Start

\* Filing keeps the promise of the storage: whatever is aborted, interrupted by the
\* timeout of the server, killed, refused by the disk or swept, each step writes,
\* commits, renames, logs, cuts off or discards files as Archivos allows, or is nothing
\* to it.
THEOREM KeepsTheArchivos == Spec => ImplementsArchivos
<1>1. StoreStep => [Store!Next]_Store!Vars
  BY DEF StoreStep
<1>2. Spec => [](IInv /\ UploadInv /\ NameInv)
  BY Invariance, UploadInvariance, StoreInit, StoreNext, PTL DEF Spec
<1> QED
  BY <1>1, <1>2, StoreInit, StoreNext, PTL DEF Spec, ImplementsArchivos, Store!Contract

\* What the promise is good for, by itself: a row that is committed keeps the bytes
\* of all its files, or the log names one of them, or its writer was interrupted.
LEMMA ArchivosKeepBytes == ASSUME BytesAreKept, StoreStep PROVE BytesAreKept'
<1> USE DEF BytesAreKept, Store!BytesAreKept
<1>1. CASE UNCHANGED Store!Vars
  BY <1>1 DEF Store!Vars
<1>2. ASSUME NEW x, Store!Write(x) PROVE BytesAreKept'
  BY <1>2 DEF Store!Write
<1>3. ASSUME NEW B, Store!Commit(B) PROVE BytesAreKept'
  BY <1>3 DEF Store!Commit
<1>4. ASSUME NEW x, Store!Rename(x) PROVE BytesAreKept'
  BY <1>4 DEF Store!Rename, Store!Committed
<1>5. ASSUME NEW x, Store!Log(x) PROVE BytesAreKept'
  BY <1>5 DEF Store!Log
<1>6. ASSUME NEW gone, NEW stuck, Store!Cleanup(gone, stuck) PROVE BytesAreKept'
  BY <1>6 DEF Store!Cleanup
<1>7. ASSUME NEW B, Store!Cut(B) PROVE BytesAreKept'
  BY <1>7 DEF Store!Cut
<1> QED
  BY <1>1, <1>2, <1>3, <1>4, <1>5, <1>6, <1>7 DEF StoreStep, Store!Next

\* A durable file has a committed row, and a committed row has all its files on disk
\* unless the log names one or the timeout of the server interrupted its request after
\* the COMMIT: at every moment, also of requests that were killed outright.
THEOREM BytesOfRowsAreKept == Spec => []BytesAreKept
<1>1. Store!Start => BytesAreKept
  BY DEF BytesAreKept, Store!BytesAreKept, Store!Start
<1>2. Spec => [](IInv /\ UploadInv /\ NameInv)
  BY Invariance, UploadInvariance, StoreInit, StoreNext, PTL DEF Spec
<1> QED
  BY <1>1, <1>2, StoreInit, StoreNext, ArchivosKeepBytes, PTL DEF Spec
-----------------------------------------------------------------------------
(***************************************************************************)
(* Requests run out of steps.                                              *)
(***************************************************************************)
\* A step of a request leaves the others where they are.
LEMMA OthersStandStill ==
  ASSUME TypeOK, ThreadsServeOne, NEW r \in Requests, OthersStay(r),
         \/ UNCHANGED hooks
         \/ pc[r] \in Running /\ \A t \in Threads \ {thread[r]} : hooks'[t] = hooks[t]
  PROVE  \A s \in Requests \ {r} : StandsStill(s)
<1>1. \A s \in Requests \ {r} : pc[s] = "renaming" => hooks'[thread[s]] = hooks[thread[s]]
  BY HooksElsewhere DEF Running
<1> QED
  BY <1>1 DEF OthersStay, StandsStill, Left

\* What changes the stage goes on to a later one.
LEMMA StageStep ==
  ASSUME IInv, NEW r \in Requests,
         \/ ValidateForm(r) \/ Preview(r) \/ ReadTipo(r) \/ ReadSnapshot(r) \/ Resolve(r)
         \/ FileSolicitud(r) \/ NotifyCreation(r) \/ RefuseUpload(r) \/ Commit(r) \/ Sweep(r)
         \/ UploadBreaks(r) \/ Abort(r) \/ Interrupt(r) \/ Crash(r)
         \/ \E t \in Threads : Open(r, t)
  PROVE  /\ Further(r)
         /\ \A s \in Requests \ {r} : StandsStill(s)
<1>1. /\ TypeOK /\ ThreadsServeOne /\ draft[r].req = r
      /\ (pc[r] \in Running => thread[r] \in Threads)
  BY RunningFacts
<1>2. CASE \/ ValidateForm(r) \/ Preview(r) \/ ReadTipo(r) \/ ReadSnapshot(r) \/ Resolve(r)
           \/ FileSolicitud(r) \/ NotifyCreation(r)
           \/ \E t \in Threads : Open(r, t)
  <2>1. OthersStay(r) /\ UNCHANGED hooks
    BY <1>1, <1>2, ValidateFormFacts, PreviewFacts, ReadTipoFacts, ReadSnapshotFacts,
       ResolveFacts, FileSolicitudFacts, NotifyCreationFacts, OpenFacts
       DEF ValidateForm, Preview, ReadTipo, ReadSnapshot, Resolve, FileSolicitud, NotifyCreation, Open
  <2>2. Distance(pc'[r]) < Distance(pc[r])
    <3>1. CASE ValidateForm(r)
      BY <1>1, <3>1, ValidateFormFacts DEF ValidateForm, Distance
    <3>2. CASE ReadTipo(r)
      <4>1. pc[r] = "valid" /\ pc'[r] \in {"priced", "cleaning"}
        BY <1>1, <3>2, ReadTipoFacts DEF ReadTipo
      <4> QED
        BY <4>1 DEF Distance
    <3>3. CASE ReadSnapshot(r)
      <4>1. pc[r] = "priced" /\ pc'[r] \in {"snapped", "answered", "cleaning"}
        BY <1>1, <3>3, ReadSnapshotFacts DEF ReadSnapshot
      <4> QED
        BY <4>1 DEF Distance
    <3>4. CASE FileSolicitud(r)
      <4>1. pc[r] = "ready" /\ pc'[r] = "filed"
        BY <1>1, <3>4, FileSolicitudFacts DEF FileSolicitud
      <4> QED
        BY <4>1 DEF Distance
    <3>5. CASE NotifyCreation(r)
      BY <1>1, <3>5, NotifyCreationFacts DEF NotifyCreation, Distance
    <3>6. CASE \E t \in Threads : Open(r, t)
      BY <1>1, <3>6, OpenFacts DEF Open, Distance
    <3>7. CASE Preview(r)
      <4>1. pc[r] = "previewing" /\ pc'[r] \in {"valid", "ended"}
        BY <1>1, <3>7, PreviewFacts DEF Preview
      <4> QED
        BY <4>1 DEF Distance
    <3>8. CASE Resolve(r)
      <4>1. pc[r] \in {"snapped", "answered"} /\ pc'[r] = "ready"
        BY <1>1, <3>8, ResolveFacts
      <4> QED
        BY <4>1 DEF Distance
    <3> QED
      BY <1>2, <3>1, <3>2, <3>3, <3>4, <3>5, <3>6, <3>7, <3>8
  <2> QED
    BY <1>1, <2>1, <2>2, OthersStandStill DEF Further
<1>3. CASE RefuseUpload(r) \/ UploadBreaks(r) \/ Abort(r) \/ Interrupt(r) \/ Crash(r)
  <2>1. pc[r] \in Running /\ (pc[r] \in InBlock \cup {"renaming"} \/ Crash(r))
    BY <1>3 DEF RefuseUpload, UploadBreaks, Abort, Interrupt, Crash, Running, InBlock
  <2>2. OthersStay(r) /\ hooks' = [hooks EXCEPT ![thread[r]] = <<>>]
    BY <1>1, <1>3, <2>1, RollBackFacts, CrashFacts
  <2>3. \/ pc'[r] \in {"crashed", "interrupted"}
        \/ pc'[r] \in {"cleaning", "dying"} /\ pc[r] \in InBlock \cup {"renaming"}
    BY <1>1, <1>3, <2>1, RollBackFacts, CrashFacts
  <2>4. \A t \in Threads \ {thread[r]} : hooks'[t] = hooks[t]
    BY <1>1, <2>2 DEF TypeOK
  <2>5. Distance(pc'[r]) < Distance(pc[r])
    BY <2>1, <2>3 DEF Distance, Running, InBlock
  <2> QED
    BY <1>1, <2>1, <2>2, <2>4, <2>5, OthersStandStill DEF Further
<1>4. CASE Commit(r) \/ Sweep(r)
  <2>1. pc[r] \in Running
    BY <1>4 DEF Commit, AtCommit, Sweep, Running, InBlock
  <2>2. OthersStay(r) /\ UNCHANGED hooks
    BY <1>1, <1>4, <2>1, CommitFacts, SweepFacts DEF Commit, Sweep, CleanupPending
  <2>3. \/ pc[r] = "storing" /\ pc'[r] = "renaming"
        \/ pc[r] \in {"cleaning", "dying"} /\ pc'[r] \in Ended
    BY <1>1, <1>4, <2>1, CommitFacts, SweepFacts
  <2>4. Distance(pc'[r]) < Distance(pc[r])
    BY <2>3 DEF Distance, Ended
  <2> QED
    BY <1>1, <2>2, <2>4, OthersStandStill DEF Further
<1> QED
  BY <1>2, <1>3, <1>4

\* What does not has one upload, or one rename, less to do.
LEMMA WorkStep ==
  ASSUME IInv, NEW r \in Requests, StoreUpload(r) \/ RunHook(r)
  PROVE  /\ Further(r)
         /\ \A s \in Requests \ {r} : StandsStill(s)
<1> DEFINE t == thread[r]
<1>1. /\ TypeOK /\ ThreadsServeOne /\ pc[r] \in Running /\ t \in Threads
      /\ hooks[t] \in Seq(Files)
  BY RunningFacts DEF StoreUpload, RunHook, Running, InBlock, TypeOK
<1>2. OthersStay(r)
  BY <1>1, StoreUploadFacts, RunHookFacts
<1>3. \A u \in Threads \ {t} : hooks'[u] = hooks[u]
  BY <1>1 DEF StoreUpload, Save, RunHook, Rename, RenameBreaks, TypeOK
<1>4. Further(r)
  <2>1. CASE StoreUpload(r)
    BY <1>1, <2>1, StoreUploadFacts DEF Further, Left
  <2>2. CASE RunHook(r) /\ Rename(t)
    <3>1. /\ pc[r] = "renaming" /\ UNCHANGED <<pc, thread>>
          /\ hooks[t] # <<>> /\ hooks'[t] = Tail(hooks[t])
      BY <1>1, <2>2 DEF RunHook, Rename, RenameBreaks, TypeOK
    <3>2. Len(Tail(hooks[t])) < Len(hooks[t])
      BY <1>1, <3>1
    <3> QED
      BY <3>1, <3>2 DEF Further, Left
  <2>3. CASE RunHook(r) /\ ~Rename(t)
    BY <1>1, <2>3 DEF RunHook, Goto, TypeOK, Further, Distance
  <2> QED
    BY <2>1, <2>2, <2>3
<1> QED
  BY <1>1, <1>2, <1>3, <1>4, OthersStandStill

\* A filing takes finitely many steps, whatever happens meanwhile: each brings it
\* nearer to its end, and none, a fault included, throws anybody back.
THEOREM StepsOfFilingsRunOut == Spec => StepsRunOut
<1> DEFINE P == \A r \in Requests :
                  /\ Further(r) \/ StandsStill(r)
                  /\ Step(r) => Further(r)
<1>1. ASSUME IInv, NEW r \in Requests, Step(r)
      PROVE  Further(r) /\ \A s \in Requests \ {r} : StandsStill(s)
  BY <1>1, StageStep, WorkStep DEF Step
<1>2. ASSUME IInv, [Next]_vars, NEW r \in Requests
      PROVE  Further(r) \/ StandsStill(r)
  <2>1. CASE \E s \in Requests : Step(s)
    BY <1>1, <1>2, <2>1
  <2>2. CASE \E s \in Requests : Fault(s) \/ \E t \in Threads : Open(s, t)
    BY <1>2, <2>2, StageStep DEF Fault
  <2>3. CASE Environment \/ UNCHANGED vars
    BY <2>3 DEF Environment, BeginEdit, EndEdit, Deactivate, NewYear, vars, StandsStill, Left
  <2> QED
    BY <1>2, <2>1, <2>2, <2>3 DEF Next
<1>3. IInv /\ [Next]_vars => [P]_vars
  BY <1>1, <1>2
<1> QED
  BY <1>3, Invariance, PTL DEF Spec, StepsRunOut
=============================================================================
