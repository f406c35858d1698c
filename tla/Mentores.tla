------------------------------ MODULE Mentores ------------------------------
(***************************************************************************)
(* The catalogue of mentores: one row per period, opened by an alta or a   *)
(* CSV import and closed by a baja, one at a time or in bulk.              *)
(*                                                                         *)
(* Nothing serialises the requests but what PostgreSQL does at READ        *)
(* COMMITTED: the partial unique index on open periods, which makes an     *)
(* INSERT wait for the transactions that might still leave it room, and    *)
(* the row locks, after which a waiting statement tests its row again.     *)
(* timezone.now() is taken by the process, before or after those waits.    *)
(***************************************************************************)
EXTENDS Naturals, Sequences, FiniteSets

CONSTANTS
  Requests,    \* the POSTs of administrators
  Matriculas,
  Malformed,   \* a CSV row that is no matricula
  CSVs,        \* what an imported file may hold: sequences of rows
  Nobody       \* desactivado_por of an open period

ASSUME MalformedAssumption == Malformed \notin Matriculas
ASSUME CSVsAssumption      == CSVs \subseteq Seq(Matriculas \cup {Malformed})
ASSUME NobodyAssumption    == Nobody \notin Requests

VARIABLES
  now,       \* the next timestamp; every timezone.now() is a later one
  periodos,  \* the committed MentorPeriodo rows
  pc,        \* pc[r]: how far the request is
  kind,      \* kind[r]: what it does
  rows,      \* rows[r]: the matriculas it has still to open
  opened,    \* opened[r]: the periods it inserted
  wanted,    \* wanted[r]: the matriculas it is to close
  found,     \* found[r]: the open periods its statement found
  queue,     \* queue[r]: those of them it has still to lock, in scan order
  locked,    \* locked[r]: those it locked and closes
  stamp      \* stamp[r]: its last timezone.now()

opening == <<rows, opened>>
closing == <<wanted, found, queue, locked>>
vars    == <<now, periodos, pc, kind, opening, closing, stamp>>

\* fecha_baja of an open period.
Open == 0

\* No two rows have one fecha_alta, which therefore stands for the id too.
Periodo == [matricula: Matriculas, alta: Nat \ {0}, baja: Nat,
            creado: Requests, desactivado: Requests \cup {Nobody}]

Activos(m) == { p \in periodos : p.matricula = m /\ p.baja = Open }

Running == {"looking", "stamping", "inserting", "dating", "finding", "locking", "closing"}
Ended   == {"added", "already", "conflict", "closed", "not_found", "failed"}

Init ==
  /\ now = 1
  /\ periodos = {}
  /\ pc = [r \in Requests |-> "idle"]
  /\ kind = [r \in Requests |-> "none"]
  /\ rows = [r \in Requests |-> <<>>]
  /\ opened = [r \in Requests |-> {}]
  /\ wanted = [r \in Requests |-> {}]
  /\ found = [r \in Requests |-> {}]
  /\ queue = [r \in Requests |-> <<>>]
  /\ locked = [r \in Requests |-> {}]
  /\ stamp = [r \in Requests |-> 0]

Goto(r, step) == pc' = [pc EXCEPT ![r] = step]

\* timezone.now().
Stamp(r) == stamp' = [stamp EXCEPT ![r] = now] /\ now' = now + 1
-----------------------------------------------------------------------------
(***************************************************************************)
(* Alta and import: add_or_reactivate for one matricula, or for each row   *)
(* of a file, all in one transaction.                                      *)
(***************************************************************************)
Start(r, k, ms, want, step) ==
  /\ pc[r] = "idle"
  /\ kind' = [kind EXCEPT ![r] = k]
  /\ rows' = [rows EXCEPT ![r] = ms]
  /\ wanted' = [wanted EXCEPT ![r] = want]
  /\ Goto(r, step)
  /\ UNCHANGED <<now, periodos, opened, found, queue, locked, stamp>>

Add(r)    == \E m \in Matriculas : Start(r, "add", <<m>>, {}, "looking")
Import(r) == \E csv \in CSVs : Start(r, "import", csv, {}, "looking")

\* The next row of a file is no matricula: counted as invalid, and skipped.
SkipInvalid(r) ==
  /\ pc[r] = "looking" /\ rows[r] # <<>> /\ Head(rows[r]) = Malformed
  /\ rows' = [rows EXCEPT ![r] = Tail(@)]
  /\ UNCHANGED <<now, periodos, pc, kind, opened, closing, stamp>>

\* "Exists active?", of committed rows and its own: an alta that finds one ends
\* with MentorAlreadyActive, an import counts a duplicate.
LookForActive(r) ==
  /\ pc[r] = "looking" /\ rows[r] # <<>> /\ Head(rows[r]) # Malformed
  /\ IF Activos(Head(rows[r])) \cup { p \in opened[r] : p.matricula = Head(rows[r]) } = {}
     THEN Goto(r, "stamping") /\ UNCHANGED rows
     ELSE /\ rows' = [rows EXCEPT ![r] = Tail(@)]
          /\ IF kind[r] = "add" THEN Goto(r, "already") ELSE UNCHANGED pc
  /\ UNCHANGED <<now, periodos, kind, opened, closing, stamp>>

\* fecha_alta = timezone.now().
StampAlta(r) ==
  /\ pc[r] = "stamping"
  /\ Stamp(r)
  /\ Goto(r, "inserting")
  /\ UNCHANGED <<periodos, kind, opening, closing>>

\* s has inserted or updated an entry of the index for m, and has not ended.  A
\* row that is only locked (select_for_update) does not count.
Undecided(s, m) ==
  /\ pc[s] \in Running
  /\ \/ \E p \in opened[s] : p.matricula = m
     \/ /\ kind[s] = "bulk" \/ pc[s] = "closing"
        /\ \E p \in locked[s] : p.matricula = m

NewPeriodo(r) ==
  [matricula |-> Head(rows[r]), alta |-> stamp[r], baja |-> Open,
   creado |-> r, desactivado |-> Nobody]

\* Mutant: no index, the check of LookForActive is all there is.
InsertUnchecked(r) ==
  /\ pc[r] = "inserting"
  /\ opened' = [opened EXCEPT ![r] = @ \cup {NewPeriodo(r)}]
  /\ rows' = [rows EXCEPT ![r] = Tail(@)]
  /\ Goto(r, "looking")
  /\ UNCHANGED <<now, periodos, kind, closing, stamp>>

\* Mutant: a row that is only locked makes an INSERT wait.
InsertAfterLocks(r) ==
  /\ pc[r] = "inserting"
  /\ \A s \in Requests \ {r} : pc[s] \in Running =>
       \A p \in opened[s] \cup locked[s] : p.matricula # Head(rows[r])
  /\ IF Activos(Head(rows[r])) = {}
     THEN /\ opened' = [opened EXCEPT ![r] = @ \cup {NewPeriodo(r)}]
          /\ rows' = [rows EXCEPT ![r] = Tail(@)]
          /\ Goto(r, "looking")
     ELSE Goto(r, "conflict") /\ UNCHANGED opening
  /\ UNCHANGED <<now, periodos, kind, closing, stamp>>

\* The INSERT: it waits while the index is undecided.  On IntegrityError the
\* recovery branch queries again, in a transaction that Django has marked as
\* broken: TransactionManagementError, and everything is rolled back.
Insert(r) ==
  /\ pc[r] = "inserting"
  /\ \A s \in Requests \ {r} : ~Undecided(s, Head(rows[r]))
  /\ IF Activos(Head(rows[r])) = {}
     THEN /\ opened' = [opened EXCEPT ![r] = @ \cup {NewPeriodo(r)}]
          /\ rows' = [rows EXCEPT ![r] = Tail(@)]
          /\ Goto(r, "looking")
     ELSE Goto(r, "conflict") /\ UNCHANGED opening
  /\ UNCHANGED <<now, periodos, kind, closing, stamp>>

\* The last row is done: COMMIT.
CommitOpened(r) ==
  /\ pc[r] = "looking" /\ rows[r] = <<>>
  /\ periodos' = periodos \cup opened[r]
  /\ Goto(r, "added")
  /\ UNCHANGED <<now, kind, opening, closing, stamp>>
-----------------------------------------------------------------------------
(***************************************************************************)
(* Baja: deactivate locks, then stamps; the bulk UPDATEs of the selected   *)
(* or of all active mentores are stamped when the statement is built.      *)
(***************************************************************************)
Deactivate(r) == \E m \in Matriculas : Start(r, "one", <<>>, {m}, "finding")

\* The selections for which a confirmation page is rendered and signed.
Confirmable == SUBSET Matriculas \ {{}}

\* The signed page comes back, however late or often within its five minutes.
DeactivateMany(r) == \E ms \in Confirmable : Start(r, "bulk", <<>>, ms, "dating")
DeactivateAll(r)  == Start(r, "bulk", <<>>, Matriculas, "dating")

StampBulk(r) ==
  /\ pc[r] = "dating"
  /\ Stamp(r)
  /\ Goto(r, "finding")
  /\ UNCHANGED <<periodos, kind, opening, closing>>

\* The orders in which a scan may meet the elements of S.
Scans(S) == { q \in UNION { [1 .. n -> S] : n \in 0 .. Cardinality(S) } :
               S = { q[i] : i \in DOMAIN q } }

\* Mutant: deactivate locks every open period, and picks its own afterwards.
FindAllOpen(r) ==
  /\ pc[r] = "finding"
  /\ LET F == UNION { Activos(m) : m \in Matriculas } IN
       /\ found' = [found EXCEPT ![r] = F]
       /\ \E q \in Scans(F) : queue' = [queue EXCEPT ![r] = q]
  /\ Goto(r, "locking")
  /\ UNCHANGED <<now, periodos, kind, opening, wanted, locked, stamp>>

\* The statement takes its snapshot: the open periods committed by now.
FindOpen(r) ==
  /\ pc[r] = "finding"
  /\ LET F == UNION { Activos(m) : m \in wanted[r] } IN
       /\ found' = [found EXCEPT ![r] = F]
       /\ \E q \in Scans(F) : queue' = [queue EXCEPT ![r] = q]
  /\ Goto(r, "locking")
  /\ UNCHANGED <<now, periodos, kind, opening, wanted, locked, stamp>>

Holds(s, p) == pc[s] \in Running /\ p \in locked[s]

\* Mutant: the row is not tested again after the wait.
LockUntested(r) ==
  /\ pc[r] = "locking" /\ queue[r] # <<>>
  /\ \A s \in Requests \ {r} : ~Holds(s, Head(queue[r]))
  /\ queue' = [queue EXCEPT ![r] = Tail(@)]
  /\ locked' = [locked EXCEPT ![r] = @ \cup {Head(queue[r])}]
  /\ UNCHANGED <<now, periodos, pc, kind, opening, wanted, found, stamp>>

\* Mutant: SKIP LOCKED.
LockOrSkip(r) ==
  /\ pc[r] = "locking" /\ queue[r] # <<>>
  /\ queue' = [queue EXCEPT ![r] = Tail(@)]
  /\ locked' = [locked EXCEPT ![r] =
       @ \cup { p \in {Head(queue[r])} \cap periodos : \A s \in Requests \ {r} : ~Holds(s, p) }]
  /\ UNCHANGED <<now, periodos, pc, kind, opening, wanted, found, stamp>>

\* It waits for the next row, and takes it if it is still open.
LockNext(r) ==
  /\ pc[r] = "locking" /\ queue[r] # <<>>
  /\ \A s \in Requests \ {r} : ~Holds(s, Head(queue[r]))
  /\ queue' = [queue EXCEPT ![r] = Tail(@)]
  /\ locked' = [locked EXCEPT ![r] = @ \cup ({Head(queue[r])} \cap periodos)]
  /\ UNCHANGED <<now, periodos, pc, kind, opening, wanted, found, stamp>>

\* deactivate: no row, MentorNotFound.
NotFound(r) ==
  /\ pc[r] = "locking" /\ kind[r] = "one" /\ queue[r] = <<>> /\ locked[r] = {}
  /\ Goto(r, "not_found")
  /\ UNCHANGED <<now, periodos, kind, opening, closing, stamp>>

\* deactivate: fecha_baja = timezone.now(), and save.
CloseOne(r) ==
  /\ pc[r] = "locking" /\ kind[r] = "one" /\ queue[r] = <<>> /\ locked[r] # {}
  /\ Stamp(r)
  /\ Goto(r, "closing")
  /\ UNCHANGED <<periodos, kind, opening, closing>>

Close(p, r) == [p EXCEPT !.baja = stamp[r], !.desactivado = r]

\* The rows it locked are closed, by their id: COMMIT.
CommitClosed(r) ==
  /\ \/ pc[r] = "closing"
     \/ pc[r] = "locking" /\ kind[r] = "bulk" /\ queue[r] = <<>>
  /\ LET ids == { p.alta : p \in locked[r] } IN
       periodos' = { p \in periodos : p.alta \notin ids } \cup
                   { Close(p, r) : p \in { q \in periodos : q.alta \in ids } }
  /\ Goto(r, "closed")
  /\ UNCHANGED <<now, kind, opening, closing, stamp>>
-----------------------------------------------------------------------------
\* Whom r waits for: its INSERT for the index, its statement for a row.
WaitsFor(r) ==
  IF pc[r] = "inserting" THEN { s \in Requests \ {r} : Undecided(s, Head(rows[r])) }
  ELSE IF pc[r] = "locking" /\ queue[r] # <<>>
       THEN { s \in Requests \ {r} : Holds(s, Head(queue[r])) }
       ELSE {}

\* Everyone in D waits for one of D, and one of D for everyone: cycles.
Deadlock(D) ==
  \A s \in D : WaitsFor(s) \cap D # {} /\ \E q \in D : s \in WaitsFor(q)

\* The database finds the cycle and makes one of it fail.
DeadlockVictim(r) ==
  /\ \E D \in SUBSET Requests : r \in D /\ Deadlock(D)
  /\ Goto(r, "failed")
  /\ UNCHANGED <<now, periodos, kind, opening, closing, stamp>>

\* Any other error of the database, or the death of the worker: ROLLBACK.
Fail(r) ==
  /\ pc[r] \in Running
  /\ Goto(r, "failed")
  /\ UNCHANGED <<now, periodos, kind, opening, closing, stamp>>

Arrive(r) ==
  Add(r) \/ Import(r) \/ Deactivate(r) \/ DeactivateMany(r) \/ DeactivateAll(r)

\* What the process that runs r, and the database for it, do next.
Step(r) ==
  \/ SkipInvalid(r) \/ LookForActive(r) \/ StampAlta(r) \/ Insert(r) \/ CommitOpened(r)
  \/ StampBulk(r) \/ FindOpen(r) \/ LockNext(r) \/ NotFound(r) \/ CloseOne(r)
  \/ CommitClosed(r) \/ DeadlockVictim(r)

Next == \E r \in Requests : Arrive(r) \/ Step(r) \/ Fail(r)

Spec == Init /\ [][Next]_vars
-----------------------------------------------------------------------------
TypeOK ==
  /\ now \in Nat \ {0}
  /\ periodos \subseteq Periodo
  /\ pc \in [Requests -> {"idle"} \cup Running \cup Ended]
  /\ kind \in [Requests -> {"none", "add", "import", "one", "bulk"}]
  /\ rows \in [Requests -> Seq(Matriculas \cup {Malformed})]
  /\ opened \in [Requests -> SUBSET Periodo]
  /\ wanted \in [Requests -> SUBSET Matriculas]
  /\ found \in [Requests -> SUBSET Periodo]
  /\ queue \in [Requests -> Seq(Periodo)]
  /\ locked \in [Requests -> SUBSET Periodo]
  /\ stamp \in [Requests -> Nat]

\* At most one open period per matricula, whoever looks, waits and commits when.
OneOpenPeriod ==
  \A p, q \in periodos :
    p.matricula = q.matricula /\ p.baja = Open /\ q.baja = Open => p = q

\* What is closed stays as it was closed: nobody reopens a period, moves its
\* fecha_baja or takes the baja over.
ClosedForGood == [][\A p \in periodos : p.baja # Open => p \in periodos']_periodos

\* The counts the administrator is shown are those of the table: a request that
\* ends well has opened or closed just the rows it reports, and one that fails,
\* an import in its last row included, has left nothing.
ReceiptsAreTrue ==
  \A r \in Requests :
    LET altas == { p.alta : p \in { q \in periodos : q.creado = r } }
        bajas == { p.alta : p \in { q \in periodos : q.desactivado = r } } IN
    /\ altas = IF pc[r] = "added" THEN { p.alta : p \in opened[r] } ELSE {}
    /\ bajas = IF pc[r] = "closed" THEN { p.alta : p \in locked[r] } ELSE {}

\* After a baja none of the periods its statement found is open, although some
\* were locked by requests that then failed.
ClosersLeaveNoneOpen ==
  \A r \in Requests : pc[r] \in {"closed", "not_found"} => found[r] \cap periodos = {}

\* A period closed by deactivate, which stamps under the lock, ends after it
\* began.  The bulk UPDATEs stamp before they look, and may close a period that
\* was opened since.
SingleClosuresRunForward ==
  \A p \in periodos : p.baja # Open /\ kind[p.desactivado] = "one" => p.alta < p.baja

\* Who waits, and is in no cycle that the database would break.
Waits(r) == WaitsFor(r) # {} /\ ~\E D \in SUBSET Requests : r \in D /\ Deadlock(D)

\* Everyone in D waits for one of D.
StuckIn(D) == D # {} /\ \A s \in D : WaitsFor(s) \cap D # {}

\* It has inserted a period, or locked one, and is not done.
HoldsSome(r) == opened[r] \cup locked[r] # {}

\* Requests wait for index entries and row locks of each other, and only imports
\* among themselves, or bulk bajas among themselves, ever wait in circles: the alta
\* or baja of one mentor holds nothing while it waits, a baja never waits for an
\* import, and so an administrator with one mentor at hand is no deadlock victim.
DeadlocksAreOfBatches ==
  \A D \in SUBSET Requests :
    /\ StuckIn(D) => \E k \in {"import", "bulk"} : StuckIn({ s \in D : kind[s] = k /\ HoldsSome(s) })
    /\ Deadlock(D) => \A s \in D : kind[s] \in {"import", "bulk"}

\* Nothing but these waits stops a request: all others have a step that does not
\* fail on its own.  A request takes a bounded number of steps, so all of them end.
OnlyWaitsStop ==
  \A r \in Requests : pc[r] \in Running => Waits(r) \/ ENABLED Step(r)

\* How many stages a request has before it, and how much work in this one: three
\* steps for each row of a file, one for each row to lock.
Distance(step) ==
  CASE step = "idle" -> 5 [] step = "dating" -> 4 [] step = "finding" -> 3
    [] step \in {"looking", "stamping", "inserting", "locking"} -> 2
    [] step = "closing" -> 1
    [] OTHER -> 0

Left(r) ==
  CASE pc[r] = "looking"   -> 3 * Len(rows[r]) + 2
    [] pc[r] = "stamping"  -> 3 * Len(rows[r]) + 1
    [] pc[r] = "inserting" -> 3 * Len(rows[r])
    [] pc[r] = "locking"   -> Len(queue[r])
    [] OTHER -> 0

Further(r) ==
  \/ Distance(pc'[r]) < Distance(pc[r])
  \/ Distance(pc'[r]) = Distance(pc[r]) /\ Left(r)' < Left(r)

StandsStill(r) == pc'[r] = pc[r] /\ Left(r)' = Left(r)

\* Each step of a request brings it nearer to its end, and no other request throws
\* it back or gives it more to do: it has finitely many steps.
StepsRunOut ==
  [][\A r \in Requests :
       /\ Further(r) \/ StandsStill(r)
       /\ Step(r) => Further(r)]_vars

(***************************************************************************)
(* The inductive strengthening.                                            *)
(***************************************************************************)
RowsAreSound ==
  \A p \in periodos : p.alta < now /\ (p.baja = Open <=> p.desactivado = Nobody)

AltasIdentify == \A p, q \in periodos : p.alta = q.alta => p = q

\* A period not yet inserted has a timestamp that no other has.
StampsAreFresh ==
  \A r \in Requests :
    /\ stamp[r] < now
    /\ pc[r] = "inserting" =>
         /\ stamp[r] > 0
         /\ \A p \in periodos : p.alta # stamp[r]
         /\ \A s \in Requests : \A p \in opened[s] : p.alta # stamp[r]
         /\ \A s \in Requests \ {r} : pc[s] = "inserting" => stamp[s] # stamp[r]

OpenedAreOwn ==
  \A r \in Requests : \A p \in opened[r] :
    /\ p.creado = r /\ p.baja = Open /\ p.desactivado = Nobody /\ p.alta < now
    /\ \A q \in periodos : q.alta = p.alta => q.creado = r
    /\ \A s \in Requests : \A q \in opened[s] : q.alta = p.alta => q = p

\* Who is to open what, or has inserted it, is in nobody's way: the index lets
\* an entry in only when no other is there or may still come.
PendingIsAlone ==
  \A r \in Requests : pc[r] \in Running => \A p \in opened[r] :
    /\ Activos(p.matricula) = {}
    /\ \A s \in Requests : pc[s] \in Running =>
         \A q \in opened[s] : q.matricula = p.matricula => q = p

StagesAreSound ==
  \A r \in Requests :
    /\ pc[r] = "idle" => opened[r] = {} /\ locked[r] = {} /\ found[r] = {} /\ queue[r] = <<>>
    /\ pc[r] \in {"looking", "stamping", "inserting"} => locked[r] = {}
    /\ pc[r] \in {"stamping", "inserting"} =>
         /\ rows[r] # <<>> /\ Head(rows[r]) \in Matriculas
         /\ \A p \in opened[r] : p.matricula # Head(rows[r])
    /\ pc[r] \in {"dating", "finding", "locking", "closing"} =>
         opened[r] = {} /\ kind[r] \in {"one", "bulk"}
    /\ pc[r] \in {"dating", "finding"} => locked[r] = {}
    /\ pc[r] = "dating" => kind[r] = "bulk"
    /\ pc[r] = "closing" => kind[r] = "one" /\ queue[r] = <<>>
    /\ pc[r] = "closing" \/ (kind[r] = "bulk" /\ pc[r] \in {"finding", "locking"}) => stamp[r] > 0
    /\ pc[r] = "closing" => \A p \in locked[r] : p.alta < stamp[r]

\* What a running request has locked is committed, open, and its own to close.
LocksHold ==
  \A r \in Requests : pc[r] \in Running => \A p \in locked[r] :
    /\ p \in periodos /\ p.baja = Open
    /\ \A s \in Requests \ {r} : pc[s] \in Running => p \notin locked[s]

FoundAreCommitted ==
  \A r \in Requests :
    /\ \A p \in found[r] : p.baja = Open /\ pc[p.creado] = "added"
    /\ \A i \in DOMAIN queue[r] : queue[r][i] \in found[r]

FoundAreKept ==
  \A r \in Requests : pc[r] \in {"locking", "closing"} =>
    \A p \in found[r] \cap periodos :
      p \in locked[r] \/ \E i \in DOMAIN queue[r] : queue[r][i] = p

\* ReceiptsAreTrue, row by row.
Receipts ==
  /\ \A p \in periodos :
       pc[p.creado] = "added" /\ \E q \in opened[p.creado] : q.alta = p.alta
  /\ \A r \in Requests : pc[r] = "added" =>
       \A q \in opened[r] : \E p \in periodos : p.creado = r /\ p.alta = q.alta
  /\ \A p \in periodos : p.desactivado # Nobody =>
       pc[p.desactivado] = "closed" /\ \E q \in locked[p.desactivado] : q.alta = p.alta
  /\ \A r \in Requests : pc[r] = "closed" =>
       \A q \in locked[r] : \E p \in periodos : p.desactivado = r /\ p.alta = q.alta

IndexInv == OneOpenPeriod /\ PendingIsAlone
RowInv   == RowsAreSound /\ AltasIdentify /\ StampsAreFresh /\ OpenedAreOwn
CloseInv == LocksHold /\ FoundAreCommitted /\ FoundAreKept
DoneInv  == Receipts /\ ClosersLeaveNoneOpen /\ SingleClosuresRunForward

\* An alta has at most one row to insert, and nothing to insert once it has.  A
\* baja of one mentor has one row to lock, and holds none while it has.
SinglesAreSound ==
  \A r \in Requests :
    /\ pc[r] \in {"looking", "stamping", "inserting"} => kind[r] \in {"add", "import"}
    /\ kind[r] = "add" => Len(rows[r]) <= 1 /\ (opened[r] # {} => rows[r] = <<>>)
    /\ kind[r] = "one" => \E m \in Matriculas : wanted[r] = {m}
    /\ kind[r] = "one" => Len(queue[r]) <= 1 /\ (queue[r] # <<>> => locked[r] = {})

IInv == TypeOK /\ StagesAreSound /\ IndexInv /\ RowInv /\ CloseInv /\ DoneInv
-----------------------------------------------------------------------------
Table == INSTANCE Padron

\* The catalogue implements the Padron: although the requests look, stamp and lock
\* at different moments, each changes the table once, as a whole, by periods that
\* are still as it believes when it commits.
ImplementsPadron == Table!Contract
=============================================================================
