--------------------------- MODULE MentoresProofs ---------------------------
(***************************************************************************)
(* Mentores, proved for every set of requests, matriculas and files.       *)
(*                                                                         *)
(* RowInv: a timestamp names one row for ever, before and after it is      *)
(* inserted.  IndexInv: while a row waits for its COMMIT nobody else has   *)
(* or gets one for the same matricula.  CloseInv: a locked row stays       *)
(* committed and open until its holder ends, and a row that a statement    *)
(* found is open only as long as it is in its queue or locked by it.       *)
(* SinglesAreSound: the alta or baja of one mentor holds nothing as long   *)
(* as it has to wait, because one period of a matricula is open at most.   *)
(* KeepsThePadron: whoever reads the table sees one request at a time      *)
(* enrol or dismiss.                                                       *)
(***************************************************************************)
EXTENDS Mentores, FiniteSetTheorems, TLAPS

USE DEF opening, closing, Open

\* A period, field by field.
LEMMA PeriodoType ==
  ASSUME NEW p \in Periodo
  PROVE  /\ p.matricula \in Matriculas /\ p.alta \in Nat \ {0} /\ p.baja \in Nat
         /\ p.creado \in Requests /\ p.desactivado \in Requests \cup {Nobody}
BY DEF Periodo

\* ReceiptsAreTrue says just that.
LEMMA ReceiptsByRow == ASSUME TypeOK PROVE ReceiptsAreTrue <=> Receipts
<1>1. ASSUME ReceiptsAreTrue PROVE Receipts
  <2>1. ASSUME NEW p \in periodos
        PROVE  pc[p.creado] = "added" /\ \E q \in opened[p.creado] : q.alta = p.alta
    <3> DEFINE r == p.creado
    <3>1. r \in Requests
      BY PeriodoType DEF TypeOK
    <3>2. p.alta \in { a.alta : a \in { q \in periodos : q.creado = r } }
      OBVIOUS
    <3>3. p.alta \in (IF pc[r] = "added" THEN { a.alta : a \in opened[r] } ELSE {})
      BY <1>1, <3>1, <3>2 DEF ReceiptsAreTrue
    <3> QED
      BY <3>3
  <2>2. ASSUME NEW r \in Requests, pc[r] = "added", NEW q \in opened[r]
        PROVE  \E p \in periodos : p.creado = r /\ p.alta = q.alta
    <3>1. q.alta \in { a.alta : a \in { p \in periodos : p.creado = r } }
      BY <1>1, <2>2 DEF ReceiptsAreTrue
    <3> QED
      BY <3>1
  <2>3. ASSUME NEW p \in periodos, p.desactivado # Nobody
        PROVE  pc[p.desactivado] = "closed" /\ \E q \in locked[p.desactivado] : q.alta = p.alta
    <3> DEFINE r == p.desactivado
    <3>1. r \in Requests
      BY <2>3, PeriodoType DEF TypeOK
    <3>2. p.alta \in { a.alta : a \in { q \in periodos : q.desactivado = r } }
      OBVIOUS
    <3>3. p.alta \in (IF pc[r] = "closed" THEN { a.alta : a \in locked[r] } ELSE {})
      BY <1>1, <3>1, <3>2 DEF ReceiptsAreTrue
    <3> QED
      BY <3>3
  <2>4. ASSUME NEW r \in Requests, pc[r] = "closed", NEW q \in locked[r]
        PROVE  \E p \in periodos : p.desactivado = r /\ p.alta = q.alta
    <3>1. q.alta \in { a.alta : a \in { p \in periodos : p.desactivado = r } }
      BY <1>1, <2>4 DEF ReceiptsAreTrue
    <3> QED
      BY <3>1
  <2> QED
    BY <2>1, <2>2, <2>3, <2>4 DEF Receipts
<1>2. ASSUME Receipts PROVE ReceiptsAreTrue
  <2> SUFFICES ASSUME NEW r \in Requests
               PROVE  /\ { p.alta : p \in { q \in periodos : q.creado = r } } =
                           IF pc[r] = "added" THEN { p.alta : p \in opened[r] } ELSE {}
                      /\ { p.alta : p \in { q \in periodos : q.desactivado = r } } =
                           IF pc[r] = "closed" THEN { p.alta : p \in locked[r] } ELSE {}
    BY DEF ReceiptsAreTrue
  <2>1. \A p \in periodos : p.creado = r =>
          pc[r] = "added" /\ \E q \in opened[r] : q.alta = p.alta
    BY <1>2 DEF Receipts
  <2>2. pc[r] = "added" => \A q \in opened[r] : \E p \in periodos : p.creado = r /\ p.alta = q.alta
    BY <1>2 DEF Receipts
  <2>3. \A p \in periodos : p.desactivado = r =>
          pc[r] = "closed" /\ \E q \in locked[r] : q.alta = p.alta
    BY <1>2, NobodyAssumption DEF Receipts
  <2>4. pc[r] = "closed" =>
          \A q \in locked[r] : \E p \in periodos : p.desactivado = r /\ p.alta = q.alta
    BY <1>2 DEF Receipts
  <2>5. { p.alta : p \in { q \in periodos : q.creado = r } } =
          IF pc[r] = "added" THEN { p.alta : p \in opened[r] } ELSE {}
    BY <2>1, <2>2
  <2>6. { p.alta : p \in { q \in periodos : q.desactivado = r } } =
          IF pc[r] = "closed" THEN { p.alta : p \in locked[r] } ELSE {}
    BY <2>3, <2>4
  <2> QED
    BY <2>5, <2>6
<1> QED
  BY <1>1, <1>2

\* r moves on and nobody else.
LEMMA PcUpdate ==
  ASSUME TypeOK, NEW r \in Requests, NEW step \in Running \cup Ended, Goto(r, step)
  PROVE  /\ pc' \in [Requests -> {"idle"} \cup Running \cup Ended] /\ pc'[r] = step
         /\ \A s \in Requests \ {r} : pc'[s] = pc[s]
  BY DEF TypeOK, Goto

\* r looks at the clock and nobody else.
LEMMA StampUpdate ==
  ASSUME TypeOK, NEW r \in Requests, Stamp(r)
  PROVE  /\ stamp' \in [Requests -> Nat] /\ stamp'[r] = now /\ now' = now + 1
         /\ now' \in Nat \ {0}
         /\ \A s \in Requests \ {r} : stamp'[s] = stamp[s]
  BY DEF TypeOK, Stamp

\* The initial states.
LEMMA InitHolds == Init => IInv
<1> SUFFICES ASSUME Init PROVE IInv
  OBVIOUS
<1>1. TypeOK
  BY DEF Init, TypeOK, Running, Ended
<1>2. StagesAreSound /\ IndexInv /\ RowInv /\ CloseInv
  BY DEF Init, StagesAreSound, IndexInv, OneOpenPeriod, PendingIsAlone, RowInv, RowsAreSound,
     AltasIdentify, StampsAreFresh, OpenedAreOwn, CloseInv, LocksHold, FoundAreCommitted,
     FoundAreKept, Running
<1>3. Receipts
  BY DEF Init, Receipts
<1>4. DoneInv
  BY <1>3 DEF Init, DoneInv, ClosersLeaveNoneOpen, SingleClosuresRunForward
<1> QED
  BY <1>1, <1>2, <1>4 DEF IInv
-----------------------------------------------------------------------------
(***************************************************************************)
(* Steps that touch no row, no lock and no clock.                          *)
(***************************************************************************)
\* r goes on from a stage where it waits for nothing to one that asks for no more
\* than what is known of it.
LEMMA MoveHolds ==
  ASSUME IInv, TypeOK', StagesAreSound', NEW r \in Requests,
         UNCHANGED <<now, periodos, opened, found, queue, locked, stamp>>,
         \A s \in Requests \ {r} : pc'[s] = pc[s] /\ kind'[s] = kind[s],
         pc[r] \in {"idle"} \cup Running,
         pc'[r] \notin {"added", "closed", "inserting"},
         kind'[r] = kind[r] \/ pc[r] = "idle",
         pc'[r] \in Running => pc[r] \in Running \/ (opened[r] = {} /\ locked[r] = {}),
         pc'[r] \in {"locking", "closing", "not_found"} => pc[r] = "locking",
         pc'[r] = "not_found" => queue[r] = <<>> /\ locked[r] = {}
  PROVE  IInv'
<1>0. TypeOK /\ Receipts
  BY DEF IInv, DoneInv
<1>1. IndexInv'
  BY DEF IInv, IndexInv, OneOpenPeriod, PendingIsAlone, Activos
<1>2. RowInv'
  BY DEF IInv, RowInv, RowsAreSound, AltasIdentify, StampsAreFresh, OpenedAreOwn
<1>3. CloseInv'
  <2>1. LocksHold'
    BY DEF IInv, CloseInv, LocksHold
  <2>2. FoundAreCommitted'
    <3>1. ASSUME NEW s \in Requests, NEW p \in found[s] PROVE p.baja = Open /\ pc'[p.creado] = "added"
      <4>1. p.creado \in Requests
        BY <1>0, PeriodoType DEF TypeOK
      <4>2. p.baja = Open /\ pc[p.creado] = "added"
        BY DEF IInv, CloseInv, FoundAreCommitted
      <4> QED
        BY <4>1, <4>2 DEF Running
    <3> QED
      BY <3>1 DEF IInv, CloseInv, FoundAreCommitted
  <2>3. FoundAreKept'
    BY DEF IInv, CloseInv, FoundAreKept
  <2> QED
    BY <2>1, <2>2, <2>3 DEF CloseInv
<1>4. Receipts'
  <2>1. pc[r] \notin {"added", "closed"} /\ pc'[r] \notin {"added", "closed"}
    BY DEF Running
  <2>2. \A p \in periodos : p.creado \in Requests /\ p.desactivado \in Requests \cup {Nobody}
    BY <1>0, PeriodoType DEF TypeOK
  <2>3. \A s \in Requests : /\ pc'[s] = "added" <=> pc[s] = "added"
                            /\ pc'[s] = "closed" <=> pc[s] = "closed"
    BY <2>1
  <2> QED
    BY <1>0, <2>2, <2>3 DEF Receipts
<1>5. ClosersLeaveNoneOpen'
  BY DEF IInv, DoneInv, CloseInv, ClosersLeaveNoneOpen, FoundAreKept
<1>6. SingleClosuresRunForward'
  <2> SUFFICES ASSUME NEW p \in periodos, p.baja # Open, kind'[p.desactivado] = "one"
               PROVE  p.alta < p.baja
    BY DEF SingleClosuresRunForward
  <2>1. p.desactivado # Nobody
    BY DEF IInv, RowInv, RowsAreSound
  <2>2. p.desactivado \in Requests /\ pc[p.desactivado] = "closed"
    BY <1>0, <2>1, PeriodoType DEF Receipts, TypeOK
  <2>3. kind'[p.desactivado] = kind[p.desactivado]
    BY <2>2 DEF Running
  <2> QED
    BY <2>3 DEF IInv, DoneInv, SingleClosuresRunForward
<1> QED
  BY <1>1, <1>2, <1>3, <1>4, <1>5, <1>6 DEF IInv, DoneInv

\* A request arrives.
LEMMA StartStep ==
  ASSUME IInv, NEW r \in Requests, NEW k \in {"add", "import", "one", "bulk"},
         NEW ms \in Seq(Matriculas \cup {Malformed}), NEW want \in SUBSET Matriculas,
         NEW step \in {"looking", "dating", "finding"},
         step # "looking" => k \in {"one", "bulk"}, step = "dating" => k = "bulk",
         step = "finding" => k = "one",
         Start(r, k, ms, want, step)
  PROVE  IInv'
<1>0. TypeOK /\ StagesAreSound /\ pc[r] = "idle"
  BY DEF IInv, Start
<1>1. /\ pc' \in [Requests -> {"idle"} \cup Running \cup Ended] /\ pc'[r] = step
      /\ \A s \in Requests \ {r} : pc'[s] = pc[s]
  BY <1>0, PcUpdate DEF Start, Running
<1>2. /\ kind' \in [Requests -> {"none", "add", "import", "one", "bulk"}] /\ kind'[r] = k
      /\ rows' \in [Requests -> Seq(Matriculas \cup {Malformed})] /\ rows'[r] = ms
      /\ wanted' \in [Requests -> SUBSET Matriculas]
      /\ \A s \in Requests \ {r} : kind'[s] = kind[s] /\ rows'[s] = rows[s]
  BY <1>0 DEF TypeOK, Start
<1>3. TypeOK'
  BY <1>0, <1>1, <1>2 DEF TypeOK, Start
<1>4. StagesAreSound'
  BY <1>0, <1>1, <1>2 DEF StagesAreSound, Start
<1> QED
  BY <1>0, <1>1, <1>2, <1>3, <1>4, MoveHolds DEF Start, Running, StagesAreSound

LEMMA ArriveStep == ASSUME IInv, NEW r \in Requests, Arrive(r) PROVE IInv'
<1>1. CASE Add(r)
  <2>1. PICK m \in Matriculas : Start(r, "add", <<m>>, {}, "looking")
    BY <1>1 DEF Add
  <2>2. <<m>> \in Seq(Matriculas \cup {Malformed})
    OBVIOUS
  <2> QED
    BY <2>1, <2>2, StartStep
<1>2. CASE Import(r)
  BY <1>2, StartStep, CSVsAssumption DEF Import
<1>3. CASE Deactivate(r)
  <2>1. PICK m \in Matriculas : Start(r, "one", <<>>, {m}, "finding")
    BY <1>3 DEF Deactivate
  <2>2. <<>> \in Seq(Matriculas \cup {Malformed}) /\ {m} \in SUBSET Matriculas
    OBVIOUS
  <2> QED
    BY <2>1, <2>2, StartStep
<1>4. CASE DeactivateMany(r)
  <2>1. PICK ms \in SUBSET Matriculas : Start(r, "bulk", <<>>, ms, "dating")
    BY <1>4 DEF DeactivateMany, Confirmable
  <2>2. <<>> \in Seq(Matriculas \cup {Malformed}) /\ ms \in SUBSET Matriculas
    BY <2>1
  <2> QED
    BY <2>1, <2>2, StartStep
<1>5. CASE DeactivateAll(r)
  <2>1. <<>> \in Seq(Matriculas \cup {Malformed}) /\ Matriculas \in SUBSET Matriculas
    OBVIOUS
  <2> QED
    BY <1>5, <2>1, StartStep DEF DeactivateAll
<1> QED
  BY <1>1, <1>2, <1>3, <1>4, <1>5 DEF Arrive

LEMMA SkipInvalidStep == ASSUME IInv, NEW r \in Requests, SkipInvalid(r) PROVE IInv'
<1>0. TypeOK /\ StagesAreSound /\ pc[r] = "looking"
  BY DEF IInv, SkipInvalid
<1>1. /\ rows' \in [Requests -> Seq(Matriculas \cup {Malformed})]
      /\ \A s \in Requests \ {r} : rows'[s] = rows[s]
  BY <1>0 DEF TypeOK, SkipInvalid
<1>2. TypeOK'
  BY <1>0, <1>1 DEF TypeOK, SkipInvalid
<1>3. StagesAreSound'
  BY <1>0, <1>1 DEF StagesAreSound, SkipInvalid
<1> QED
  BY <1>0, <1>2, <1>3, MoveHolds DEF SkipInvalid, Running

LEMMA LookForActiveStep == ASSUME IInv, NEW r \in Requests, LookForActive(r) PROVE IInv'
<1> DEFINE m == Head(rows[r])
<1>0. TypeOK /\ StagesAreSound /\ pc[r] = "looking" /\ rows[r] # <<>> /\ m # Malformed
  BY DEF IInv, LookForActive
<1>1. m \in Matriculas
  BY <1>0 DEF TypeOK
<1>2. CASE Activos(m) \cup { p \in opened[r] : p.matricula = m } = {}
  <2>1. Goto(r, "stamping") /\ UNCHANGED rows
    BY <1>2 DEF LookForActive
  <2>2. /\ pc' \in [Requests -> {"idle"} \cup Running \cup Ended] /\ pc'[r] = "stamping"
        /\ \A s \in Requests \ {r} : pc'[s] = pc[s]
    BY <1>0, <2>1, PcUpdate DEF Running
  <2>3. TypeOK'
    BY <1>0, <2>1, <2>2 DEF TypeOK, LookForActive
  <2>4. \A p \in opened[r] : p.matricula # m
    BY <1>2
  <2>5. StagesAreSound'
    BY <1>0, <1>1, <2>1, <2>2, <2>4 DEF StagesAreSound, LookForActive
  <2> QED
    BY <1>0, <2>2, <2>3, <2>5, MoveHolds DEF LookForActive, Running
<1>3. CASE Activos(m) \cup { p \in opened[r] : p.matricula = m } # {}
  <2>1. /\ rows' = [rows EXCEPT ![r] = Tail(@)]
        /\ IF kind[r] = "add" THEN Goto(r, "already") ELSE UNCHANGED pc
    BY <1>3 DEF LookForActive
  <2>2. /\ rows' \in [Requests -> Seq(Matriculas \cup {Malformed})]
        /\ \A s \in Requests \ {r} : rows'[s] = rows[s]
    BY <1>0, <2>1 DEF TypeOK
  <2>3. /\ pc' \in [Requests -> {"idle"} \cup Running \cup Ended]
        /\ pc'[r] = "looking" \/ pc'[r] = "already"
        /\ \A s \in Requests \ {r} : pc'[s] = pc[s]
    BY <1>0, <2>1, PcUpdate DEF Ended, TypeOK
  <2>4. TypeOK'
    BY <1>0, <2>2, <2>3 DEF TypeOK, LookForActive
  <2>5. StagesAreSound'
    <3>1. UNCHANGED <<kind, opened, locked, found, queue, stamp>>
      BY DEF LookForActive, closing
    <3>2. /\ locked[r] = {}
          /\ pc'[r] \notin {"idle", "stamping", "inserting", "dating", "finding", "locking", "closing"}
      BY <1>0, <2>3 DEF StagesAreSound
    <3> SUFFICES ASSUME NEW s \in Requests, s # r
                 PROVE  pc'[s] = pc[s] /\ rows'[s] = rows[s]
      BY <1>0, <3>1, <3>2 DEF StagesAreSound
    <3> QED
      BY <2>2, <2>3
  <2> QED
    BY <1>0, <2>3, <2>4, <2>5, MoveHolds DEF LookForActive, Running
<1> QED
  BY <1>2, <1>3

LEMMA NotFoundStep == ASSUME IInv, NEW r \in Requests, NotFound(r) PROVE IInv'
<1>0. TypeOK /\ StagesAreSound
  BY DEF IInv
<1>1. /\ pc' \in [Requests -> {"idle"} \cup Running \cup Ended] /\ pc'[r] = "not_found"
      /\ \A s \in Requests \ {r} : pc'[s] = pc[s]
  BY <1>0, PcUpdate DEF NotFound, Ended
<1>2. TypeOK'
  BY <1>0, <1>1 DEF TypeOK, NotFound
<1>3. StagesAreSound'
  BY <1>0, <1>1 DEF StagesAreSound, NotFound
<1> QED
  BY <1>1, <1>2, <1>3, MoveHolds DEF NotFound, Running

\* A request ends without having changed anything that is committed.
LEMMA FailStep == ASSUME IInv, NEW r \in Requests, DeadlockVictim(r) \/ Fail(r) PROVE IInv'
<1>0. TypeOK /\ StagesAreSound
  BY DEF IInv
<1>1. pc[r] \in Running
  <2>1. CASE DeadlockVictim(r)
    BY <2>1 DEF DeadlockVictim, Deadlock, WaitsFor, Running
  <2>2. CASE Fail(r)
    BY <2>2 DEF Fail
  <2> QED
    BY <2>1, <2>2
<1>2. Goto(r, "failed") /\ UNCHANGED <<now, periodos, kind, opening, closing, stamp>>
  BY DEF DeadlockVictim, Fail
<1>3. /\ pc' \in [Requests -> {"idle"} \cup Running \cup Ended] /\ pc'[r] = "failed"
      /\ \A s \in Requests \ {r} : pc'[s] = pc[s]
  BY <1>0, <1>2, PcUpdate DEF Ended
<1>4. TypeOK'
  BY <1>0, <1>2, <1>3 DEF TypeOK
<1>5. StagesAreSound'
  BY <1>0, <1>2, <1>3 DEF StagesAreSound
<1> QED
  BY <1>1, <1>2, <1>3, <1>4, <1>5, MoveHolds DEF Running
-----------------------------------------------------------------------------
(***************************************************************************)
(* Looking at the clock: the new timestamp is later than all there are.    *)
(***************************************************************************)
LEMMA StampHolds ==
  ASSUME IInv, TypeOK', StagesAreSound', NEW r \in Requests, Stamp(r),
         UNCHANGED <<periodos, kind, opened, found, queue, locked>>,
         \A s \in Requests \ {r} : pc'[s] = pc[s],
         pc[r] \in Running, pc'[r] \in Running,
         pc'[r] \in {"locking", "closing"} => pc[r] = "locking"
  PROVE  IInv'
<1>0. TypeOK /\ Receipts
  BY DEF IInv, DoneInv
<1>1. /\ stamp'[r] = now /\ now' = now + 1 /\ now \in Nat \ {0}
      /\ \A s \in Requests \ {r} : stamp'[s] = stamp[s]
      /\ stamp \in [Requests -> Nat]
  BY <1>0, StampUpdate DEF TypeOK
<1>2. \A s \in Requests : pc'[s] \in Running <=> pc[s] \in Running
  OBVIOUS
<1>3. IndexInv'
  BY <1>2 DEF IInv, IndexInv, OneOpenPeriod, PendingIsAlone, Activos
<1>4. /\ \A p \in periodos : p \in Periodo /\ p.alta \in Nat
      /\ \A s \in Requests : \A p \in opened[s] : p \in Periodo /\ p.alta \in Nat
  BY <1>0, PeriodoType DEF TypeOK
<1>5. RowInv'
  <2>1. RowsAreSound' /\ AltasIdentify'
    BY <1>1, <1>4 DEF IInv, RowInv, RowsAreSound, AltasIdentify
  <2>2. /\ \A p \in periodos : p.alta < now
        /\ \A s \in Requests : stamp[s] < now /\ \A p \in opened[s] : p.alta < now
    BY DEF IInv, RowInv, RowsAreSound, OpenedAreOwn, StampsAreFresh
  <2>3. ASSUME NEW s \in Requests PROVE stamp'[s] < now'
    BY <1>1, <2>2
  <2>4. ASSUME NEW s \in Requests, pc'[s] = "inserting"
        PROVE  /\ stamp'[s] > 0
               /\ \A p \in periodos : p.alta # stamp'[s]
               /\ \A u \in Requests : \A p \in opened[u] : p.alta # stamp'[s]
               /\ \A u \in Requests \ {s} : pc'[u] = "inserting" => stamp'[u] # stamp'[s]
    <3>1. CASE s = r
      BY <1>1, <1>4, <2>2, <3>1
    <3>2. CASE s # r
      BY <1>1, <1>4, <2>2, <2>4, <3>2 DEF IInv, RowInv, StampsAreFresh
    <3> QED
      BY <3>1, <3>2
  <2>5. StampsAreFresh'
    BY <2>3, <2>4 DEF StampsAreFresh
  <2>6. OpenedAreOwn'
    BY <1>1, <1>4 DEF IInv, RowInv, OpenedAreOwn
  <2> QED
    BY <2>1, <2>5, <2>6 DEF RowInv
<1>6. \A s \in Requests : /\ pc'[s] = "added" <=> pc[s] = "added"
                          /\ pc'[s] = "closed" <=> pc[s] = "closed"
                          /\ pc'[s] = "not_found" <=> pc[s] = "not_found"
  BY DEF Running
<1>7. /\ \A p \in periodos : p.creado \in Requests /\ p.desactivado \in Requests \cup {Nobody}
      /\ \A s \in Requests : \A p \in found[s] : p.creado \in Requests
  BY <1>0, PeriodoType DEF TypeOK
<1>8. CloseInv'
  BY <1>2, <1>6, <1>7 DEF IInv, CloseInv, LocksHold, FoundAreCommitted, FoundAreKept
<1>9. DoneInv'
  <2>1. Receipts'
    BY <1>0, <1>6, <1>7 DEF Receipts
  <2>2. ClosersLeaveNoneOpen' /\ SingleClosuresRunForward'
    BY <1>6 DEF IInv, DoneInv, ClosersLeaveNoneOpen, SingleClosuresRunForward
  <2> QED
    BY <2>1, <2>2 DEF DoneInv
<1> QED
  BY <1>3, <1>5, <1>8, <1>9 DEF IInv

LEMMA StampStep ==
  ASSUME IInv, NEW r \in Requests, StampAlta(r) \/ StampBulk(r) \/ CloseOne(r)
  PROVE  IInv'
<1>0. TypeOK /\ StagesAreSound /\ Stamp(r) /\ UNCHANGED <<periodos, kind, opening, closing>>
  BY DEF IInv, StampAlta, StampBulk, CloseOne
<1>1. /\ stamp' \in [Requests -> Nat] /\ stamp'[r] = now /\ now' \in Nat \ {0}
      /\ \A s \in Requests \ {r} : stamp'[s] = stamp[s]
      /\ now \in Nat \ {0}
  BY <1>0, StampUpdate DEF TypeOK
<1>2. CASE StampAlta(r)
  <2>1. /\ pc' \in [Requests -> {"idle"} \cup Running \cup Ended] /\ pc'[r] = "inserting"
        /\ \A s \in Requests \ {r} : pc'[s] = pc[s]
    BY <1>0, <1>2, PcUpdate DEF StampAlta, Running
  <2>2. TypeOK'
    BY <1>0, <1>1, <2>1 DEF TypeOK
  <2>3. StagesAreSound'
    BY <1>0, <1>1, <1>2, <2>1 DEF StagesAreSound, StampAlta
  <2> QED
    BY <1>0, <1>2, <2>1, <2>2, <2>3, StampHolds DEF StampAlta, Running
<1>3. CASE StampBulk(r)
  <2>1. /\ pc' \in [Requests -> {"idle"} \cup Running \cup Ended] /\ pc'[r] = "finding"
        /\ \A s \in Requests \ {r} : pc'[s] = pc[s]
    BY <1>0, <1>3, PcUpdate DEF StampBulk, Running
  <2>2. TypeOK'
    BY <1>0, <1>1, <2>1 DEF TypeOK
  <2>3. StagesAreSound'
    BY <1>0, <1>1, <1>3, <2>1 DEF StagesAreSound, StampBulk
  <2> QED
    BY <1>0, <1>3, <2>1, <2>2, <2>3, StampHolds DEF StampBulk, Running
<1>4. CASE CloseOne(r)
  <2>1. /\ pc' \in [Requests -> {"idle"} \cup Running \cup Ended] /\ pc'[r] = "closing"
        /\ \A s \in Requests \ {r} : pc'[s] = pc[s]
    BY <1>0, <1>4, PcUpdate DEF CloseOne, Running
  <2>2. TypeOK'
    BY <1>0, <1>1, <2>1 DEF TypeOK
  <2>3. \A p \in locked[r] : p.alta < now
    BY <1>4 DEF IInv, CloseInv, LocksHold, RowInv, RowsAreSound, CloseOne, Running
  <2>4. StagesAreSound'
    BY <1>0, <1>1, <1>4, <2>1, <2>3 DEF StagesAreSound, CloseOne
  <2> QED
    BY <1>0, <1>4, <2>1, <2>2, <2>4, StampHolds DEF CloseOne, Running
<1> QED
  BY <1>2, <1>3, <1>4
-----------------------------------------------------------------------------
(***************************************************************************)
(* The index lets a period in, or the race is lost.                        *)
(***************************************************************************)
LEMMA ConflictStep ==
  ASSUME IInv, NEW r \in Requests, Insert(r), Activos(Head(rows[r])) # {}
  PROVE  IInv'
<1>0. TypeOK /\ StagesAreSound /\ pc[r] = "inserting"
  BY DEF IInv, Insert
<1>1. Goto(r, "conflict") /\ UNCHANGED <<now, periodos, kind, opening, closing, stamp>>
  BY DEF Insert
<1>2. /\ pc' \in [Requests -> {"idle"} \cup Running \cup Ended] /\ pc'[r] = "conflict"
      /\ \A s \in Requests \ {r} : pc'[s] = pc[s]
  BY <1>0, <1>1, PcUpdate DEF Ended
<1>3. TypeOK'
  BY <1>0, <1>1, <1>2 DEF TypeOK
<1>4. StagesAreSound'
  BY <1>0, <1>1, <1>2 DEF StagesAreSound
<1> QED
  BY <1>0, <1>1, <1>2, <1>3, <1>4, MoveHolds DEF Running

LEMMA InsertStep ==
  ASSUME IInv, NEW r \in Requests, Insert(r), Activos(Head(rows[r])) = {}
  PROVE  IInv'
<1> DEFINE m == Head(rows[r])
           n == NewPeriodo(r)
<1>0. TypeOK /\ StagesAreSound /\ Receipts /\ pc[r] = "inserting"
  BY DEF IInv, DoneInv, Insert
<1>1. /\ opened' = [opened EXCEPT ![r] = @ \cup {n}]
      /\ rows' = [rows EXCEPT ![r] = Tail(@)]
      /\ Goto(r, "looking")
      /\ UNCHANGED <<now, periodos, kind, closing, stamp>>
      /\ \A s \in Requests \ {r} : ~Undecided(s, m)
  BY DEF Insert
<1>2. m \in Matriculas /\ rows[r] # <<>> /\ \A p \in opened[r] : p.matricula # m
  BY <1>0 DEF StagesAreSound
<1>3. /\ stamp[r] \in Nat \ {0} /\ stamp[r] < now /\ now \in Nat
  BY <1>0 DEF IInv, RowInv, StampsAreFresh, TypeOK
<1>4. /\ n \in Periodo /\ n.matricula = m /\ n.alta = stamp[r] /\ n.baja = 0
      /\ n.creado = r /\ n.desactivado = Nobody
  BY <1>2, <1>3 DEF NewPeriodo, Periodo
<1> HIDE DEF n, m
<1>5. /\ pc' \in [Requests -> {"idle"} \cup Running \cup Ended] /\ pc'[r] = "looking"
      /\ \A s \in Requests \ {r} : pc'[s] = pc[s]
  BY <1>0, <1>1, PcUpdate DEF Running
<1>6. /\ opened' \in [Requests -> SUBSET Periodo] /\ opened'[r] = opened[r] \cup {n}
      /\ \A s \in Requests \ {r} : opened'[s] = opened[s]
      /\ rows' \in [Requests -> Seq(Matriculas \cup {Malformed})]
      /\ \A s \in Requests \ {r} : rows'[s] = rows[s]
  BY <1>0, <1>1, <1>2, <1>4 DEF TypeOK
<1>7. TypeOK'
  BY <1>0, <1>1, <1>5, <1>6 DEF TypeOK
<1>8. StagesAreSound'
  BY <1>0, <1>1, <1>5, <1>6 DEF StagesAreSound
<1>9. \A s \in Requests : pc'[s] \in Running <=> pc[s] \in Running
  BY <1>0, <1>5 DEF Running
<1>10. IndexInv'
  <2>1. OneOpenPeriod'
    BY <1>1 DEF IInv, IndexInv, OneOpenPeriod
  <2>2. \A s \in Requests \ {r} : pc[s] \in Running => \A p \in opened[s] : p.matricula # m
    BY <1>1 DEF Undecided
  <2>3. ASSUME NEW s \in Requests, pc[s] \in Running, NEW p \in opened'[s]
        PROVE  /\ Activos(p.matricula) = {}
               /\ \A u \in Requests : pc[u] \in Running =>
                    \A q \in opened'[u] : q.matricula = p.matricula => q = p
    <3>1. CASE p = n
      <4>1. Activos(p.matricula) = {}
        BY <1>4, <3>1 DEF m
      <4>2. ASSUME NEW u \in Requests, pc[u] \in Running, NEW q \in opened'[u],
                   q.matricula = p.matricula
            PROVE  q = p
        BY <1>2, <1>4, <1>6, <2>2, <3>1, <4>2
      <4> QED
        BY <4>1, <4>2
    <3>2. CASE p # n
      <4>1. p \in opened[s] /\ p.matricula # m
        BY <1>2, <1>6, <2>2, <2>3, <3>2
      <4>2. /\ Activos(p.matricula) = {}
            /\ \A u \in Requests : pc[u] \in Running =>
                 \A q \in opened[u] : q.matricula = p.matricula => q = p
        BY <2>3, <4>1 DEF IInv, IndexInv, PendingIsAlone
      <4> QED
        BY <1>4, <1>6, <4>1, <4>2
    <3> QED
      BY <3>1, <3>2
  <2>4. \A x : Activos(x)' = Activos(x)
    BY <1>1 DEF Activos
  <2>5. PendingIsAlone'
    BY <1>9, <2>3, <2>4 DEF PendingIsAlone
  <2> QED
    BY <2>1, <2>5 DEF IndexInv
<1>11. RowInv'
  <2>1. RowsAreSound' /\ AltasIdentify'
    BY <1>1 DEF IInv, RowInv, RowsAreSound, AltasIdentify
  <2>2. /\ \A p \in periodos : p.alta # n.alta
        /\ \A s \in Requests : \A p \in opened[s] : p.alta # n.alta
        /\ \A s \in Requests \ {r} : pc[s] = "inserting" => stamp[s] # n.alta
    BY <1>0, <1>4 DEF IInv, RowInv, StampsAreFresh
  <2>3. StampsAreFresh'
    <3>1. ASSUME NEW s \in Requests, pc'[s] = "inserting"
          PROVE  /\ stamp[s] > 0
                 /\ \A p \in periodos : p.alta # stamp[s]
                 /\ \A u \in Requests : \A p \in opened'[u] : p.alta # stamp[s]
                 /\ \A u \in Requests \ {s} : pc'[u] = "inserting" => stamp[u] # stamp[s]
      <4>1. s # r /\ pc[s] = "inserting"
        BY <1>5, <3>1
      <4>2. /\ stamp[s] > 0
            /\ \A p \in periodos : p.alta # stamp[s]
            /\ \A u \in Requests : \A p \in opened[u] : p.alta # stamp[s]
            /\ \A u \in Requests \ {s} : pc[u] = "inserting" => stamp[u] # stamp[s]
        BY <4>1 DEF IInv, RowInv, StampsAreFresh
      <4>3. n.alta # stamp[s]
        BY <2>2, <4>1
      <4> QED
        BY <1>5, <1>6, <4>1, <4>2, <4>3
    <3>2. \A s \in Requests : stamp[s] < now
      BY DEF IInv, RowInv, StampsAreFresh
    <3> QED
      BY <1>1, <3>1, <3>2 DEF StampsAreFresh
  <2>4. ASSUME NEW s \in Requests, NEW p \in opened'[s]
        PROVE  /\ p.creado = s /\ p.baja = 0 /\ p.desactivado = Nobody /\ p.alta < now
               /\ \A q \in periodos : q.alta = p.alta => q.creado = s
               /\ \A u \in Requests : \A q \in opened'[u] : q.alta = p.alta => q = p
    <3>1. CASE p = n /\ s = r
      BY <1>3, <1>4, <1>6, <2>2, <3>1
    <3>2. CASE p \in opened[s]
      <4>1. /\ p.creado = s /\ p.baja = 0 /\ p.desactivado = Nobody /\ p.alta < now
            /\ \A q \in periodos : q.alta = p.alta => q.creado = s
            /\ \A u \in Requests : \A q \in opened[u] : q.alta = p.alta => q = p
        BY <3>2 DEF IInv, RowInv, OpenedAreOwn
      <4> QED
        BY <1>6, <2>2, <3>2, <4>1
    <3> QED
      BY <1>6, <2>4, <3>1, <3>2
  <2>5. OpenedAreOwn'
    BY <1>1, <2>4 DEF OpenedAreOwn
  <2> QED
    BY <2>1, <2>3, <2>5 DEF RowInv
<1>12. \A s \in Requests : /\ pc'[s] = "added" <=> pc[s] = "added"
                           /\ pc'[s] = "closed" <=> pc[s] = "closed"
                           /\ pc'[s] = "not_found" <=> pc[s] = "not_found"
                           /\ pc'[s] \in {"locking", "closing"} <=> pc[s] \in {"locking", "closing"}
  BY <1>0, <1>5
<1>13. /\ \A p \in periodos : p.creado \in Requests /\ p.desactivado \in Requests \cup {Nobody}
       /\ \A s \in Requests : \A p \in found[s] : p.creado \in Requests
  BY <1>0, PeriodoType DEF TypeOK
<1>14. CloseInv'
  BY <1>1, <1>9, <1>12, <1>13
     DEF IInv, CloseInv, LocksHold, FoundAreCommitted, FoundAreKept
<1>15. DoneInv'
  <2>1. \A s \in Requests : pc[s] = "added" => opened'[s] = opened[s]
    BY <1>0, <1>6
  <2>2. Receipts'
    BY <1>0, <1>1, <1>12, <1>13, <2>1 DEF Receipts
  <2>3. ClosersLeaveNoneOpen' /\ SingleClosuresRunForward'
    BY <1>1, <1>12 DEF IInv, DoneInv, ClosersLeaveNoneOpen, SingleClosuresRunForward
  <2> QED
    BY <2>2, <2>3 DEF DoneInv
<1> QED
  BY <1>7, <1>8, <1>10, <1>11, <1>14, <1>15 DEF IInv

\* The last row of an alta or an import is in: COMMIT.
LEMMA CommitOpenedStep == ASSUME IInv, NEW r \in Requests, CommitOpened(r) PROVE IInv'
<1>0. TypeOK /\ StagesAreSound /\ Receipts /\ pc[r] = "looking"
  BY DEF IInv, DoneInv, CommitOpened
<1>1. /\ periodos' = periodos \cup opened[r] /\ Goto(r, "added")
      /\ UNCHANGED <<now, kind, opening, closing, stamp>>
  BY DEF CommitOpened
<1>2. /\ pc' \in [Requests -> {"idle"} \cup Running \cup Ended] /\ pc'[r] = "added"
      /\ \A s \in Requests \ {r} : pc'[s] = pc[s]
  BY <1>0, <1>1, PcUpdate DEF Ended
<1>3. TypeOK'
  BY <1>0, <1>1, <1>2 DEF TypeOK
<1>4. StagesAreSound'
  BY <1>0, <1>1, <1>2 DEF StagesAreSound
<1>5. \A p \in opened[r] : /\ p.creado = r /\ p.baja = 0 /\ p.desactivado = Nobody /\ p.alta < now
                           /\ p \in Periodo
  BY <1>0 DEF IInv, RowInv, OpenedAreOwn, TypeOK
<1>6. /\ \A p \in periodos : /\ p.creado \in Requests \ {r}
                             /\ p.desactivado \in Requests \cup {Nobody}
                             /\ p \in Periodo
      /\ \A s \in Requests : \A p \in found[s] : p.creado \in Requests
  BY <1>0, PeriodoType DEF Receipts, TypeOK
<1>7. \A s \in Requests : pc'[s] \in Running => s # r /\ pc[s] \in Running
  BY <1>2 DEF Running
<1>8. IndexInv'
  <2>1. ASSUME NEW p \in opened[r]
        PROVE  /\ \A q \in periodos : q.matricula = p.matricula => q.baja # 0
               /\ \A s \in Requests : pc[s] \in Running =>
                    \A q \in opened[s] : q.matricula = p.matricula => q = p
    BY <1>0 DEF IInv, IndexInv, PendingIsAlone, Activos, Running
  <2>2. OneOpenPeriod'
    BY <1>0, <1>1, <2>1 DEF IInv, IndexInv, OneOpenPeriod, Running
  <2>3. ASSUME NEW s \in Requests, pc'[s] \in Running, NEW p \in opened[s]
        PROVE  /\ Activos(p.matricula)' = {}
               /\ \A u \in Requests : pc'[u] \in Running =>
                    \A q \in opened[u] : q.matricula = p.matricula => q = p
    <3>1. s # r /\ pc[s] \in Running
      BY <1>7, <2>3
    <3>2. /\ Activos(p.matricula) = {}
          /\ \A u \in Requests : pc[u] \in Running =>
                    \A q \in opened[u] : q.matricula = p.matricula => q = p
      BY <3>1 DEF IInv, IndexInv, PendingIsAlone
    <3>3. \A q \in opened[r] : q.matricula # p.matricula
      <4>1. \A q \in opened[r] : q.matricula = p.matricula => q = p
        BY <1>0, <3>2 DEF Running
      <4>2. p.creado = s
        BY DEF IInv, RowInv, OpenedAreOwn
      <4> QED
        BY <1>5, <3>1, <4>1, <4>2
    <3> QED
      BY <1>1, <1>7, <3>2, <3>3 DEF Activos
  <2>4. PendingIsAlone'
    BY <1>1, <2>3 DEF PendingIsAlone
  <2> QED
    BY <2>2, <2>4 DEF IndexInv
<1>9. RowInv'
  <2>1. RowsAreSound'
    BY <1>1, <1>5 DEF IInv, RowInv, RowsAreSound
  <2>2. AltasIdentify'
    BY <1>1, <1>6 DEF IInv, RowInv, AltasIdentify, OpenedAreOwn
  <2>3. StampsAreFresh'
    BY <1>1, <1>2 DEF IInv, RowInv, StampsAreFresh
  <2>4. OpenedAreOwn'
    <3>1. ASSUME NEW s \in Requests, NEW p \in opened[s], NEW q \in opened[r], q.alta = p.alta
          PROVE  q.creado = s
      BY <3>1 DEF IInv, RowInv, OpenedAreOwn
    <3> QED
      BY <1>1, <3>1 DEF IInv, RowInv, OpenedAreOwn
  <2> QED
    BY <2>1, <2>2, <2>3, <2>4 DEF RowInv
<1>10. CloseInv'
  <2>1. LocksHold'
    BY <1>1, <1>2, <1>7 DEF IInv, CloseInv, LocksHold
  <2>2. FoundAreCommitted'
    BY <1>1, <1>2, <1>6 DEF IInv, CloseInv, FoundAreCommitted
  <2>3. \A s \in Requests : \A p \in found[s] : p \notin opened[r]
    BY <1>0, <1>5 DEF IInv, CloseInv, FoundAreCommitted
  <2>4. FoundAreKept'
    BY <1>1, <1>2, <2>3 DEF IInv, CloseInv, FoundAreKept
  <2> QED
    BY <2>1, <2>2, <2>4 DEF CloseInv
<1>11. DoneInv'
  <2>1. Receipts'
    <3>1. ASSUME NEW p \in periodos'
          PROVE  pc'[p.creado] = "added" /\ \E q \in opened[p.creado] : q.alta = p.alta
      BY <1>0, <1>1, <1>2, <1>5, <1>6 DEF Receipts
    <3>2. ASSUME NEW s \in Requests, pc'[s] = "added", NEW q \in opened[s]
          PROVE  \E p \in periodos' : p.creado = s /\ p.alta = q.alta
      BY <1>0, <1>1, <1>2, <1>5, <3>2 DEF Receipts
    <3>3. ASSUME NEW p \in periodos', p.desactivado # Nobody
          PROVE  pc'[p.desactivado] = "closed" /\ \E q \in locked[p.desactivado] : q.alta = p.alta
      BY <1>0, <1>1, <1>2, <1>5, <1>6, <3>3 DEF Receipts
    <3>4. ASSUME NEW s \in Requests, pc'[s] = "closed", NEW q \in locked[s]
          PROVE  \E p \in periodos' : p.desactivado = s /\ p.alta = q.alta
      BY <1>0, <1>1, <1>2, <3>4 DEF Receipts
    <3> QED
      BY <1>1, <3>1, <3>2, <3>3, <3>4 DEF Receipts
  <2>2. \A s \in Requests : \A p \in found[s] : p \notin opened[r]
    BY <1>0, <1>5 DEF IInv, CloseInv, FoundAreCommitted
  <2>3. ClosersLeaveNoneOpen'
    BY <1>1, <1>2, <2>2 DEF IInv, DoneInv, ClosersLeaveNoneOpen
  <2>4. SingleClosuresRunForward'
    BY <1>1, <1>5 DEF IInv, DoneInv, SingleClosuresRunForward
  <2> QED
    BY <2>1, <2>3, <2>4 DEF DoneInv
<1> QED
  BY <1>3, <1>4, <1>8, <1>9, <1>10, <1>11 DEF IInv
-----------------------------------------------------------------------------
(***************************************************************************)
(* The bajas.                                                              *)
(***************************************************************************)
\* A scan is a sequence of what it scans, and meets all of it.
LEMMA ScanType ==
  ASSUME NEW S, NEW q \in Scans(S)
  PROVE  /\ q \in Seq(S)
         /\ \A i \in DOMAIN q : q[i] \in S
         /\ \A x \in S : \E i \in DOMAIN q : q[i] = x
<1>1. PICK n \in 0 .. Cardinality(S) : q \in [1 .. n -> S]
  BY DEF Scans
<1>2. n \in Nat
  BY <1>1
<1>3. q \in Seq(S)
  BY <1>1, <1>2
<1>4. S = { q[i] : i \in DOMAIN q }
  BY DEF Scans
<1> QED
  BY <1>3, <1>4

\* What the closers do among themselves disturbs neither rows nor openers.
LEMMA CloserHolds ==
  ASSUME IInv, TypeOK', StagesAreSound', CloseInv', NEW r \in Requests,
         UNCHANGED <<now, periodos, kind, opened, stamp>>,
         \A s \in Requests \ {r} : pc'[s] = pc[s] /\ locked'[s] = locked[s] /\ found'[s] = found[s],
         pc[r] \in {"finding", "locking"}, pc'[r] = "locking"
  PROVE  IInv'
<1>0. TypeOK /\ Receipts
  BY DEF IInv, DoneInv
<1>1. \A s \in Requests : pc'[s] \in Running <=> pc[s] \in Running
  BY DEF Running
<1>2. \A s \in Requests : pc[s] \in Ended \/ pc'[s] \in Ended => s # r
  BY DEF Ended
<1>3. IndexInv'
  BY <1>1 DEF IInv, IndexInv, OneOpenPeriod, PendingIsAlone, Activos
<1>4. RowInv'
  BY DEF IInv, RowInv, RowsAreSound, AltasIdentify, StampsAreFresh, OpenedAreOwn
<1>5. \A p \in periodos : p.creado \in Requests /\ p.desactivado \in Requests \cup {Nobody}
  BY <1>0, PeriodoType DEF TypeOK
<1>6. Receipts'
  BY <1>0, <1>2, <1>5 DEF Receipts, Ended
<1>7. ClosersLeaveNoneOpen' /\ SingleClosuresRunForward'
  BY <1>2 DEF IInv, DoneInv, ClosersLeaveNoneOpen, SingleClosuresRunForward, Ended
<1> QED
  BY <1>3, <1>4, <1>6, <1>7 DEF IInv, DoneInv

LEMMA FindOpenStep == ASSUME IInv, NEW r \in Requests, FindOpen(r) PROVE IInv'
<1> DEFINE F == UNION { Activos(m) : m \in wanted[r] }
<1>0. TypeOK /\ StagesAreSound /\ Receipts /\ pc[r] = "finding"
  BY DEF IInv, DoneInv, FindOpen
<1>1. PICK q \in Scans(F) : queue' = [queue EXCEPT ![r] = q]
  BY DEF FindOpen
<1>2. /\ found' = [found EXCEPT ![r] = F] /\ Goto(r, "locking")
      /\ UNCHANGED <<now, periodos, kind, opening, wanted, locked, stamp>>
  BY DEF FindOpen
<1>3. F \subseteq periodos /\ \A p \in F : p.baja = 0
  BY DEF Activos
<1>4. F \subseteq Periodo
  BY <1>0, <1>3 DEF TypeOK
<1> HIDE DEF F
<1>5. /\ q \in Seq(Periodo) /\ \A i \in DOMAIN q : q[i] \in F
      /\ \A x \in F : \E i \in DOMAIN q : q[i] = x
  BY <1>4, ScanType
<1>6. /\ pc' \in [Requests -> {"idle"} \cup Running \cup Ended] /\ pc'[r] = "locking"
      /\ \A s \in Requests \ {r} : pc'[s] = pc[s]
  BY <1>0, <1>2, PcUpdate DEF Running
<1>7. /\ found' \in [Requests -> SUBSET Periodo] /\ found'[r] = F
      /\ queue' \in [Requests -> Seq(Periodo)] /\ queue'[r] = q
      /\ \A s \in Requests \ {r} : found'[s] = found[s] /\ queue'[s] = queue[s]
  BY <1>0, <1>1, <1>2, <1>4, <1>5 DEF TypeOK
<1>8. TypeOK'
  BY <1>0, <1>2, <1>6, <1>7 DEF TypeOK
<1>9. StagesAreSound'
  BY <1>0, <1>2, <1>6, <1>7 DEF StagesAreSound
<1>10. CloseInv'
  <2>1. LocksHold'
    BY <1>0, <1>2, <1>6 DEF IInv, CloseInv, LocksHold, Running
  <2>2. ASSUME NEW s \in Requests, NEW p \in found'[s] PROVE p.baja = 0 /\ pc'[p.creado] = "added"
    <3>1. p.creado \in Requests
      BY <1>7, PeriodoType
    <3>2. p.baja = 0 /\ pc[p.creado] = "added"
      <4>1. CASE s = r
        BY <1>0, <1>3, <1>7, <4>1 DEF Receipts
      <4>2. CASE s # r
        BY <1>7, <4>2 DEF IInv, CloseInv, FoundAreCommitted
      <4> QED
        BY <4>1, <4>2
    <3> QED
      BY <1>0, <1>6, <3>1, <3>2
  <2>3. FoundAreCommitted'
    BY <1>5, <1>7, <2>2 DEF IInv, CloseInv, FoundAreCommitted
  <2>4. ASSUME NEW s \in Requests, pc'[s] \in {"locking", "closing"}, NEW p \in found'[s] \cap periodos
        PROVE  p \in locked[s] \/ \E i \in DOMAIN queue'[s] : queue'[s][i] = p
    <3>1. CASE s = r
      BY <1>5, <1>7, <3>1
    <3>2. CASE s # r
      BY <1>6, <1>7, <2>4, <3>2 DEF IInv, CloseInv, FoundAreKept
    <3> QED
      BY <3>1, <3>2
  <2>5. FoundAreKept'
    BY <1>2, <2>4 DEF FoundAreKept
  <2> QED
    BY <2>1, <2>3, <2>5 DEF CloseInv
<1> QED
  BY <1>0, <1>2, <1>6, <1>7, <1>8, <1>9, <1>10, CloserHolds

LEMMA LockNextStep == ASSUME IInv, NEW r \in Requests, LockNext(r) PROVE IInv'
<1> DEFINE h == Head(queue[r])
           L == locked[r] \cup ({h} \cap periodos)
<1>0. TypeOK /\ StagesAreSound /\ pc[r] = "locking" /\ queue[r] # <<>>
  BY DEF IInv, LockNext
<1>1. /\ \A s \in Requests \ {r} : ~Holds(s, h)
      /\ queue' = [queue EXCEPT ![r] = Tail(@)]
      /\ locked' = [locked EXCEPT ![r] = L]
      /\ UNCHANGED <<now, periodos, pc, kind, opening, wanted, found, stamp>>
  BY DEF LockNext
<1>2. /\ queue[r] \in Seq(Periodo) /\ h = queue[r][1] /\ 1 \in DOMAIN queue[r] /\ h \in Periodo
      /\ Tail(queue[r]) \in Seq(Periodo)
      /\ \A i \in DOMAIN Tail(queue[r]) :
           i + 1 \in DOMAIN queue[r] /\ Tail(queue[r])[i] = queue[r][i + 1]
      /\ \A k \in DOMAIN queue[r] :
           k = 1 \/ (k - 1 \in DOMAIN Tail(queue[r]) /\ (k - 1) + 1 = k)
  BY <1>0 DEF TypeOK
<1>3. h \in found[r] /\ h.baja = 0
  BY <1>2 DEF IInv, CloseInv, FoundAreCommitted
<1>4. L \subseteq Periodo
  BY <1>0, <1>2 DEF TypeOK
<1>5. \A p \in L : p \in locked[r] \/ (p = h /\ h \in periodos)
  OBVIOUS
<1>6. locked[r] \subseteq L /\ (h \in periodos => h \in L)
  OBVIOUS
<1> HIDE DEF h, L
<1>7. /\ queue' \in [Requests -> Seq(Periodo)] /\ queue'[r] = Tail(queue[r])
      /\ locked' \in [Requests -> SUBSET Periodo] /\ locked'[r] = L
      /\ \A s \in Requests \ {r} : queue'[s] = queue[s] /\ locked'[s] = locked[s]
  BY <1>0, <1>1, <1>2, <1>4 DEF TypeOK
<1>8. TypeOK'
  BY <1>0, <1>1, <1>7 DEF TypeOK
<1>9. StagesAreSound'
  BY <1>0, <1>1, <1>7 DEF StagesAreSound
<1>10. CloseInv'
  <2>1. ASSUME NEW s \in Requests, pc[s] \in Running, NEW p \in locked'[s]
        PROVE  /\ p \in periodos /\ p.baja = 0
               /\ \A u \in Requests \ {s} : pc[u] \in Running => p \notin locked'[u]
    <3>1. \A u \in Requests \ {r} : pc[u] \in Running => h \notin locked[u]
      BY <1>1 DEF Holds
    <3>2. \A u \in Requests : pc[u] \in Running => \A x \in locked[u] :
            /\ x \in periodos /\ x.baja = 0
            /\ \A v \in Requests \ {u} : pc[v] \in Running => x \notin locked[v]
      BY DEF IInv, CloseInv, LocksHold
    <3>3. pc[r] \in Running
      BY <1>0 DEF Running
    <3>4. CASE s = r
      BY <1>3, <1>5, <1>7, <2>1, <3>1, <3>2, <3>3, <3>4
    <3>5. CASE s # r
      <4>1. p \in locked[s]
        BY <1>7, <2>1, <3>5
      <4>2. p \in periodos /\ p.baja = 0 /\ p \notin locked[r]
        BY <2>1, <3>2, <3>3, <3>5, <4>1
      <4>3. p # h
        BY <2>1, <3>1, <3>5, <4>1
      <4>4. p \notin locked'[r]
        BY <1>5, <1>7, <4>2, <4>3
      <4>5. ASSUME NEW u \in Requests \ {s}, pc[u] \in Running, u # r PROVE p \notin locked'[u]
        BY <1>7, <2>1, <3>2, <4>1, <4>5
      <4> QED
        BY <4>2, <4>4, <4>5
    <3> QED
      BY <3>4, <3>5
  <2>2. LocksHold'
    BY <1>1, <2>1 DEF LocksHold
  <2>3. FoundAreCommitted'
    BY <1>1, <1>2, <1>7 DEF IInv, CloseInv, FoundAreCommitted
  <2>4. ASSUME NEW s \in Requests, pc[s] \in {"locking", "closing"}, NEW p \in found[s] \cap periodos
        PROVE  p \in locked'[s] \/ \E i \in DOMAIN queue'[s] : queue'[s][i] = p
    <3>1. p \in locked[s] \/ \E i \in DOMAIN queue[s] : queue[s][i] = p
      BY <2>4 DEF IInv, CloseInv, FoundAreKept
    <3>2. CASE s = r
      <4>1. CASE p \in locked[r] \/ p = h
        BY <1>6, <1>7, <3>2, <4>1
      <4>2. CASE p \notin locked[r] /\ p # h
        <5>1. PICK i \in DOMAIN queue[r] : queue[r][i] = p
          BY <3>1, <3>2, <4>2
        <5>2. i - 1 \in DOMAIN Tail(queue[r]) /\ Tail(queue[r])[i - 1] = p
          BY <1>2, <4>2, <5>1
        <5> QED
          BY <1>7, <3>2, <5>2
      <4> QED
        BY <4>1, <4>2
    <3>3. CASE s # r
      BY <1>7, <3>1, <3>3
    <3> QED
      BY <3>2, <3>3
  <2>5. FoundAreKept'
    BY <1>1, <2>4 DEF FoundAreKept
  <2> QED
    BY <2>2, <2>3, <2>5 DEF CloseInv
<1> QED
  BY <1>0, <1>1, <1>7, <1>8, <1>9, <1>10, CloserHolds

\* The rows it locked are closed: COMMIT.
LEMMA CommitClosedStep == ASSUME IInv, NEW r \in Requests, CommitClosed(r) PROVE IInv'
<1> DEFINE ids == { p.alta : p \in locked[r] }
<1>0. TypeOK /\ StagesAreSound /\ Receipts
  BY DEF IInv, DoneInv
<1>1. /\ periodos' = { p \in periodos : p.alta \notin ids } \cup
                     { Close(p, r) : p \in { q \in periodos : q.alta \in ids } }
      /\ Goto(r, "closed")
      /\ UNCHANGED <<now, kind, opening, closing, stamp>>
  BY DEF CommitClosed
<1>2. /\ pc[r] \in {"locking", "closing"} /\ pc[r] \in Running /\ queue[r] = <<>>
      /\ stamp[r] \in Nat \ {0} /\ stamp[r] < now /\ now \in Nat
      /\ kind[r] = "one" => \A p \in locked[r] : p.alta < stamp[r]
  BY <1>0 DEF CommitClosed, StagesAreSound, TypeOK, Running, IInv, RowInv, StampsAreFresh
<1>3. /\ pc' \in [Requests -> {"idle"} \cup Running \cup Ended] /\ pc'[r] = "closed"
      /\ \A s \in Requests \ {r} : pc'[s] = pc[s]
  BY <1>0, <1>1, PcUpdate DEF Ended
\* Which rows these are.
<1>4. \A p \in locked[r] :
        /\ p \in periodos /\ p \in Periodo /\ p.baja = 0 /\ p.desactivado = Nobody
        /\ \A s \in Requests \ {r} : pc[s] \in Running => p \notin locked[s]
  BY <1>0, <1>2 DEF IInv, CloseInv, LocksHold, RowInv, RowsAreSound, TypeOK
<1>5. \A p \in periodos : p.alta \in ids <=> p \in locked[r]
  BY <1>4 DEF IInv, RowInv, AltasIdentify
<1>6. \A p \in Periodo :
        LET x == Close(p, r) IN
        /\ x \in Periodo /\ x.matricula = p.matricula /\ x.alta = p.alta
        /\ x.creado = p.creado /\ x.baja = stamp[r] /\ x.desactivado = r
  BY <1>2 DEF Close, Periodo
<1>7. \A x \in periodos' :
        \/ x \in periodos /\ x \notin locked[r]
        \/ \E p \in locked[r] :
             /\ x = Close(p, r) /\ p \in periodos /\ x \in Periodo /\ x.matricula = p.matricula
             /\ x.alta = p.alta /\ x.creado = p.creado /\ x.baja = stamp[r] /\ x.desactivado = r
  BY <1>1, <1>4, <1>5, <1>6
<1>8. /\ \A p \in periodos : p \in locked[r] \/ p \in periodos'
      /\ \A p \in locked[r] : Close(p, r) \in periodos'
  BY <1>1, <1>4, <1>5
<1> HIDE DEF ids
<1>9. \A x \in periodos' : x.baja = 0 => x \in periodos /\ x \notin locked[r]
  BY <1>2, <1>7
<1>10. \A x \in periodos : x \in Periodo /\ x.creado \in Requests \ {r} /\ x.desactivado \in Requests \cup {Nobody}
                           /\ x.desactivado # r
  BY <1>0, <1>2, PeriodoType, NobodyAssumption DEF TypeOK, Receipts, Running
<1>11. \A s \in Requests : pc'[s] \in Running => s # r /\ pc[s] \in Running
  BY <1>3 DEF Running
<1>12. TypeOK'
  <2>1. periodos' \subseteq Periodo
    BY <1>7, <1>10
  <2> QED
    BY <1>0, <1>1, <1>3, <2>1 DEF TypeOK
<1>13. StagesAreSound'
  BY <1>0, <1>1, <1>3 DEF StagesAreSound
<1>14. IndexInv'
  <2>1. OneOpenPeriod'
    BY <1>9 DEF IInv, IndexInv, OneOpenPeriod
  <2>2. \A m : Activos(m) = {} => Activos(m)' = {}
    BY <1>9 DEF Activos
  <2>3. PendingIsAlone'
    BY <1>1, <1>11, <2>2 DEF IInv, IndexInv, PendingIsAlone
  <2> QED
    BY <2>1, <2>3 DEF IndexInv
<1>15. RowInv'
  <2>1. RowsAreSound'
    BY <1>1, <1>2, <1>4, <1>7, NobodyAssumption DEF IInv, RowInv, RowsAreSound
  <2>2. AltasIdentify'
    BY <1>7 DEF IInv, RowInv, AltasIdentify
  <2>3. \A x \in periodos' : \E p \in periodos : x.alta = p.alta /\ x.creado = p.creado
    BY <1>7
  <2>4. StampsAreFresh'
    BY <1>1, <1>3, <2>3 DEF IInv, RowInv, StampsAreFresh
  <2>5. OpenedAreOwn'
    BY <1>1, <2>3 DEF IInv, RowInv, OpenedAreOwn
  <2> QED
    BY <2>1, <2>2, <2>4, <2>5 DEF RowInv
<1>16. CloseInv'
  <2>1. LocksHold'
    <3> SUFFICES ASSUME NEW s \in Requests, pc'[s] \in Running, NEW p \in locked[s]
                 PROVE  /\ p \in periodos' /\ p.baja = 0
                        /\ \A u \in Requests \ {s} : pc'[u] \in Running => p \notin locked[u]
      BY <1>1 DEF LocksHold
    <3>1. s # r /\ pc[s] \in Running
      BY <1>11
    <3>2. /\ p \in periodos /\ p.baja = 0
          /\ \A u \in Requests \ {s} : pc[u] \in Running => p \notin locked[u]
      BY <3>1 DEF IInv, CloseInv, LocksHold
    <3> QED
      BY <1>2, <1>8, <1>11, <3>1, <3>2
  <2>2. FoundAreCommitted'
    <3>1. \A s \in Requests : \A p \in found[s] : p.creado \in Requests
      BY <1>0, PeriodoType DEF TypeOK
    <3>2. pc[r] # "added"
      BY <1>2
    <3> QED
      BY <1>1, <1>3, <3>1, <3>2 DEF IInv, CloseInv, FoundAreCommitted
  <2>3. \A s \in Requests : \A p \in found[s] : p.baja = 0
    BY DEF IInv, CloseInv, FoundAreCommitted
  <2>4. FoundAreKept'
    BY <1>1, <1>3, <1>9, <2>3 DEF IInv, CloseInv, FoundAreKept
  <2> QED
    BY <2>1, <2>2, <2>4 DEF CloseInv
<1>17. DoneInv'
  <2>1. Receipts'
    <3>1. ASSUME NEW x \in periodos'
          PROVE  pc'[x.creado] = "added" /\ \E q \in opened[x.creado] : q.alta = x.alta
      <4>1. PICK p \in periodos : x.alta = p.alta /\ x.creado = p.creado
        BY <1>7
      <4> QED
        BY <1>0, <1>3, <1>10, <4>1 DEF Receipts
    <3>2. ASSUME NEW s \in Requests, pc'[s] = "added", NEW q \in opened[s]
          PROVE  \E x \in periodos' : x.creado = s /\ x.alta = q.alta
      <4>1. PICK p \in periodos : p.creado = s /\ p.alta = q.alta
        BY <1>0, <1>3, <3>2 DEF Receipts
      <4> QED
        BY <1>4, <1>6, <1>8, <4>1
    <3>3. ASSUME NEW x \in periodos', x.desactivado # Nobody
          PROVE  pc'[x.desactivado] = "closed" /\ \E q \in locked[x.desactivado] : q.alta = x.alta
      BY <1>0, <1>3, <1>7, <1>10, <3>3 DEF Receipts
    <3>4. ASSUME NEW s \in Requests, pc'[s] = "closed", NEW q \in locked[s]
          PROVE  \E x \in periodos' : x.desactivado = s /\ x.alta = q.alta
      <4>1. CASE s = r
        BY <1>4, <1>6, <1>8, <3>4, <4>1
      <4>2. CASE s # r
        <5>1. PICK p \in periodos : p.desactivado = s /\ p.alta = q.alta
          BY <1>0, <1>3, <3>4, <4>2 DEF Receipts
        <5>2. p \notin locked[r]
          BY <1>4, <5>1, NobodyAssumption
        <5> QED
          BY <1>8, <5>1, <5>2
      <4> QED
        BY <4>1, <4>2
    <3> QED
      BY <1>1, <3>1, <3>2, <3>3, <3>4 DEF Receipts
  <2>2. ClosersLeaveNoneOpen'
    <3> SUFFICES ASSUME NEW s \in Requests, pc'[s] \in {"closed", "not_found"},
                        NEW p \in found[s], p \in periodos'
                 PROVE  FALSE
      BY <1>1 DEF ClosersLeaveNoneOpen
    <3>1. p \in periodos /\ p \notin locked[r]
      BY <1>9 DEF IInv, CloseInv, FoundAreCommitted
    <3>2. CASE s = r
      BY <1>2, <3>1, <3>2 DEF IInv, CloseInv, FoundAreKept
    <3>3. CASE s # r
      BY <1>3, <3>1, <3>3 DEF IInv, DoneInv, ClosersLeaveNoneOpen
    <3> QED
      BY <3>2, <3>3
  <2>3. SingleClosuresRunForward'
    <3> SUFFICES ASSUME NEW x \in periodos', x.baja # 0, kind[x.desactivado] = "one"
                 PROVE  x.alta < x.baja
      BY <1>1 DEF SingleClosuresRunForward
    <3>1. CASE x \in periodos
      BY <3>1 DEF IInv, DoneInv, SingleClosuresRunForward
    <3>2. CASE x \notin periodos
      BY <1>2, <1>7, <3>2
    <3> QED
      BY <3>1, <3>2
  <2> QED
    BY <2>1, <2>2, <2>3 DEF DoneInv
<1> QED
  BY <1>12, <1>13, <1>14, <1>15, <1>16, <1>17 DEF IInv
-----------------------------------------------------------------------------
\* Nothing changes.
LEMMA StutterStep == ASSUME IInv, UNCHANGED vars PROVE IInv'
BY DEF vars, IInv, TypeOK, StagesAreSound, IndexInv, OneOpenPeriod, PendingIsAlone, Activos,
   RowInv, RowsAreSound, AltasIdentify, StampsAreFresh, OpenedAreOwn, CloseInv, LocksHold,
   FoundAreCommitted, FoundAreKept, DoneInv, Receipts, ClosersLeaveNoneOpen,
   SingleClosuresRunForward

\* Every step keeps the invariant.
LEMMA NextHolds == ASSUME IInv, [Next]_vars PROVE IInv'
<1>1. ASSUME NEW r \in Requests, Arrive(r) \/ Step(r) \/ Fail(r) PROVE IInv'
  <2>1. CASE Arrive(r)
    BY <2>1, ArriveStep
  <2>2. CASE SkipInvalid(r) \/ LookForActive(r) \/ NotFound(r)
    BY <2>2, SkipInvalidStep, LookForActiveStep, NotFoundStep
  <2>3. CASE DeadlockVictim(r) \/ Fail(r)
    BY <2>3, FailStep
  <2>4. CASE StampAlta(r) \/ StampBulk(r) \/ CloseOne(r)
    BY <2>4, StampStep
  <2>5. CASE Insert(r) \/ CommitOpened(r)
    BY <2>5, ConflictStep, InsertStep, CommitOpenedStep
  <2>6. CASE FindOpen(r) \/ LockNext(r) \/ CommitClosed(r)
    BY <2>6, FindOpenStep, LockNextStep, CommitClosedStep
  <2> QED
    BY <1>1, <2>1, <2>2, <2>3, <2>4, <2>5, <2>6 DEF Step
<1> QED
  BY <1>1, StutterStep DEF Next

\* The inductive invariant of Mentores.
THEOREM Invariance == Spec => []IInv
BY InitHolds, NextHolds, PTL DEF Spec

\* Every variable keeps its type.
THEOREM TypeCorrect == Spec => []TypeOK
<1>1. IInv => TypeOK
  BY DEF IInv
<1> QED
  BY <1>1, Invariance, PTL

\* The partial unique index and the waits it imposes keep at most one period of a
\* matricula open, whatever add_or_reactivate saw when it looked.
THEOREM OnePeriodIsOpen == Spec => []OneOpenPeriod
<1>1. IInv => OneOpenPeriod
  BY DEF IInv, IndexInv
<1> QED
  BY <1>1, Invariance, PTL

\* The administrator is told what the table shows, and a failed import has left
\* nothing.
THEOREM ReceiptsHold == Spec => []ReceiptsAreTrue
<1>1. IInv => ReceiptsAreTrue
  BY ReceiptsByRow DEF IInv, DoneInv
<1> QED
  BY <1>1, Invariance, PTL

\* After a baja nothing that its statement found is open.
THEOREM NoneIsLeftOpen == Spec => []ClosersLeaveNoneOpen
<1>1. IInv => ClosersLeaveNoneOpen
  BY DEF IInv, DoneInv
<1> QED
  BY <1>1, Invariance, PTL

\* deactivate, which stamps under its lock, closes no period before it began.
THEOREM ClosuresRunForward == Spec => []SingleClosuresRunForward
<1>1. IInv => SingleClosuresRunForward
  BY DEF IInv, DoneInv
<1> QED
  BY <1>1, Invariance, PTL

\* A closed period is never written again: the statements that waited for its row
\* test it once more.
THEOREM HistoryIsFinal == Spec => ClosedForGood
<1>1. ASSUME IInv, [Next]_vars PROVE [\A p \in periodos : p.baja # Open => p \in periodos']_periodos
  <2>1. ASSUME NEW r \in Requests, CommitClosed(r), NEW p \in periodos, p.baja # Open
        PROVE  p \in periodos'
    <3>1. pc[r] \in Running
      BY <2>1 DEF CommitClosed, Running
    <3>2. \A q \in locked[r] : q \in periodos /\ q.baja = 0
      BY <1>1, <3>1 DEF IInv, CloseInv, LocksHold
    <3>3. p.alta \notin { q.alta : q \in locked[r] }
      BY <1>1, <2>1, <3>2 DEF IInv, RowInv, AltasIdentify
    <3> QED
      BY <2>1, <3>3 DEF CommitClosed
  <2>2. ASSUME NEW r \in Requests, Arrive(r) \/ Step(r) \/ Fail(r)
        PROVE  CommitClosed(r) \/ periodos \subseteq periodos'
    BY <2>2 DEF Arrive, Add, Import, Deactivate, DeactivateMany, DeactivateAll, Start,
       Step, SkipInvalid, LookForActive, StampAlta, Insert, CommitOpened, StampBulk, FindOpen, LockNext, NotFound,
       CloseOne, DeadlockVictim, Fail
  <2> QED
    BY <1>1, <2>1, <2>2 DEF Next, vars
<1> QED
  BY <1>1, Invariance, PTL DEF Spec, ClosedForGood
-----------------------------------------------------------------------------
(***************************************************************************)
(* The promise to who reads the catalogue: a COMMIT is a step of Padron.   *)
(***************************************************************************)
\* The periods an alta or an import commits are new, its own, and in nobody's way.
LEMMA CommitEnrols ==
  ASSUME IInv, NEW r \in Requests, CommitOpened(r)
  PROVE  Table!Enrol(r, periodos' \ periodos)
<1> DEFINE new == periodos' \ periodos
<1>1. /\ TypeOK /\ Receipts /\ pc[r] = "looking" /\ pc[r] \in Running
      /\ periodos' = periodos \cup opened[r]
  BY DEF IInv, DoneInv, CommitOpened, Running
<1>2. new \subseteq opened[r] /\ periodos' = periodos \cup new
  BY <1>1
<1>3. \A q \in periodos : q.creado # r
  BY <1>1 DEF Receipts
<1>4. ASSUME NEW p \in new
      PROVE  /\ p.creado = r /\ Table!Abierto(p)
             /\ \A q \in periodos : q.alta # p.alta
             /\ \A q \in new : q.alta = p.alta => q = p
  BY <1>2, <1>3 DEF IInv, RowInv, OpenedAreOwn, Table!Abierto
<1>5. ASSUME NEW p \in new
      PROVE  /\ \A q \in periodos : ~(q.matricula = p.matricula /\ q.baja = 0)
             /\ \A q \in new : q.matricula = p.matricula => q = p
  <2>1. Activos(p.matricula) = {}
    BY <1>1, <1>2 DEF IInv, IndexInv, PendingIsAlone
  <2>2. \A q \in opened[r] : q.matricula = p.matricula => q = p
    BY <1>1, <1>2 DEF IInv, IndexInv, PendingIsAlone
  <2> QED
    BY <1>2, <2>1, <2>2 DEF Activos
<1> QED
  BY <1>2, <1>3, <1>4, <1>5 DEF Table!Enrol

\* The periods a baja commits are those it locked: open until now, and all at once.
LEMMA CommitDismisses ==
  ASSUME IInv, NEW r \in Requests, CommitClosed(r)
  PROVE  Table!Dismiss(r, periodos \ periodos', stamp[r]) /\
         (UNCHANGED periodos \/ \E p \in periodos' : p.baja = stamp[r])
<1> DEFINE ids == { p.alta : p \in locked[r] }
<1>0. TypeOK /\ StagesAreSound /\ Receipts
  BY DEF IInv, DoneInv
<1>1. /\ periodos' = { p \in periodos : p.alta \notin ids } \cup
                     { Close(p, r) : p \in { q \in periodos : q.alta \in ids } }
      /\ pc[r] \in {"locking", "closing"} /\ pc[r] \in Running
      /\ stamp[r] # 0
  BY <1>0 DEF CommitClosed, StagesAreSound, Running
<1>2. \A p \in locked[r] : p \in periodos /\ p \in Periodo /\ Table!Abierto(p)
  BY <1>0, <1>1 DEF IInv, CloseInv, LocksHold, RowInv, RowsAreSound, TypeOK, Table!Abierto
<1>3. \A p \in periodos : p.alta \in ids <=> p \in locked[r]
  BY <1>2 DEF IInv, RowInv, AltasIdentify
<1>4. periodos' = (periodos \ locked[r]) \cup { Close(p, r) : p \in locked[r] }
  <2>1. { p \in periodos : p.alta \notin ids } = periodos \ locked[r]
    BY <1>3
  <2>2. { q \in periodos : q.alta \in ids } = locked[r]
    BY <1>2, <1>3
  <2> QED
    BY <1>1, <2>1, <2>2
<1>5. \A p \in locked[r] : Close(p, r).baja = stamp[r]
  BY <1>2 DEF Close, Periodo
<1>6. periodos \ periodos' = locked[r]
  <2>1. \A p \in locked[r] : p.baja = 0
    BY <1>2 DEF Table!Abierto
  <2> QED
    BY <1>1, <1>2, <1>4, <1>5, <2>1
<1>7. \A q \in periodos : q.desactivado # r
  BY <1>0, <1>1, NobodyAssumption DEF Receipts
<1>8. Table!Dismiss(r, periodos \ periodos', stamp[r])
  BY <1>1, <1>2, <1>4, <1>6, <1>7 DEF Table!Dismiss, Close
<1>9. UNCHANGED periodos \/ \E p \in periodos' : p.baja = stamp[r]
  BY <1>4, <1>5
<1> QED
  BY <1>8, <1>9

\* Whatever the altas, imports and bajas see and wait for on their way, what they do
\* to the table is what the Padron allows: each one change, whole, and true of the
\* table it meets.
THEOREM KeepsThePadron == Spec => ImplementsPadron
<1>1. Init => Table!Start
  BY DEF Init, Table!Start
<1>2. IInv /\ [Next]_vars => [Table!Next]_periodos
  <2> SUFFICES ASSUME IInv, [Next]_vars PROVE Table!Next \/ UNCHANGED periodos
    OBVIOUS
  <2>1. ASSUME NEW r \in Requests, CommitOpened(r) PROVE Table!Next
    BY <2>1, CommitEnrols DEF Table!Next
  <2>2. ASSUME NEW r \in Requests, CommitClosed(r) PROVE Table!Next \/ UNCHANGED periodos
    BY <2>2, CommitDismisses DEF Table!Next
  <2>3. ASSUME NEW r \in Requests, Arrive(r) \/ Step(r) \/ Fail(r)
        PROVE  CommitOpened(r) \/ CommitClosed(r) \/ UNCHANGED periodos
    BY <2>3 DEF Arrive, Add, Import, Deactivate, DeactivateMany, DeactivateAll, Start,
       Step, SkipInvalid, LookForActive, StampAlta, Insert, StampBulk, FindOpen, LockNext, NotFound,
       CloseOne, DeadlockVictim, Fail
  <2> QED
    BY <2>1, <2>2, <2>3 DEF Next, vars
<1> QED
  BY <1>1, <1>2, Invariance, PTL DEF Spec, ImplementsPadron, Table!Contract
-----------------------------------------------------------------------------
(***************************************************************************)
(* Waiting.                                                                *)
(***************************************************************************)
\* Nothing is left of a sequence of one.
LEMMA LastOne ==
  ASSUME NEW S, NEW q \in Seq(S), Len(q) <= 1, q # <<>>
  PROVE  Tail(q) = <<>>
OBVIOUS

LEMMA NoneIsFew == Len(<<>>) = 0
OBVIOUS

\* The periods that an alta or an import inserts.
LEMMA OpenersStaySingle ==
  ASSUME TypeOK, SinglesAreSound, NEW r \in Requests,
         SkipInvalid(r) \/ LookForActive(r) \/ StampAlta(r) \/ Insert(r) \/ CommitOpened(r)
  PROVE  SinglesAreSound'
<1>1. /\ UNCHANGED <<kind, closing>>
      /\ \A s \in Requests \ {r} : pc'[s] = pc[s] /\ rows'[s] = rows[s] /\ opened'[s] = opened[s]
  BY DEF TypeOK, SkipInvalid, LookForActive, StampAlta, Insert, CommitOpened, Goto
<1>2. pc[r] \in {"looking", "stamping", "inserting"} /\ kind[r] \in {"add", "import"}
  BY DEF SinglesAreSound, SkipInvalid, LookForActive, StampAlta, Insert, CommitOpened
<1>3. /\ rows[r] \in Seq(Matriculas \cup {Malformed})
      /\ kind[r] = "add" => Len(rows[r]) <= 1 /\ (opened[r] # {} => rows[r] = <<>>)
  BY DEF TypeOK, SinglesAreSound
<1>4. ASSUME kind[r] = "add"
      PROVE  Len(rows'[r]) <= 1 /\ (opened'[r] # {} => rows'[r] = <<>>)
  <2>1. CASE UNCHANGED opening
    BY <1>3, <1>4, <2>1
  <2>2. CASE rows[r] # <<>> /\ rows' = [rows EXCEPT ![r] = Tail(@)]
    <3>1. rows'[r] = Tail(rows[r])
      BY <2>2 DEF TypeOK
    <3>2. rows[r] # <<>> /\ Len(rows[r]) <= 1
      BY <1>3, <1>4, <2>2
    <3>3. Tail(rows[r]) = <<>>
      BY <1>3, <3>2, LastOne
    <3> QED
      BY <3>1, <3>3
  <2>3. CASE Insert(r)
    <3>1. \/ UNCHANGED opening
          \/ rows' = [rows EXCEPT ![r] = Tail(@)] /\ rows[r] # <<>>
          \/ rows' = [rows EXCEPT ![r] = Tail(@)] /\ rows[r] = <<>>
      BY <2>3 DEF Insert
    <3>2. CASE rows' = [rows EXCEPT ![r] = Tail(@)] /\ rows[r] = <<>>
      <4>1. rows'[r] = Tail(<<>>)
        BY <3>2 DEF TypeOK
      <4> QED
        BY <4>1
    <3> QED
      BY <2>1, <2>2, <3>1, <3>2
  <2> QED
    BY <2>1, <2>2, <2>3 DEF SkipInvalid, LookForActive, StampAlta, CommitOpened
<1> QED
  BY <1>1, <1>2, <1>4 DEF SinglesAreSound

\* The scan of a baja of one mentor meets one row at most.
LEMMA OneRowToLock ==
  ASSUME TypeOK, OneOpenPeriod, NEW m \in Matriculas,
         NEW q \in Scans(UNION { Activos(k) : k \in {m} })
  PROVE  Len(q) <= 1
<1> DEFINE F == UNION { Activos(k) : k \in {m} }
<1>1. \A x, y \in F : x = y
  BY DEF Activos, OneOpenPeriod
<1>2. F = {} \/ \E x : F = {x}
  BY <1>1
<1>3. Cardinality(F) \in {0, 1}
  BY <1>2, FS_EmptySet, FS_Singleton
<1>4. PICK n \in 0 .. Cardinality(F) : q \in [1 .. n -> F]
  BY DEF Scans
<1> HIDE DEF F
<1>5. Len(q) = n /\ n <= 1
  BY <1>3, <1>4
<1> QED
  BY <1>5

\* The periods that a baja locks.
LEMMA ClosersStaySingle ==
  ASSUME TypeOK, StagesAreSound, OneOpenPeriod, SinglesAreSound, NEW r \in Requests,
         StampBulk(r) \/ FindOpen(r) \/ LockNext(r) \/ NotFound(r) \/ CloseOne(r) \/ CommitClosed(r)
  PROVE  SinglesAreSound'
<1>1. /\ UNCHANGED <<kind, opening, wanted>>
      /\ \A s \in Requests \ {r} : pc'[s] = pc[s] /\ queue'[s] = queue[s] /\ locked'[s] = locked[s]
  BY DEF TypeOK, StampBulk, FindOpen, LockNext, NotFound, CloseOne, CommitClosed, Goto
<1>2. pc'[r] \notin {"looking", "stamping", "inserting"}
  BY DEF TypeOK, StampBulk, FindOpen, LockNext, NotFound, CloseOne, CommitClosed, Goto
<1>3. ASSUME kind[r] = "one"
      PROVE  Len(queue'[r]) <= 1 /\ (queue'[r] # <<>> => locked'[r] = {})
  <2>1. CASE FindOpen(r)
    <3>1. PICK m \in Matriculas : wanted[r] = {m}
      BY <1>3 DEF SinglesAreSound
    <3>2. PICK q \in Scans(UNION { Activos(k) : k \in {m} }) : queue' = [queue EXCEPT ![r] = q]
      BY <2>1, <3>1 DEF FindOpen
    <3>3. queue'[r] = q
      BY <3>2 DEF TypeOK
    <3>4. locked'[r] = {}
      BY <2>1 DEF FindOpen, StagesAreSound
    <3>5. Len(q) <= 1
      BY <3>2, OneRowToLock
    <3> QED
      BY <3>3, <3>4, <3>5
  <2>2. CASE LockNext(r)
    <3>1. queue[r] \in Seq(Periodo) /\ Len(queue[r]) <= 1 /\ queue[r] # <<>>
      BY <1>3, <2>2 DEF TypeOK, SinglesAreSound, LockNext
    <3>2. queue'[r] = Tail(queue[r])
      BY <2>2 DEF TypeOK, LockNext
    <3>3. queue'[r] = <<>>
      BY <3>1, <3>2, LastOne
    <3>4. Len(queue'[r]) <= 1
      BY <3>3, NoneIsFew
    <3> QED
      BY <3>3, <3>4
  <2>3. CASE UNCHANGED closing
    BY <1>3, <2>3 DEF SinglesAreSound
  <2> QED
    BY <2>1, <2>2, <2>3 DEF StampBulk, NotFound, CloseOne, CommitClosed
<1> QED
  BY <1>1, <1>2, <1>3 DEF SinglesAreSound

LEMMA SinglesStaySound ==
  ASSUME TypeOK, StagesAreSound, OneOpenPeriod, SinglesAreSound, [Next]_vars
  PROVE  SinglesAreSound'
<1>1. ASSUME NEW r \in Requests, Arrive(r)
      PROVE  SinglesAreSound'
  <2> DEFINE Begins(k, ms, want, step) ==
               /\ Start(r, k, ms, want, step)
               /\ k = "add" => Len(ms) <= 1
               /\ k = "one" => \E m \in Matriculas : want = {m}
               /\ step = "looking" => k \in {"add", "import"}
               /\ step \in {"looking", "finding", "dating"}
  <2>1. \E k, ms, want, step : Begins(k, ms, want, step)
    <3>1. CASE Add(r)
      <4>1. PICK m \in Matriculas : Start(r, "add", <<m>>, {}, "looking")
        BY <3>1 DEF Add
      <4>2. Begins("add", <<m>>, {}, "looking")
        BY <4>1
      <4> QED
        BY <4>2
    <3>2. CASE Import(r)
      <4>1. PICK csv \in CSVs : Start(r, "import", csv, {}, "looking")
        BY <3>2 DEF Import
      <4>2. Begins("import", csv, {}, "looking")
        BY <4>1
      <4> QED
        BY <4>2
    <3>3. CASE Deactivate(r)
      <4>1. PICK m \in Matriculas : Start(r, "one", <<>>, {m}, "finding")
        BY <3>3 DEF Deactivate
      <4>2. Begins("one", <<>>, {m}, "finding")
        BY <4>1
      <4> QED
        BY <4>2
    <3>4. CASE DeactivateMany(r) \/ DeactivateAll(r)
      <4>1. PICK ms \in SUBSET Matriculas : Start(r, "bulk", <<>>, ms, "dating")
        BY <3>4 DEF DeactivateMany, DeactivateAll, Confirmable
      <4>2. Begins("bulk", <<>>, ms, "dating")
        BY <4>1
      <4> QED
        BY <4>2
    <3> QED
      BY <1>1, <3>1, <3>2, <3>3, <3>4 DEF Arrive
  <2>3. PICK k, ms, want, step : Begins(k, ms, want, step)
    BY <2>1
  <2>2. /\ pc[r] = "idle" /\ opened[r] = {} /\ locked[r] = {} /\ queue[r] = <<>>
        /\ kind'[r] = k /\ rows'[r] = ms /\ wanted'[r] = want /\ pc'[r] = step
        /\ \A s \in Requests \ {r} : /\ kind'[s] = kind[s] /\ rows'[s] = rows[s]
                                     /\ wanted'[s] = wanted[s] /\ pc'[s] = pc[s]
        /\ UNCHANGED <<opened, queue, locked>>
    BY <2>3 DEF Start, Goto, TypeOK, StagesAreSound
  <2>4. /\ step = "looking" => k \in {"add", "import"}
        /\ k = "add" => Len(ms) <= 1
        /\ k = "one" => \E m \in Matriculas : want = {m}
        /\ step \in {"looking", "finding", "dating"}
    <3>1. /\ step = "looking" => k \in {"add", "import"}
          /\ k = "add" => Len(ms) <= 1
          /\ k = "one" => \E m \in Matriculas : want = {m}
      BY <2>3
    <3>2. step \in {"looking", "finding", "dating"}
      BY <2>3
    <3> QED
      BY <3>1, <3>2
  <2>5. \A s \in Requests \ {r} : /\ kind'[s] = kind[s] /\ rows'[s] = rows[s] /\ opened'[s] = opened[s]
                                 /\ wanted'[s] = wanted[s] /\ pc'[s] = pc[s]
                                 /\ queue'[s] = queue[s] /\ locked'[s] = locked[s]
    BY <2>2
  <2>6. opened'[r] = {} /\ queue'[r] = <<>> /\ Len(queue'[r]) <= 1
    BY <2>2, NoneIsFew
  <2> HIDE DEF Begins
  <2> QED
    BY <2>2, <2>4, <2>5, <2>6 DEF SinglesAreSound
<1>2. ASSUME NEW r \in Requests, DeadlockVictim(r) \/ Fail(r)
      PROVE  SinglesAreSound'
  <2>1. /\ UNCHANGED <<kind, opening, closing>> /\ pc'[r] = "failed"
        /\ \A s \in Requests \ {r} : pc'[s] = pc[s]
    BY <1>2 DEF DeadlockVictim, Fail, Goto, TypeOK
  <2> QED
    BY <2>1 DEF SinglesAreSound
<1>3. CASE UNCHANGED vars
  BY <1>3 DEF SinglesAreSound, vars
<1> QED
  BY <1>1, <1>2, <1>3, OpenersStaySingle, ClosersStaySingle DEF Next, Step

\* Who waits and is waited for is an import that has inserted a period and waits to
\* insert one, or a bulk baja that has locked one and waits to lock another.
LEMMA WaitedFor ==
  ASSUME TypeOK, StagesAreSound, SinglesAreSound,
         NEW r \in Requests, NEW s \in WaitsFor(r), WaitsFor(s) # {}
  PROVE  /\ s \in Requests /\ HoldsSome(s)
         /\ \/ kind[s] = "import" /\ pc[r] = "inserting" /\ pc[s] = "inserting"
            \/ kind[s] = "bulk" /\ pc[s] = "locking"
<1>1. /\ s \in Requests /\ pc[s] \in {"inserting", "locking"}
      /\ pc[s] = "inserting" => rows[s] # <<>> /\ kind[s] \in {"add", "import"} /\ locked[s] = {}
      /\ pc[s] = "locking" => queue[s] # <<>> /\ kind[s] \in {"one", "bulk"} /\ opened[s] = {}
  BY DEF WaitsFor, StagesAreSound, SinglesAreSound
<1>2. \/ pc[r] = "inserting" /\ Undecided(s, Head(rows[r]))
      \/ pc[r] = "locking" /\ Holds(s, Head(queue[r]))
  BY DEF WaitsFor
<1>3. HoldsSome(s)
  BY <1>2 DEF Undecided, Holds, HoldsSome
<1>4. CASE pc[s] = "inserting"
  <2>1. opened[s] # {}
    BY <1>1, <1>3, <1>4 DEF HoldsSome
  <2>2. kind[s] = "import"
    BY <1>1, <1>4, <2>1 DEF SinglesAreSound
  <2>3. pc[r] = "inserting"
    BY <1>1, <1>2, <1>4 DEF Holds
  <2> QED
    BY <1>1, <1>3, <1>4, <2>2, <2>3
<1>5. CASE pc[s] = "locking"
  <2>1. locked[s] # {}
    BY <1>1, <1>3, <1>5 DEF HoldsSome
  <2>2. kind[s] = "bulk"
    BY <1>1, <1>5, <2>1 DEF SinglesAreSound
  <2> QED
    BY <1>1, <1>3, <1>5, <2>2
<1> QED
  BY <1>1, <1>4, <1>5

\* Whoever waits in a circle does so among imports or among bulk bajas.
LEMMA CirclesAreOfBatches ==
  ASSUME TypeOK, StagesAreSound, SinglesAreSound PROVE DeadlocksAreOfBatches
<1>1. ASSUME NEW D \in SUBSET Requests, StuckIn(D)
      PROVE  \E k \in {"import", "bulk"} : StuckIn({ s \in D : kind[s] = k /\ HoldsSome(s) })
  <2> DEFINE E(k) == { s \in D : kind[s] = k /\ HoldsSome(s) }
  <2>1. \A s \in D : WaitsFor(s) # {}
    BY <1>1 DEF StuckIn
  <2>2. \A r \in D : \E s \in WaitsFor(r) \cap D : TRUE
    BY <1>1 DEF StuckIn
  <2>3. ASSUME E("bulk") # {}
        PROVE  StuckIn(E("bulk"))
    <3>1. ASSUME NEW r \in E("bulk")
          PROVE  WaitsFor(r) \cap E("bulk") # {}
      <4>1. PICK s \in WaitsFor(r) \cap D : TRUE
        BY <2>2
      <4>2. pc[r] # "inserting"
        BY DEF SinglesAreSound
      <4>3. kind[s] = "bulk" /\ HoldsSome(s)
        BY <2>1, <4>1, <4>2, WaitedFor
      <4> QED
        BY <4>1, <4>3
    <3> QED
      BY <2>3, <3>1 DEF StuckIn
  <2>4. ASSUME E("bulk") = {}
        PROVE  StuckIn(E("import"))
    <3>1. ASSUME NEW r \in D
          PROVE  WaitsFor(r) \cap E("import") # {}
      <4>1. PICK s \in WaitsFor(r) \cap D : TRUE
        BY <2>2
      <4>2. HoldsSome(s) /\ kind[s] \in {"import", "bulk"}
        BY <2>1, <4>1, WaitedFor
      <4> QED
        BY <2>4, <4>1, <4>2
    <3> QED
      BY <1>1, <3>1 DEF StuckIn
  <2> QED
    BY <2>3, <2>4
<1>2. ASSUME NEW D \in SUBSET Requests, Deadlock(D), NEW s \in D
      PROVE  kind[s] \in {"import", "bulk"}
  <2>1. PICK q \in D : s \in WaitsFor(q)
    BY <1>2 DEF Deadlock
  <2>2. WaitsFor(s) # {}
    BY <1>2 DEF Deadlock
  <2> QED
    BY <2>1, <2>2, WaitedFor
<1> QED
  BY <1>1, <1>2 DEF DeadlocksAreOfBatches

\* Only imports among themselves and bulk bajas among themselves wait in circles,
\* and become victims of the database's detector.
THEOREM OnlyBatchesDeadlock == Spec => []DeadlocksAreOfBatches
<1>1. Init => SinglesAreSound
  BY DEF Init, SinglesAreSound
<1>2. IInv => TypeOK /\ StagesAreSound /\ OneOpenPeriod
  BY DEF IInv, IndexInv
<1>3. IInv /\ SinglesAreSound /\ [Next]_vars => SinglesAreSound'
  BY <1>2, SinglesStaySound
<1>4. IInv /\ SinglesAreSound => DeadlocksAreOfBatches
  BY <1>2, CirclesAreOfBatches
<1> QED
  BY <1>1, <1>3, <1>4, Invariance, PTL DEF Spec
-----------------------------------------------------------------------------
(***************************************************************************)
(* Requests run out of steps.                                              *)
(***************************************************************************)
\* A request that goes on to a later stage.
LEMMA StageStep ==
  ASSUME TypeOK, NEW r \in Requests,
         \/ Arrive(r) \/ CommitOpened(r) \/ StampBulk(r) \/ FindOpen(r) \/ NotFound(r)
         \/ CloseOne(r) \/ CommitClosed(r) \/ DeadlockVictim(r) \/ Fail(r)
  PROVE  Further(r)
<1>1. CASE Arrive(r)
  <2>1. pc[r] = "idle" /\ pc'[r] \in {"looking", "finding", "dating"}
    BY <1>1 DEF Arrive, Add, Import, Deactivate, DeactivateMany, DeactivateAll, Start, Goto, TypeOK
  <2> QED
    BY <2>1 DEF Further, Distance
<1>2. CASE CommitOpened(r) \/ NotFound(r)
  <2>1. pc[r] \in {"looking", "locking"} /\ pc'[r] \in {"added", "not_found"}
    BY <1>2 DEF CommitOpened, NotFound, Goto, TypeOK
  <2> QED
    BY <2>1 DEF Further, Distance
<1>3. CASE StampBulk(r) \/ FindOpen(r)
  <2>1. \/ pc[r] = "dating" /\ pc'[r] = "finding"
        \/ pc[r] = "finding" /\ pc'[r] = "locking"
    BY <1>3 DEF StampBulk, FindOpen, Goto, TypeOK
  <2> QED
    BY <2>1 DEF Further, Distance
<1>4. CASE CloseOne(r) \/ CommitClosed(r)
  <2>1. \/ pc[r] = "locking" /\ pc'[r] \in {"closing", "closed"}
        \/ pc[r] = "closing" /\ pc'[r] = "closed"
    BY <1>4 DEF CloseOne, CommitClosed, Goto, TypeOK
  <2> QED
    BY <2>1 DEF Further, Distance
<1>5. CASE DeadlockVictim(r) \/ Fail(r)
  <2>1. pc[r] \in Running
    <3>1. CASE DeadlockVictim(r)
      <4>1. PICK D \in SUBSET Requests : r \in D /\ Deadlock(D)
        BY <3>1 DEF DeadlockVictim
      <4>2. WaitsFor(r) # {}
        BY <4>1 DEF Deadlock
      <4> QED
        BY <4>2 DEF WaitsFor, Running
    <3> QED
      BY <1>5, <3>1 DEF Fail
  <2>2. pc'[r] = "failed"
    BY <1>5 DEF DeadlockVictim, Fail, Goto, TypeOK
  <2> QED
    BY <2>1, <2>2 DEF Further, Distance, Running
<1> QED
  BY <1>1, <1>2, <1>3, <1>4, <1>5

\* A request that has one row less to open, or is nearer to it.
LEMMA RowStep ==
  ASSUME TypeOK, NEW r \in Requests, rows[r] # <<>> \/ ~(StampAlta(r) \/ Insert(r)),
         SkipInvalid(r) \/ LookForActive(r) \/ StampAlta(r) \/ Insert(r)
  PROVE  Further(r)
<1>1. /\ rows[r] \in Seq(Matriculas \cup {Malformed}) /\ rows[r] # <<>>
      /\ Len(Tail(rows[r])) = Len(rows[r]) - 1 /\ Len(rows[r]) \in Nat
  BY DEF SkipInvalid, LookForActive, TypeOK
<1>2. CASE SkipInvalid(r)
  <2>1. pc[r] = "looking" /\ pc'[r] = "looking" /\ rows'[r] = Tail(rows[r])
    BY <1>2 DEF SkipInvalid, TypeOK
  <2>2. Left(r)' = 3 * Len(rows'[r]) + 2 /\ Left(r) = 3 * Len(rows[r]) + 2
    BY <2>1 DEF Left
  <2>3. Left(r)' < Left(r)
    BY <1>1, <2>1, <2>2
  <2> QED
    BY <2>1, <2>3 DEF Further
<1>3. CASE LookForActive(r)
  <2>1. /\ pc[r] = "looking"
        /\ \/ pc'[r] = "stamping" /\ rows'[r] = rows[r]
           \/ pc'[r] = "already"
           \/ pc'[r] = "looking" /\ rows'[r] = Tail(rows[r])
    BY <1>3 DEF LookForActive, Goto, TypeOK
  <2>2. CASE pc'[r] = "already"
    BY <2>1, <2>2 DEF Further, Distance
  <2>3. CASE pc'[r] # "already"
    <3>1. Distance(pc'[r]) = Distance(pc[r])
      BY <2>1, <2>3 DEF Distance
    <3>2. /\ Left(r) = 3 * Len(rows[r]) + 2
          /\ Left(r)' = IF pc'[r] = "looking" THEN 3 * Len(rows'[r]) + 2 ELSE 3 * Len(rows'[r]) + 1
      BY <2>1, <2>3 DEF Left
    <3>3. CASE pc'[r] = "looking"
      <4>1. Len(rows'[r]) = Len(rows[r]) - 1
        BY <1>1, <2>1, <3>3
      <4>2. Left(r)' < Left(r)
        BY <1>1, <3>2, <3>3, <4>1
      <4> QED
        BY <3>1, <4>2 DEF Further
    <3>4. CASE pc'[r] = "stamping"
      <4>1. Left(r)' < Left(r)
        BY <1>1, <2>1, <3>2, <3>4
      <4> QED
        BY <3>1, <4>1 DEF Further
    <3> QED
      BY <2>1, <2>3, <3>3, <3>4
  <2> QED
    BY <2>2, <2>3
<1>4. CASE StampAlta(r)
  <2>1. pc[r] = "stamping" /\ pc'[r] = "inserting" /\ rows'[r] = rows[r]
    BY <1>4 DEF StampAlta, Goto, TypeOK
  <2> QED
    BY <1>1, <2>1 DEF Further, Left, Distance
<1>5. CASE Insert(r)
  <2>1. /\ pc[r] = "inserting"
        /\ \/ pc'[r] = "looking" /\ rows'[r] = Tail(rows[r])
           \/ pc'[r] = "conflict"
    BY <1>5 DEF Insert, Goto, TypeOK
  <2>2. CASE pc'[r] = "conflict"
    BY <2>1, <2>2 DEF Further, Distance
  <2>3. CASE pc'[r] = "looking" /\ rows'[r] = Tail(rows[r])
    <3>1. Distance(pc'[r]) = Distance(pc[r])
      BY <2>1, <2>3 DEF Distance
    <3>2. Left(r) = 3 * Len(rows[r]) /\ Left(r)' = 3 * Len(rows'[r]) + 2
      BY <2>1, <2>3 DEF Left
    <3>3. Left(r)' < Left(r)
      BY <1>1, <2>3, <3>2
    <3> QED
      BY <3>1, <3>3 DEF Further
  <2> QED
    BY <2>1, <2>2, <2>3
<1> QED
  BY <1>2, <1>3, <1>4, <1>5

\* A request that has one row less to lock.
LEMMA LockingStep == ASSUME TypeOK, NEW r \in Requests, LockNext(r) PROVE Further(r)
<1>1. /\ pc[r] = "locking" /\ pc'[r] = "locking" /\ queue'[r] = Tail(queue[r])
      /\ queue[r] \in Seq(Periodo) /\ queue[r] # <<>>
  BY DEF LockNext, TypeOK
<1>2. Len(Tail(queue[r])) < Len(queue[r])
  BY <1>1
<1> QED
  BY <1>1, <1>2 DEF Further, Left

\* The requests beside it stand still meanwhile.
LEMMA OthersStandStill ==
  ASSUME TypeOK, NEW r \in Requests, Arrive(r) \/ Step(r) \/ Fail(r), NEW s \in Requests \ {r}
  PROVE  StandsStill(s)
<1>1. pc'[s] = pc[s] /\ rows'[s] = rows[s] /\ queue'[s] = queue[s]
  BY DEF TypeOK, Arrive, Add, Import, Deactivate, DeactivateMany, DeactivateAll, Start, Goto,
     Step, SkipInvalid, LookForActive, StampAlta, Insert, CommitOpened, StampBulk, FindOpen, LockNext,
     NotFound, CloseOne, CommitClosed, DeadlockVictim, Fail
<1> QED
  BY <1>1 DEF StandsStill, Left

\* A request takes finitely many steps: each brings it nearer to its end, and no
\* other request throws it back: if those who can go on do, and the database breaks
\* the circles, all that have begun end.
THEOREM StepsOfRequestsRunOut == Spec => StepsRunOut
<1> DEFINE P == \A r \in Requests :
                  /\ Further(r) \/ StandsStill(r)
                  /\ Step(r) => Further(r)
<1>1. ASSUME IInv, NEW r \in Requests, Step(r) PROVE Further(r)
  <2>1. TypeOK /\ (pc[r] \in {"stamping", "inserting"} => rows[r] # <<>>)
    BY <1>1 DEF IInv, StagesAreSound
  <2>2. rows[r] # <<>> \/ ~(StampAlta(r) \/ Insert(r))
    BY <2>1 DEF StampAlta, Insert
  <2> QED
    BY <1>1, <2>1, <2>2, StageStep, RowStep, LockingStep DEF Step
<1>2. ASSUME IInv, [Next]_vars, NEW r \in Requests PROVE Further(r) \/ StandsStill(r)
  <2>1. TypeOK
    BY <1>2 DEF IInv
  <2>2. CASE \E s \in Requests : Arrive(s) \/ Step(s) \/ Fail(s)
    BY <1>1, <1>2, <2>1, <2>2, StageStep, OthersStandStill
  <2>3. CASE UNCHANGED vars
    BY <2>3 DEF vars, StandsStill, Left
  <2> QED
    BY <1>2, <2>2, <2>3 DEF Next
<1>3. IInv /\ [Next]_vars => [P]_vars
  BY <1>1, <1>2
<1> QED
  BY <1>3, Invariance, PTL DEF Spec, StepsRunOut
=============================================================================
