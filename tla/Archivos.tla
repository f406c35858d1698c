------------------------------ MODULE Archivos ------------------------------
(***************************************************************************)
(* What FileStorage promises to those who store files next to their rows,  *)
(* without threads, callbacks and lists: a file is written before the row  *)
(* that names it is committed, gets its final name afterwards, and is      *)
(* taken away from a committed row only when the log names one of the row, *)
(* or by its own writer, interrupted between its commit and its rename.    *)
(*                                                                         *)
(* Intake and Respuesta, the two callers of LocalStorage, implement this   *)
(* (ImplementsArchivos): the one sweeps after every request, the other     *)
(* only after one that failed.                                             *)
(***************************************************************************)
VARIABLES
  partial,  \* the files whose bytes are on disk and not yet durable
  final,    \* the durable files
  logged,   \* the files the log names
  rows,     \* for each committed row, the files it names
  cut       \* the files of rows whose writer was interrupted after its commit

Vars == <<partial, final, logged, rows, cut>>

Start == partial = {} /\ final = {} /\ logged = {} /\ rows = {} /\ cut = {}

\* save: bytes under a name that no row has.
Write(x) ==
  /\ x \notin partial /\ \A B \in rows : x \notin B
  /\ partial' = partial \cup {x}
  /\ UNCHANGED <<final, logged, rows, cut>>

\* The surrounding transaction commits a row: its files are written and its own.
Commit(B) ==
  /\ B \subseteq partial /\ \A C \in rows : B \cap C = {}
  /\ rows' = rows \cup {B}
  /\ UNCHANGED <<partial, final, logged, cut>>

Committed(x) == \E B \in rows : x \in B

\* The write of a committed row is made durable.
Rename(x) ==
  /\ x \in partial /\ Committed(x)
  /\ partial' = partial \ {x}
  /\ final' = final \cup {x}
  /\ UNCHANGED <<logged, rows, cut>>

\* Or it is not, and the log says so.
Log(x) ==
  /\ x \in partial /\ Committed(x)
  /\ logged' = logged \cup {x}
  /\ UNCHANGED <<partial, final, rows, cut>>

\* The writer of a committed row is interrupted before its writes are durable.
Cut(B) ==
  /\ B \in rows
  /\ cut' = cut \cup B
  /\ UNCHANGED <<partial, final, logged, rows>>

\* cleanup_pending: some writes are discarded, some resist and are logged.  What
\* a row loses here, it loses after a line in the log, or to its own writer that was
\* interrupted.
Cleanup(gone, stuck) ==
  /\ \A B \in rows : B \cap gone # {} => B \cap logged # {} \/ B \subseteq cut
  /\ partial' = partial \ gone
  /\ logged' = logged \cup stuck
  /\ UNCHANGED <<final, rows, cut>>

Next ==
  \/ \E x \in partial' : Write(x)
  \/ \E B \in rows' : Commit(B)
  \/ \E B \in rows : Cut(B)
  \/ \E x \in partial : Rename(x) \/ Log(x)
  \/ \E gone, stuck \in SUBSET partial : Cleanup(gone, stuck)

Contract == Start /\ [][Next]_Vars

\* A durable file has a committed row, and a committed row has all its files on
\* disk unless the log names one of them or its writer was interrupted: also after
\* crashes, at every moment.
BytesAreKept ==
  /\ final \subseteq UNION rows
  /\ partial \cap final = {}
  /\ \A B \in rows : B \subseteq partial \cup final \/ B \cap logged # {} \/ B \subseteq cut
=============================================================================
