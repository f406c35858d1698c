---------------------------- MODULE LocalStorage ----------------------------
(***************************************************************************)
(* LocalFileStorage: files whose fate follows a database transaction.      *)
(*                                                                         *)
(* save writes the bytes next to their final path, as a .partial, and      *)
(* registers the rename as an on_commit callback of the thread's database  *)
(* connection.  What to delete when the transaction does not commit is     *)
(* kept in a list of the thread, which outlives the request: the next      *)
(* request of the thread finds whatever this one left in it.               *)
(*                                                                         *)
(* The module has the state and the steps; Intake runs them inside its     *)
(* requests.                                                               *)
(***************************************************************************)
EXTENDS Naturals, Sequences

VARIABLES
  partial,  \* the .partial files on disk
  final,    \* the files on disk under their final name
  pending,  \* pending[t]: _pending.paths of thread t
  hooks,    \* hooks[t]: the on_commit renames of t's open transaction, in order
  logged    \* the files some archivos.* error line names

storage == <<partial, final, pending, hooks, logged>>

StorageInit(threads) ==
  /\ partial = {}
  /\ final = {}
  /\ pending = [t \in threads |-> {}]
  /\ hooks = [t \in threads |-> <<>>]
  /\ logged = {}

\* save: x is a fresh name (uuid4), written, noted and scheduled.
Save(t, x) ==
  /\ partial' = partial \cup {x}
  /\ pending' = [pending EXCEPT ![t] = @ \cup {x}]
  /\ hooks' = [hooks EXCEPT ![t] = Append(@, x)]
  /\ UNCHANGED <<final, logged>>

\* open, write or fsync raises: the file may be there and nobody notes it.  The
\* exception leaves the caller's transaction block, so no callback will run.
SaveBreaks(t, x) ==
  /\ partial' \in { partial, partial \cup {x} }
  /\ hooks' = [hooks EXCEPT ![t] = <<>>]
  /\ UNCHANGED <<final, pending, logged>>

\* The next on_commit callback: os.replace, and in any case off the list.
Rename(t) ==
  LET x == Head(hooks[t]) IN
  /\ hooks[t] # <<>>
  /\ x \in partial
  /\ partial' = partial \ {x}
  /\ final' = final \cup {x}
  /\ pending' = [pending EXCEPT ![t] = @ \ {x}]
  /\ hooks' = [hooks EXCEPT ![t] = Tail(@)]
  /\ UNCHANGED logged

\* SystemExit before os.replace: the finally takes the file off the list, nothing
\* is logged and no other callback runs.  Mutant: an OSError that is not logged.
RenameIsCut(t) ==
  /\ hooks[t] # <<>>
  /\ pending' = [pending EXCEPT ![t] = @ \ {Head(hooks[t])}]
  /\ hooks' = [hooks EXCEPT ![t] = <<>>]
  /\ UNCHANGED <<partial, final, logged>>

\* os.replace raises: logged with its paths, off the list, and re-raised.  The
\* connection has taken the callbacks over, so the ones behind it are gone.
RenameBreaks(t) ==
  LET x == Head(hooks[t]) IN
  /\ hooks[t] # <<>>
  /\ logged' = logged \cup {x}
  /\ pending' = [pending EXCEPT ![t] = @ \ {x}]
  /\ hooks' = [hooks EXCEPT ![t] = <<>>]
  /\ UNCHANGED <<partial, final>>

\* Mutant: the callbacks outlive the ROLLBACK.
KeepHooks(t) == UNCHANGED storage

\* ROLLBACK: the callbacks never run.
DropHooks(t) ==
  /\ hooks' = [hooks EXCEPT ![t] = <<>>]
  /\ UNCHANGED <<partial, final, pending, logged>>

\* cleanup_pending: empties the list, then deletes what it named; a file the
\* system refuses to delete is logged and stays.
CleanupPending(t) ==
  /\ \E stuck \in SUBSET (pending[t] \cap partial) :
       /\ partial' = (partial \ pending[t]) \cup stuck
       /\ logged' = logged \cup stuck
  /\ pending' = [pending EXCEPT ![t] = {}]
  /\ UNCHANGED <<final, hooks>>

\* cleanup_pending is cut short: the list is empty, some files are not deleted yet,
\* and of those that resisted some are not logged.
CutCleanup(t) ==
  /\ \E left \in SUBSET (pending[t] \cap partial) :
       /\ partial' = (partial \ pending[t]) \cup left
       /\ logged' \in { logged \cup named : named \in SUBSET left }
  /\ pending' = [pending EXCEPT ![t] = {}]
  /\ hooks' = [hooks EXCEPT ![t] = <<>>]
  /\ UNCHANGED final

\* The worker process dies: memory is gone, the disk stays.
ForgetThread(t) ==
  /\ pending' = [pending EXCEPT ![t] = {}]
  /\ hooks' = [hooks EXCEPT ![t] = <<>>]
  /\ UNCHANGED <<partial, final, logged>>
=============================================================================
