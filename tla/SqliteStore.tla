---------------------------- MODULE SqliteStore -----------------------------
(***************************************************************************)
(* The database as the request threads see it: SQLite in WAL mode behind   *)
(* ActiveRecord 7.1, one connection per thread (config/database.yml).      *)
(* External to this repository: modelled from how the models use it.       *)
(*                                                                         *)
(* save, update and destroy open a deferred transaction whose first        *)
(* statement is always a SELECT (a validation, or the load of dependents), *)
(* so the transaction starts as a reader of the snapshot of that moment.   *)
(* Its first INSERT, UPDATE or DELETE has to upgrade it to the one writer. *)
(* SQLite refuses the upgrade at once, without using the busy timeout,     *)
(* when another connection is the writer or has committed since the        *)
(* snapshot.  Nothing in the application rescues or retries that.          *)
(***************************************************************************)
EXTENDS Schema

CONSTANTS
    Worker,     \* the threads that serve requests, each with its connection
    NoOne,      \* the write lock is free
    NoSnapshot  \* the connection is in no transaction

ASSUME WorkerAssumption   == NoOne \notin Worker
ASSUME SnapshotAssumption == NoSnapshot \notin Database

VARIABLES
    db,         \* what is committed
    view,       \* view[w]: what w's transaction reads, its own writes included
    stale,      \* the workers whose snapshot a later commit has superseded
    writer      \* the worker whose transaction holds the write lock

storeVars == <<db, view, stale, writer>>

InTransaction(w) == view[w] # NoSnapshot

StoreTypeOK ==
    /\ db \in Database
    /\ view \in [Worker -> Database \cup {NoSnapshot}]
    /\ stale \subseteq Worker
    /\ writer \in Worker \cup {NoOne}
-----------------------------------------------------------------------------
\* BEGIN and the first SELECT of the transaction.
BeginRead(w) ==
    /\ view' = [view EXCEPT ![w] = db]
    /\ UNCHANGED <<db, stale, writer>>

\* Mutant: a snapshot that is out of date may be written over.
CanWriteOverStale(w) == writer = NoOne

\* The upgrade of w's transaction to the writer succeeds.
CanWrite(w) == writer = NoOne /\ w \notin stale

\* The statements of w's transaction turn what it sees into d.
Write(w, d) ==
    /\ view' = [view EXCEPT ![w] = d]
    /\ writer' = w
    /\ UNCHANGED <<db, stale>>

\* Mutant: a commit does not supersede the snapshots of the others.
CommitQuietly(w, beside) ==
    /\ db' = view[w]
    /\ view' = [view EXCEPT ![w] = NoSnapshot]
    /\ stale' = stale \ {w}
    /\ writer' = NoOne

\* COMMIT.  A transaction that wrote supersedes every open snapshot: it changed one of
\* the four tables, or wrote beside them, to another table or a row it left the same.
Commit(w, beside) ==
    /\ db' = view[w]
    /\ view' = [view EXCEPT ![w] = NoSnapshot]
    /\ stale' = (IF view[w] = db /\ ~ beside THEN stale
                ELSE {v \in Worker : InTransaction(v)}) \ {w}
    /\ writer' = NoOne

\* ROLLBACK, which SQLite also does on recovery when the process dies.
Rollback(w) ==
    /\ view' = [view EXCEPT ![w] = NoSnapshot]
    /\ stale' = stale \ {w}
    /\ writer' = IF writer = w THEN NoOne ELSE writer
    /\ UNCHANGED db
=============================================================================
