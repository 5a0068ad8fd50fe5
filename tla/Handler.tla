------------------------------- MODULE Handler -------------------------------
(***************************************************************************)
(* The course every request takes through a controller, on one thread:     *)
(*                                                                         *)
(*   idle      no request                                                  *)
(*   check     the before_actions let it through; rec is the row they      *)
(*             loaded, by a statement outside any transaction              *)
(*   write     the record was valid in the snapshot of a transaction that  *)
(*             is still open; its first write statement comes next         *)
(*   commit    the statements ran; COMMIT comes next                       *)
(*   render    the model call returned true; the JSON is made next         *)
(*   answered  the client has the status resp                              *)
(*                                                                         *)
(* Between two of these points any other thread may run, and the process   *)
(* may die.  The controllers of hotels, rooms, reservations and accounts   *)
(* fill in what is checked and written.                                    *)
(***************************************************************************)
EXTENDS SqliteStore, BookingDates

CONSTANTS
    Nobody,     \* a token JwtService cannot decode, or none
    NoRow,      \* no row was loaded, inserted or updated
    NoRequest,  \* an idle worker's request
    Offered,    \* the requests clients send
    MaxRows     \* bound: no create goes on in a table that gave out this many ids

ASSUME NobodyAssumption == Nobody \notin Id

\* Who a request says it is from: the user id in its token, which may be that of a user
\* who is gone, since db/seeds.rb starts the table over, or is yet to come.
Token == Id \cup {Nobody}

\* absent: params.require raises; invalid: a validation other than uniqueness fails
Form == {"absent", "invalid", "valid"}

VARIABLES
    pc,         \* where each worker is
    req,        \* the request it serves
    rec,        \* the row its before_actions loaded
    made,       \* the row it inserted, updated or found up to date
    resp        \* the status it answered with, 0 before that

handlerVars == <<pc, req, rec, made, resp>>
vars == <<storeVars, handlerVars>>

Stage == {"idle", "check", "write", "commit", "render", "answered"}
-----------------------------------------------------------------------------
(* ApplicationController. *)

\* authenticate_user!: 401 without a decodable token, 404 when User.find raises.
AuthStatus(token) ==
    IF token = Nobody THEN 401 ELSE IF token \notin Ids(db.users) THEN 404 ELSE Pass

Admins == {u.id : u \in {v \in db.users : v.role = "admin"}}

\* Mutant: a status of its own for a user who is no admin.
AdminStatusForbidden(token) ==
    IF AuthStatus(token) # Pass THEN AuthStatus(token)
    ELSE IF token \notin Admins THEN 403 ELSE Pass

\* authenticate_admin!
AdminStatus(token) ==
    IF AuthStatus(token) # Pass THEN AuthStatus(token)
    ELSE IF token \notin Admins THEN 401 ELSE Pass
-----------------------------------------------------------------------------
(* The steps the controllers share. *)

\* A new request is answered by a before_action, or by an error in one.
Refuse(w, r, status) ==
    /\ pc[w] = "idle"
    /\ pc'   = [pc EXCEPT ![w] = "answered"]
    /\ req'  = [req EXCEPT ![w] = r]
    /\ resp' = [resp EXCEPT ![w] = status]
    /\ UNCHANGED <<rec, made, storeVars>>

\* A new request passes the before_actions, which loaded row.
Load(w, r, row) ==
    /\ pc[w] = "idle"
    /\ pc'  = [pc EXCEPT ![w] = "check"]
    /\ req' = [req EXCEPT ![w] = r]
    /\ rec' = [rec EXCEPT ![w] = row]
    /\ UNCHANGED <<made, resp, storeVars>>

\* Parameters missing (400) or validations failed in a transaction that is rolled
\* back without having written (422).
Reject(w, status) ==
    /\ pc'   = [pc EXCEPT ![w] = "answered"]
    /\ resp' = [resp EXCEPT ![w] = status]
    /\ UNCHANGED <<req, rec, made, storeVars>>

\* The validations pass and there is something to write.
Proceed(w) ==
    /\ pc' = [pc EXCEPT ![w] = "write"]
    /\ BeginRead(w)
    /\ UNCHANGED <<req, rec, made, resp>>

\* An update whose attributes all have the value the record was loaded with, and which
\* attaches nothing: no statement is sent and the transaction ends as it began.
SkipWrite(w) ==
    /\ pc'   = [pc EXCEPT ![w] = "render"]
    /\ made' = [made EXCEPT ![w] = rec[w]]
    /\ UNCHANGED <<req, rec, resp, storeVars>>

\* Mutant: an error of the write statement is swallowed and the request goes on.
FailUnnoticed(w) ==
    /\ pc' = [pc EXCEPT ![w] = "render"]
    /\ Rollback(w)
    /\ UNCHANGED <<req, rec, made, resp>>

\* SQLITE_BUSY or a foreign key violation: StatementInvalid, which nobody rescues.
Fail(w) ==
    /\ pc'   = [pc EXCEPT ![w] = "answered"]
    /\ resp' = [resp EXCEPT ![w] = 500]
    /\ Rollback(w)
    /\ UNCHANGED <<req, rec, made>>

\* Mutant: a transaction that cannot write waits until it can.
ExecuteWaiting(w, d, row) ==
    /\ CanWrite(w)
    /\ \/ /\ ~ ForeignKeysHold(d)
          /\ Fail(w)
       \/ /\ ForeignKeysHold(d)
          /\ Write(w, d)
          /\ pc'   = [pc EXCEPT ![w] = "commit"]
          /\ made' = [made EXCEPT ![w] = row]
          /\ UNCHANGED <<req, rec, resp>>

\* The write statements turn the snapshot into d; row is what they leave of the
\* record in the database.
Execute(w, d, row) ==
    \/ /\ ~ CanWrite(w)
       /\ Fail(w)
    \/ /\ CanWrite(w)
       /\ ~ ForeignKeysHold(d)
       /\ Fail(w)
    \/ /\ CanWrite(w)
       /\ ForeignKeysHold(d)
       /\ Write(w, d)
       /\ pc'   = [pc EXCEPT ![w] = "commit"]
       /\ made' = [made EXCEPT ![w] = row]
       /\ UNCHANGED <<req, rec, resp>>

\* Mutant: any answer may fail after the commit.
CommitWriteThenRaise(w) ==
    /\ pc[w] = "commit"
    /\ Commit(w, made[w] # NoRow)
    /\ \/ /\ pc' = [pc EXCEPT ![w] = "render"]
          /\ UNCHANGED resp
       \/ /\ pc' = [pc EXCEPT ![w] = "answered"]
          /\ resp' = [resp EXCEPT ![w] = 500]
    /\ UNCHANGED <<req, rec, made>>

\* A request that attaches a file to its record.
Pictured(w) ==
    /\ req[w].op \in {"sign_up", "create_hotel", "update_hotel", "create_room", "update_room"}
    /\ req[w].image

\* The transaction of save, update or destroy commits.  Then, with the row stored, an
\* attached image is uploaded; what the upload raises, nobody rescues.
CommitWrite(w) ==
    /\ pc[w] = "commit"
    /\ Commit(w, made[w] # NoRow \/ Pictured(w))
    /\ \/ /\ pc' = [pc EXCEPT ![w] = "render"]
          /\ UNCHANGED resp
       \/ /\ Pictured(w)
          /\ pc' = [pc EXCEPT ![w] = "answered"]
          /\ resp' = [resp EXCEPT ![w] = 500]
    /\ UNCHANGED <<req, rec, made>>

\* render json: or head; the serializer may still read the database and raise.
Render(w, status) ==
    /\ pc'   = [pc EXCEPT ![w] = "answered"]
    /\ resp' = [resp EXCEPT ![w] = status]
    /\ UNCHANGED <<req, rec, made, storeVars>>

\* The worker forgets the request.
Forget(w) ==
    /\ pc'   = [pc EXCEPT ![w] = "idle"]
    /\ req'  = [req EXCEPT ![w] = NoRequest]
    /\ rec'  = [rec EXCEPT ![w] = NoRow]
    /\ made' = [made EXCEPT ![w] = NoRow]
    /\ resp' = [resp EXCEPT ![w] = 0]

\* The answer is out and the thread returns to the pool.
Finish(w) ==
    /\ pc[w] = "answered"
    /\ Forget(w)
    /\ UNCHANGED storeVars

\* The process dies under a request: the client gets no answer, the transaction
\* is gone.  A process that serves several requests is several of these steps.
Crash(w) ==
    /\ pc[w] \notin {"idle", "answered"}
    /\ Forget(w)
    /\ Rollback(w)

\* For mutants: the write statements run on the latest database, in a transaction
\* of their own, begun after the one the validations ran in.
ExecuteAfresh(w, d, row) ==
    /\ writer = NoOne
    /\ \/ /\ ~ ForeignKeysHold(d)
          /\ Fail(w)
       \/ /\ ForeignKeysHold(d)
          /\ Write(w, d)
          /\ pc'   = [pc EXCEPT ![w] = "commit"]
          /\ made' = [made EXCEPT ![w] = row]
          /\ UNCHANGED <<req, rec, resp>>
-----------------------------------------------------------------------------
HandlerInit ==
    /\ view   = [w \in Worker |-> NoSnapshot]
    /\ stale  = {}
    /\ writer = NoOne
    /\ pc     = [w \in Worker |-> "idle"]
    /\ req    = [w \in Worker |-> NoRequest]
    /\ rec    = [w \in Worker |-> NoRow]
    /\ made   = [w \in Worker |-> NoRow]
    /\ resp   = [w \in Worker |-> 0]
=============================================================================
