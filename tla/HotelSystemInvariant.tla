------------------------ MODULE HotelSystemInvariant -------------------------
(***************************************************************************)
(* The inductive invariant of HotelSystem: why checks made before the      *)
(* write lock is held are still true when the write is made.               *)
(***************************************************************************)
EXTENDS HotelSystem

\* Some worker is at COMMIT exactly when the write lock is taken, and it is that one.
LockHeld(T) == \A w \in T : writer = w <=> pc[w] = "commit"

\* A transaction is open from the validations to COMMIT.  Until something is
\* committed over it, the snapshot of a transaction that has not written is the
\* committed database; the writer's snapshot is never out of date.
Snapshots(T) ==
    \A w \in T :
        /\ InTransaction(w) <=> pc[w] \in {"write", "commit"}
        /\ w \in stale => pc[w] = "write"
        /\ pc[w] = "write" /\ w \notin stale => view[w] = db

\* The before_actions have loaded the row the request is about.
Loaded(T) ==
    \A w \in T :
        /\ pc[w] # "idle" => req[w] \in Offered
        /\ pc[w] \in {"check", "write", "commit", "render"} =>
            /\ req[w].op = "book" => req[w].as \in Id /\ rec[w] \in RoomRow
            /\ req[w].op \in {"update_room", "destroy_room"} => rec[w] \in RoomRow
            /\ req[w].op \in {"update_hotel", "destroy_hotel"} => rec[w] \in HotelRow

\* What the validations found in the snapshot of the transaction.
BookChecked(w) ==
    /\ Ancient < Day(req[w].check_in)
    /\ Day(req[w].check_in) < Day(req[w].check_out)
    /\ Available(view[w], rec[w].id, Day(req[w].check_in), Day(req[w].check_out))

Checked(T) ==
    \A w \in T : pc[w] = "write" =>
        /\ req[w].op = "book" => BookChecked(w)
        /\ req[w].op = "create_hotel" => NameFree(view[w], req[w].name, 0)
        /\ req[w].op = "update_hotel" => NameFree(view[w], req[w].name, rec[w].id)
        /\ req[w].op = "create_room" => NumberFree(view[w], req[w].number, 0)
        /\ req[w].op = "update_room" => NumberFree(view[w], req[w].number, rec[w].id)
        /\ req[w].op = "sign_up" => UsernameFree(view[w], req[w].username)

\* What is about to be committed is sound.
Pending(T) == \A w \in T : pc[w] = "commit" => Sound(view[w])

\* The lock, the snapshots and the checks of the threads T together keep the database
\* sound, whoever else writes to it.
ServerInv(T) ==
    /\ TypeOK
    /\ Loaded(T)
    /\ LockHeld(T)
    /\ Snapshots(T)
    /\ Checked(T)
    /\ Pending(T)
    /\ Sound(db)

\* Every thread serves requests.
IInv == ServerInv(Worker)
=============================================================================
