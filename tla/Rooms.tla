-------------------------------- MODULE Rooms --------------------------------
(***************************************************************************)
(* The writing half of RoomsController, and the Room model.                *)
(***************************************************************************)
EXTENDS Handler

\* image: the form carries a file.
RoomRequest ==
         [op: {"create_room"}, as: Token, form: Form, hotel: Id, number: Number,
          image: BOOLEAN]
    \cup [op: {"update_room"}, as: Token, form: Form, id: Id, number: Number,
          image: BOOLEAN]
    \cup [op: {"destroy_room"}, as: Token, id: Id]

\* authenticate_admin! comes before set_room.  The hotel id of the path is not
\* looked at.
RoomFilters(r) ==
    IF AdminStatus(r.as) # Pass THEN AdminStatus(r.as)
    ELSE IF r.op # "create_room" /\ r.id \notin Ids(db.rooms) THEN 404 ELSE Pass

RoomAccept(w) ==
    \E r \in Offered :
        /\ r.op \in {"create_room", "update_room", "destroy_room"}
        /\ \/ RoomFilters(r) # Pass /\ Refuse(w, r, RoomFilters(r))
           \/ /\ RoomFilters(r) = Pass
              /\ r.op = "create_room" /\ db.seq.rooms < MaxRows
              /\ Load(w, r, NoRow)
           \/ /\ RoomFilters(r) = Pass
              /\ r.op # "create_room"
              /\ \E room \in db.rooms : room.id = r.id /\ Load(w, r, room)

\* uniqueness of the number, over all hotels
NumberFree(d, number, id) == \A r \in d.rooms : r.number = number => r.id = id

\* A new room needs its hotel (belongs_to) and a number of its own.
RoomValid(d, r) ==
    /\ r.form = "valid"
    /\ r.hotel \in Ids(d.hotels)
    /\ NumberFree(d, r.number, 0)

RoomCreateCheck(w) ==
    /\ pc[w] = "check"
    /\ req[w].op = "create_room"
    /\ \/ req[w].form = "absent" /\ Reject(w, 400)
       \/ req[w].form # "absent" /\ ~ RoomValid(db, req[w]) /\ Reject(w, 422)
       \/ RoomValid(db, req[w]) /\ Proceed(w)

RoomCreateWrite(w) ==
    /\ pc[w] = "write"
    /\ req[w].op = "create_room"
    /\ LET new == [id     |-> view[w].seq.rooms + 1,
                   number |-> req[w].number,
                   hotel  |-> req[w].hotel]
       IN  Execute(w, InsertRoom(view[w], new), new)

\* The hotel is not validated again: its foreign key has not changed.
RoomUpdateCheck(w) ==
    /\ pc[w] = "check"
    /\ req[w].op = "update_room"
    /\ \/ req[w].form = "absent" /\ Reject(w, 400)
       \/ req[w].form = "invalid" /\ Reject(w, 422)
       \/ /\ req[w].form = "valid"
          /\ ~ NumberFree(db, req[w].number, rec[w].id)
          /\ Reject(w, 422)
       \/ /\ req[w].form = "valid"
          /\ NumberFree(db, req[w].number, rec[w].id)
          /\ IF req[w].number = rec[w].number /\ ~ Pictured(w)
             THEN SkipWrite(w) ELSE Proceed(w)

\* The UPDATE reaches the row unless it was destroyed since set_room.
RoomUpdateWrite(w) ==
    /\ pc[w] = "write"
    /\ req[w].op = "update_room"
    /\ Execute(w, UpdateRoom(view[w], rec[w].id, req[w].number),
               IF rec[w].id \in Ids(view[w].rooms)
               THEN [rec[w] EXCEPT !.number = req[w].number] ELSE NoRow)

\* @room.destroy: the transaction starts with the load of the reservations.
RoomDestroyCheck(w) ==
    /\ pc[w] = "check"
    /\ req[w].op = "destroy_room"
    /\ Proceed(w)

RoomDestroyWrite(w) ==
    /\ pc[w] = "write"
    /\ req[w].op = "destroy_room"
    /\ Execute(w, DestroyRooms(view[w], {rec[w].id}), NoRow)

RoomStatus == [create_room |-> 201, update_room |-> 200, destroy_room |-> 204]

RoomRender(w) ==
    /\ pc[w] = "render"
    /\ req[w].op \in DOMAIN RoomStatus
    /\ Render(w, RoomStatus[req[w].op])
=============================================================================
