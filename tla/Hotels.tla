------------------------------- MODULE Hotels -------------------------------
(***************************************************************************)
(* HotelsController and the Hotel model.                                   *)
(***************************************************************************)
EXTENDS Handler

\* image: the form carries a file.
HotelRequest ==
         [op: {"create_hotel"}, as: Token, form: Form, name: Name, image: BOOLEAN]
    \cup [op: {"update_hotel"}, as: Token, form: Form, id: Id, name: Name, image: BOOLEAN]
    \cup [op: {"destroy_hotel"}, as: Token, id: Id]

\* set_hotel comes before authenticate_admin!, which runs only if set_hotel has
\* not answered.
HotelFilters(r) ==
    IF r.op # "create_hotel" /\ r.id \notin Ids(db.hotels) THEN 404
    ELSE AdminStatus(r.as)

HotelAccept(w) ==
    \E r \in Offered :
        /\ r.op \in {"create_hotel", "update_hotel", "destroy_hotel"}
        /\ \/ HotelFilters(r) # Pass /\ Refuse(w, r, HotelFilters(r))
           \/ /\ HotelFilters(r) = Pass
              /\ r.op = "create_hotel" /\ db.seq.hotels < MaxRows
              /\ Load(w, r, NoRow)
           \/ /\ HotelFilters(r) = Pass
              /\ r.op # "create_hotel"
              /\ \E hotel \in db.hotels : hotel.id = r.id /\ Load(w, r, hotel)

\* uniqueness of the name among the rows with another id (0 for a new record)
NameFree(d, name, id) == \A h \in d.hotels : h.name = name => h.id = id

HotelCreateCheck(w) ==
    /\ pc[w] = "check"
    /\ req[w].op = "create_hotel"
    /\ \/ req[w].form = "absent" /\ Reject(w, 400)
       \/ req[w].form = "invalid" /\ Reject(w, 422)
       \/ req[w].form = "valid" /\ ~ NameFree(db, req[w].name, 0) /\ Reject(w, 422)
       \/ req[w].form = "valid" /\ NameFree(db, req[w].name, 0) /\ Proceed(w)

\* Mutant: the INSERT is not in the transaction of the validations.
HotelCreateWriteAfresh(w) ==
    /\ pc[w] = "write"
    /\ req[w].op = "create_hotel"
    /\ LET new == [id |-> db.seq.hotels + 1, name |-> req[w].name]
       IN  ExecuteAfresh(w, InsertHotel(db, new), new)

\* Mutant: without AUTOINCREMENT the id follows the largest id in the table.
HotelCreateWriteReusingId(w) ==
    /\ pc[w] = "write"
    /\ req[w].op = "create_hotel"
    /\ \E last \in Ids(view[w].hotels) \cup {0} :
        /\ \A id \in Ids(view[w].hotels) : id <= last
        /\ LET new == [id |-> last + 1, name |-> req[w].name]
           IN  Execute(w, InsertHotel(view[w], new), new)

HotelCreateWrite(w) ==
    /\ pc[w] = "write"
    /\ req[w].op = "create_hotel"
    /\ LET new == [id |-> view[w].seq.hotels + 1, name |-> req[w].name]
       IN  Execute(w, InsertHotel(view[w], new), new)

HotelUpdateCheck(w) ==
    /\ pc[w] = "check"
    /\ req[w].op = "update_hotel"
    /\ \/ req[w].form = "absent" /\ Reject(w, 400)
       \/ req[w].form = "invalid" /\ Reject(w, 422)
       \/ /\ req[w].form = "valid"
          /\ ~ NameFree(db, req[w].name, rec[w].id)
          /\ Reject(w, 422)
       \/ /\ req[w].form = "valid"
          /\ NameFree(db, req[w].name, rec[w].id)
          /\ IF req[w].name = rec[w].name /\ ~ Pictured(w) THEN SkipWrite(w) ELSE Proceed(w)

\* The UPDATE reaches the row unless it was destroyed since set_hotel; update
\* returns true either way.
HotelUpdateWrite(w) ==
    /\ pc[w] = "write"
    /\ req[w].op = "update_hotel"
    /\ Execute(w, UpdateHotel(view[w], rec[w].id, req[w].name),
               IF rec[w].id \in Ids(view[w].hotels)
               THEN [rec[w] EXCEPT !.name = req[w].name] ELSE NoRow)

\* @hotel.destroy: the transaction starts with the load of the rooms.
HotelDestroyCheck(w) ==
    /\ pc[w] = "check"
    /\ req[w].op = "destroy_hotel"
    /\ Proceed(w)

\* The first DELETE takes the write lock; the rest of the cascade runs under it.
HotelDestroyWrite(w) ==
    /\ pc[w] = "write"
    /\ req[w].op = "destroy_hotel"
    /\ Execute(w, DestroyHotel(view[w], rec[w].id), NoRow)

HotelStatus == [create_hotel |-> 201, update_hotel |-> 200, destroy_hotel |-> 204]

HotelRender(w) ==
    /\ pc[w] = "render"
    /\ req[w].op \in DOMAIN HotelStatus
    /\ Render(w, HotelStatus[req[w].op])
=============================================================================
