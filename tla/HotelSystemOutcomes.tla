------------------------- MODULE HotelSystemOutcomes -------------------------
(***************************************************************************)
(* What a request knows of the database from its before_actions to its     *)
(* answer, whatever other requests commit meanwhile: the second inductive  *)
(* invariant of HotelSystem, on top of IInv.                               *)
(***************************************************************************)
EXTENDS HotelSystemInvariant

\* What no commit takes back.  An account stays; a stay leaves only with its room; the
\* rows that are new have ids never given out before, so no id comes back; and a room
\* stays in its hotel.
Remembers(d, e) ==
    /\ d.users \subseteq e.users
    /\ \A s \in d.reservations : s \in e.reservations \/ s.room \notin Ids(e.rooms)
    /\ \A s \in e.reservations : s \in d.reservations \/ s.id > d.seq.reservations
    /\ \A h \in e.hotels : h.id \in Ids(d.hotels) \/ h.id > d.seq.hotels
    /\ \A r \in e.rooms :
         \/ \E q \in d.rooms : q.id = r.id /\ q.hotel = r.hotel
         \/ r.id > d.seq.rooms
    /\ e.seq.hotels >= d.seq.hotels
    /\ e.seq.rooms >= d.seq.rooms
    /\ e.seq.users >= d.seq.users
    /\ e.seq.reservations >= d.seq.reservations

NothingForgotten == [][Remembers(db, db')]_db

\* An id that was given out and has no row any more.
RoomGone(id)  == id <= db.seq.rooms /\ id \notin Ids(db.rooms)
HotelGone(id) == id <= db.seq.hotels /\ id \notin Ids(db.hotels)

\* The reservation w made is stored, or its room is gone and took it along.
Booked(w) ==
    /\ made[w] \in ReservationRow
    /\ made[w].room = req[w].room
    /\ made[w].id <= db.seq.reservations
    /\ made[w] \in db.reservations \/ RoomGone(req[w].room)

\* The reservation w made, if any, is not stored and cannot come back.
NotBooked(w) ==
    /\ made[w] \notin db.reservations
    /\ made[w] # NoRow =>
          made[w] \in ReservationRow /\ made[w].id <= db.seq.reservations

\* Nothing is made before the write.
Fresh(w) == pc[w] \in {"idle", "check", "write"} => made[w] = NoRow

\* The row the before_actions loaded is the one that was asked for, and though it may be
\* gone, no other row has its id or, if it is a room, a hotel other than it had.  The
\* guest who books has an account, and a new room was validated with its hotel there.
Found(w) ==
    /\ pc[w] \in {"write", "commit", "render"} => req[w].op # "login"
    /\ pc[w] \in {"check", "write", "commit", "render"} =>
        /\ req[w].op = "book" =>
              /\ rec[w].id = req[w].room
              /\ rec[w].id <= db.seq.rooms
              /\ \A r \in db.rooms : r.id = rec[w].id => r.hotel = rec[w].hotel
              /\ req[w].as \in Ids(db.users)
        /\ req[w].op = "destroy_room" => rec[w].id = req[w].id /\ rec[w].id <= db.seq.rooms
        /\ req[w].op = "destroy_hotel" => rec[w].id = req[w].id /\ rec[w].id <= db.seq.hotels
        /\ req[w].op = "login" => rec[w] \in db.users
    /\ pc[w] = "write" /\ req[w].op = "create_room" => req[w].hotel \in Ids(view[w].hotels)

\* What the statements of request r, which loaded row, make of d: the database e, with
\* new for the row they leave.
Wrote(d, r, row, new, e) ==
    /\ r.op = "book" => new = Booking(d, r, row) /\ e = InsertReservation(d, new)
    /\ r.op = "create_hotel" =>
          new = [id |-> d.seq.hotels + 1, name |-> r.name] /\ e = InsertHotel(d, new)
    /\ r.op = "update_hotel" => e = UpdateHotel(d, row.id, r.name)
    /\ r.op = "destroy_hotel" => e = DestroyHotel(d, row.id)
    /\ r.op = "create_room" =>
          /\ new = [id |-> d.seq.rooms + 1, number |-> r.number, hotel |-> r.hotel]
          /\ e = InsertRoom(d, new)
    /\ r.op = "update_room" => e = UpdateRoom(d, row.id, r.number)
    /\ r.op = "destroy_room" => e = DestroyRooms(d, {row.id})
    /\ r.op = "sign_up" => new = Account(d, r) /\ e = InsertUser(d, new)

\* The writer's snapshot is what its statements make of the committed database.
Written(w) == pc[w] = "commit" => Wrote(db, req[w], rec[w], made[w], view[w])

\* What was committed is there until a later commit may take it away.
Committed(w) ==
    pc[w] = "render" =>
        /\ req[w].op = "book" => Booked(w)
        /\ req[w].op = "sign_up" => made[w] \in db.users
        /\ req[w].op = "destroy_room" => RoomGone(req[w].id)
        /\ req[w].op = "destroy_hotel" => HotelGone(req[w].id)

\* What the status told the client is true, and stays true.
Answered(w) ==
    pc[w] = "answered" =>
        /\ req[w].op = "book" => IF resp[w] = 201 THEN Booked(w) ELSE NotBooked(w)
        /\ req[w].op = "sign_up" /\ resp[w] \in {200, 201} => made[w] \in db.users
        /\ req[w].op # "book" /\ resp[w] >= 400 =>
              made[w] = NoRow \/ (resp[w] = 500 /\ Pictured(w))
        /\ req[w].op = "login" /\ resp[w] \in {200, 201} => rec[w] \in db.users
        /\ resp[w] = 204 =>
              /\ req[w].op = "destroy_room" => RoomGone(req[w].id)
              /\ req[w].op = "destroy_hotel" => HotelGone(req[w].id)

Outcome(w) == Fresh(w) /\ Found(w) /\ Written(w) /\ Committed(w) /\ Answered(w)

\* With the outcomes, what is stored and what clients were told agree.
OInv ==
    /\ IInv
    /\ \A w \in Worker : Outcome(w)
=============================================================================
