---------------------------- MODULE Reservations ----------------------------
(***************************************************************************)
(* ReservationsController#create and the Reservation model.                *)
(***************************************************************************)
EXTENDS Handler

VARIABLE today      \* Date.today, as every thread reads it

BookRequest ==
    [op: {"book"}, as: Token, form: Form, room: Id,
     check_in: DateText, check_out: DateText]

\* authenticate_user!, parse_dates, find_room, in this order.  DateParser is given
\* params[:reservation]: nil has no [] and raises.
BookFilters(r) ==
    IF AuthStatus(r.as) # Pass THEN AuthStatus(r.as)
    ELSE IF r.form = "absent" THEN 500
    ELSE IF ParseDates(r.check_in, r.check_out) # Pass
         THEN ParseDates(r.check_in, r.check_out)
    ELSE IF r.room \notin Ids(db.rooms) THEN 404 ELSE Pass

BookAccept(w) ==
    \E r \in Offered :
        /\ r.op = "book"
        /\ \/ BookFilters(r) # Pass /\ Refuse(w, r, BookFilters(r))
           \/ /\ BookFilters(r) = Pass
              /\ db.seq.reservations < MaxRows
              /\ \E room \in db.rooms : room.id = r.room /\ Load(w, r, room)

\* Reservation#valid? in the database d: both dates present, check_dates, and
\* check_room_availability, which asks the loaded room.
BookValid(d, r, room) ==
    /\ HasDay(r.check_in) /\ HasDay(r.check_out)
    /\ CheckDates(Day(r.check_in), Day(r.check_out), today)
    /\ Available(d, room.id, Day(r.check_in), Day(r.check_out))

BookCheck(w) ==
    /\ pc[w] = "check"
    /\ req[w].op = "book"
    /\ \/ BookValid(db, req[w], rec[w]) /\ Proceed(w)
       \/ ~ BookValid(db, req[w], rec[w]) /\ Reject(w, 422)
    /\ UNCHANGED today

\* The row @room.reservations.build makes of the request.
Booking(d, r, room) ==
    [id        |-> d.seq.reservations + 1,
     user      |-> r.as,
     room      |-> room.id,
     check_in  |-> Day(r.check_in),
     check_out |-> Day(r.check_out)]

\* Mutant: the INSERT is not in the transaction of the validations.
BookWriteAfresh(w) ==
    /\ pc[w] = "write"
    /\ req[w].op = "book"
    /\ LET new == Booking(db, req[w], rec[w])
       IN  ExecuteAfresh(w, InsertReservation(db, new), new)
    /\ UNCHANGED today

\* INSERT INTO reservations.  The room may have been destroyed since find_room.
BookWrite(w) ==
    /\ pc[w] = "write"
    /\ req[w].op = "book"
    /\ LET new == Booking(view[w], req[w], rec[w])
       IN  Execute(w, InsertReservation(view[w], new), new)
    /\ UNCHANGED today

\* ReservationSerializer reads room.hotel.name after the commit: nil has no name.
BookRender(w) ==
    /\ pc[w] = "render"
    /\ req[w].op = "book"
    /\ Render(w, IF rec[w].hotel \in Ids(db.hotels) THEN 201 ELSE 500)
    /\ UNCHANGED today
=============================================================================
