--------------------------- MODULE MCHotelSystem ----------------------------
(***************************************************************************)
(* Small instances of HotelSystem for TLC: databases to start on and the   *)
(* requests that clients keep sending.                                     *)
(***************************************************************************)
EXTENDS HotelSystemOutcomes, TLC

CONSTANTS guest, rival, boss, gone      \* ids: two users, the admin, nobody so far
CONSTANTS ann, bob, root, eve           \* usernames
CONSTANTS secret, guess                 \* passwords
CONSTANTS grand, breeze                 \* hotel names
CONSTANTS n101, n102                    \* room numbers

Workers == Permutations(Worker)
-----------------------------------------------------------------------------
(* Databases. *)

Hotel1 == [id |-> 1, name |-> grand]
Room1  == [id |-> 1, number |-> n101, hotel |-> 1]
Room2  == [id |-> 2, number |-> n102, hotel |-> 1]

User(id, username, role) ==
    [id |-> id, username |-> username, password |-> secret, role |-> role]

Users == {User(guest, ann, "user"), User(rival, bob, "user"), User(boss, root, "admin")}

OneRoom ==
    [hotels |-> {Hotel1}, rooms |-> {Room1}, users |-> Users, reservations |-> {},
     seq |-> [hotels |-> 1, rooms |-> 1, users |-> 3, reservations |-> 0]]

TwoRooms ==
    [hotels |-> {Hotel1}, rooms |-> {Room1, Room2}, users |-> Users,
     reservations |->
        {[id |-> 1, user |-> rival, room |-> 1, check_in |-> 3, check_out |-> 5]},
     seq |-> [hotels |-> 1, rooms |-> 2, users |-> 3, reservations |-> 1]]
-----------------------------------------------------------------------------
(* Requests. *)

On(day)     == [kind |-> "iso", day |-> day]
Odd(kind)   == [kind |-> kind, day |-> 2]

BookWith(who, room, in, out) ==
    [op |-> "book", as |-> who, form |-> "valid", room |-> room,
     check_in |-> in, check_out |-> out]

Book(who, room, in, out) == BookWith(who, room, On(in), On(out))

DestroyRoom(who, id)     == [op |-> "destroy_room", as |-> who, id |-> id]
DestroyOneHotel(who, id) == [op |-> "destroy_hotel", as |-> who, id |-> id]

CreateHotel(who, form, name) ==
    [op |-> "create_hotel", as |-> who, form |-> form, name |-> name, image |-> FALSE]
RenameHotel(who, form, id, name) ==
    [op |-> "update_hotel", as |-> who, form |-> form, id |-> id, name |-> name,
     image |-> FALSE]
CreateRoom(who, form, hotel, number) ==
    [op |-> "create_room", as |-> who, form |-> form, hotel |-> hotel, number |-> number,
     image |-> FALSE]
RenumberRoom(who, form, id, number) ==
    [op |-> "update_room", as |-> who, form |-> form, id |-> id, number |-> number,
     image |-> FALSE]

SignUp(form, username, password) ==
    [op |-> "sign_up", form |-> form, username |-> username, password |-> password,
     role |-> "user", image |-> FALSE]

WithImage(r) == [r EXCEPT !.image = TRUE]

LogIn(username, password) ==
    [op |-> "login", username |-> username, password |-> password]

\* Three stays that overlap in a chain, two of which only touch, while the room and
\* its hotel are destroyed.
BookingRace ==
    {Book(guest, 1, 1, 3), Book(rival, 1, 2, 4), Book(rival, 1, 3, 4),
     DestroyRoom(boss, 1), DestroyOneHotel(boss, 1)}

\* Every kind of date parameter in either place, senders of every kind.
OddDates ==
         {BookWith(guest, 1, Odd(k), On(3)) :
            k \in {"short_year", "partial", "garbled", "not_text", "missing"}}
    \cup {BookWith(guest, 1, On(2), Odd(k)) :
            k \in {"short_year", "partial", "garbled", "not_text", "missing"}}
    \cup {Book(guest, 1, 1, 2), Book(guest, 1, 2, 2), Book(guest, 1, 3, 2),
          Book(guest, 1, 2, 6), Book(rival, 1, 4, 5), Book(rival, 1, 5, 6),
          Book(rival, 2, 3, 5), Book(gone, 1, 2, 3), Book(Nobody, 1, 2, 3),
          Book(guest, 9, 2, 3),
          [Book(guest, 1, 2, 3) EXCEPT !.form = "absent"]}

\* Admins who name, number, create and destroy the same few rows.
CatalogWork ==
    {CreateHotel(boss, "valid", grand), CreateHotel(boss, "valid", breeze),
     RenameHotel(boss, "valid", 1, breeze), RenameHotel(boss, "valid", 1, grand),
     DestroyOneHotel(boss, 1),
     CreateRoom(boss, "valid", 1, n101), CreateRoom(boss, "valid", 1, n102),
     RenumberRoom(boss, "valid", 1, n102), RenumberRoom(boss, "valid", 2, n101),
     WithImage(RenameHotel(boss, "valid", 1, grand)),
     WithImage(RenumberRoom(boss, "valid", 2, n102)),
     DestroyRoom(boss, 1)}

\* Requests a filter, the parameters or a validation turn down.
CatalogRefused ==
    {CreateHotel(guest, "valid", breeze), CreateHotel(Nobody, "valid", breeze),
     CreateHotel(boss, "absent", breeze), CreateHotel(boss, "invalid", breeze),
     RenameHotel(Nobody, "valid", 9, breeze), RenameHotel(gone, "valid", 1, breeze),
     RenameHotel(boss, "absent", 1, breeze), RenameHotel(boss, "invalid", 1, breeze),
     CreateRoom(guest, "valid", 1, n102), CreateRoom(boss, "absent", 1, n102),
     CreateRoom(boss, "invalid", 1, n102), CreateRoom(boss, "valid", 9, n102),
     RenumberRoom(guest, "valid", 9, n102), RenumberRoom(boss, "valid", 9, n102),
     RenumberRoom(boss, "absent", 1, n102), RenumberRoom(boss, "invalid", 1, n102)}

\* Two who want one name, one who wants a name that is taken, those who come back, one
\* who books with the id of an account that is only being made.
Accounting ==
    {SignUp("valid", eve, secret), SignUp("valid", eve, guess),
     SignUp("valid", ann, guess), WithImage(SignUp("valid", eve, secret)),
     SignUp("absent", eve, secret), SignUp("invalid", eve, secret),
     SignUp("bad_role", eve, secret),
     LogIn(eve, secret), LogIn(eve, guess), LogIn(ann, secret),
     Book(4, 1, 2, 3)}

CatalogRequests == CatalogWork \cup CatalogRefused

Guests == OddDates \cup Accounting

\* One of each, some with an image, for the questions that need every action in one model.
EveryKind ==
    {Book(guest, 1, 1, 3), Book(rival, 1, 2, 4),
     WithImage(CreateHotel(boss, "valid", breeze)), RenameHotel(boss, "valid", 1, breeze),
     DestroyOneHotel(boss, 1),
     CreateRoom(boss, "valid", 1, n102), WithImage(RenumberRoom(boss, "valid", 1, n102)),
     DestroyRoom(boss, 1),
     SignUp("valid", eve, secret), WithImage(SignUp("valid", eve, secret))}

\* An update and the end of its row.
UpdateAgainstDestroy ==
    {RenameHotel(boss, "valid", 1, breeze), DestroyOneHotel(boss, 1),
     RenumberRoom(boss, "valid", 1, n102), DestroyRoom(boss, 1)}
=============================================================================
