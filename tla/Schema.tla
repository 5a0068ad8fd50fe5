------------------------------- MODULE Schema -------------------------------
(***************************************************************************)
(* The tables of db/schema.rb as sets of rows, and the facts about them    *)
(* that the ActiveRecord validations and the foreign keys are there to     *)
(* keep.  A row keeps the columns the endpoints decide on: a hotel its     *)
(* unique name, a room its unique number and its hotel, a user its unique  *)
(* username, its password and its role, a reservation its guest, its room  *)
(* and its two dates.  Dates are day numbers.                              *)
(*                                                                         *)
(* sqlite_sequence, the table behind AUTOINCREMENT, is the field seq: the  *)
(* largest id ever given out in each table.                                *)
(***************************************************************************)
EXTENDS Integers, FiniteSets

CONSTANTS
    Name,       \* values of hotels.name
    Number,     \* values of rooms.number
    Username,   \* values of users.username
    Password    \* passwords, each with its own digest

Id == Nat \ {0}

HotelRow       == [id: Id, name: Name]
RoomRow        == [id: Id, number: Number, hotel: Id]
UserRow        == [id: Id, username: Username, password: Password, role: {"user", "admin"}]
ReservationRow == [id: Id, user: Id, room: Id, check_in: Nat, check_out: Nat]

Database ==
    [hotels       : SUBSET HotelRow,
     rooms        : SUBSET RoomRow,
     users        : SUBSET UserRow,
     reservations : SUBSET ReservationRow,
     seq          : [hotels: Nat, rooms: Nat, users: Nat, reservations: Nat]]

Ids(table) == {row.id : row \in table}
-----------------------------------------------------------------------------
(* Statements. *)

\* INSERT: the row joins its table and sqlite_sequence remembers its id.
InsertHotel(d, h) ==
    [d EXCEPT !.hotels = @ \cup {h}, !.seq.hotels = h.id]

InsertRoom(d, r) ==
    [d EXCEPT !.rooms = @ \cup {r}, !.seq.rooms = r.id]

InsertUser(d, u) ==
    [d EXCEPT !.users = @ \cup {u}, !.seq.users = u.id]

InsertReservation(d, r) ==
    [d EXCEPT !.reservations = @ \cup {r}, !.seq.reservations = r.id]

\* UPDATE ... SET name / number WHERE id: no row has the id, no row changes.
UpdateHotel(d, id, name) ==
    [d EXCEPT !.hotels = {IF h.id = id THEN [h EXCEPT !.name = name] ELSE h : h \in @}]

UpdateRoom(d, id, number) ==
    [d EXCEPT !.rooms = {IF r.id = id THEN [r EXCEPT !.number = number] ELSE r : r \in @}]

\* Mutant: without dependent: :destroy.
DestroyRoomsAlone(d, ids) ==
    [d EXCEPT !.rooms = {r \in @ : r.id \notin ids}]

\* Room#destroy: the reservations of the room (dependent: :destroy), then the row.
DestroyRooms(d, ids) ==
    [d EXCEPT !.reservations = {r \in @ : r.room \notin ids},
              !.rooms        = {r \in @ : r.id \notin ids}]

\* Hotel#destroy: each of its rooms is destroyed the same way, then the row.
DestroyHotel(d, id) ==
    [DestroyRooms(d, Ids({r \in d.rooms : r.hotel = id}))
        EXCEPT !.hotels = {h \in @ : h.id # id}]
-----------------------------------------------------------------------------
(* What a database should always satisfy. *)

\* The foreign keys between the four tables.
ForeignKeysHold(d) ==
    /\ \A r \in d.rooms : r.hotel \in Ids(d.hotels)
    /\ \A r \in d.reservations : r.room \in Ids(d.rooms) /\ r.user \in Ids(d.users)

\* Ids are primary keys, and none lies beyond what sqlite_sequence gave out.
KeysUnique(table, last) ==
    /\ \A a, b \in table : a.id = b.id => a = b
    /\ \A a \in table : a.id <= last

PrimaryKeys(d) ==
    /\ KeysUnique(d.hotels, d.seq.hotels)
    /\ KeysUnique(d.rooms, d.seq.rooms)
    /\ KeysUnique(d.users, d.seq.users)
    /\ KeysUnique(d.reservations, d.seq.reservations)

\* validates :name, :number and :username, uniqueness: without a scope, so a number
\* is unique over all hotels.
LabelsUnique(d) ==
    /\ \A a, b \in d.hotels : a.name = b.name => a = b
    /\ \A a, b \in d.rooms : a.number = b.number => a = b
    /\ \A a, b \in d.users : a.username = b.username => a = b
=============================================================================
