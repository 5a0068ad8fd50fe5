------------------------------ MODULE MCListings ------------------------------
(***************************************************************************)
(* A guest with stays of the past, up to today and to come, in two hotels, *)
(* who lists them a page at a time while rooms and hotels are destroyed    *)
(* and another stay is booked.                                             *)
(***************************************************************************)
EXTENDS ListingsInvariant, TLC

CONSTANTS guest, rival, boss, gone, grand, breeze, n101, n102, ann, bob, root, secret

User(id, username, role) ==
    [id |-> id, username |-> username, password |-> secret, role |-> role]

Stay(id, who, room, in, out) ==
    [id |-> id, user |-> who, room |-> room, check_in |-> in, check_out |-> out]

\* Today is 4.
Stays ==
    [hotels |-> {[id |-> 1, name |-> grand], [id |-> 2, name |-> breeze]},
     rooms  |-> {[id |-> 1, number |-> n101, hotel |-> 1],
                 [id |-> 3, number |-> n102, hotel |-> 2]},
     users  |-> {User(guest, ann, "user"), User(rival, bob, "user"), User(boss, root, "admin")},
     reservations |->
        {Stay(1, guest, 1, 1, 2), Stay(2, guest, 1, 3, 4), Stay(3, rival, 1, 2, 3),
         Stay(4, guest, 3, 4, 5), Stay(5, guest, 3, 5, 7)},
     seq |-> [hotels |-> 2, rooms |-> 3, users |-> 3, reservations |-> 5]]

OneBooking ==
    [op |-> "book", as |-> guest, form |-> "valid", room |-> 1,
     check_in |-> [kind |-> "iso", day |-> 5], check_out |-> [kind |-> "iso", day |-> 6]]

Changes ==
    {OneBooking,
     [op |-> "destroy_room", as |-> boss, id |-> 1],
     [op |-> "destroy_hotel", as |-> boss, id |-> 2]}

Walk(all, who, per) == [all |-> all, as |-> who, per |-> per]

Asked ==
    {Walk(FALSE, guest, 1), Walk(FALSE, guest, 10), Walk(TRUE, boss, 2),
     Walk(TRUE, guest, 2), Walk(FALSE, gone, 2), Walk(FALSE, Nobody, 2),
     Walk(FALSE, guest, 0)}
=============================================================================
