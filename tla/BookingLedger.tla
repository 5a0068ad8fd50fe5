---------------------------- MODULE BookingLedger ----------------------------
(***************************************************************************)
(* What the booking system promises, with no threads, no transactions and  *)
(* no failures: a ledger of stays of registered guests in rooms that open  *)
(* and close.                                                              *)
(*                                                                         *)
(*   - a stay is entered for a guest, in an open room, on nights nobody    *)
(*     else has;                                                           *)
(*   - a stay, once entered, never changes and leaves the ledger only      *)
(*     because its room closes;                                            *)
(*   - an id once given to a stay, a room or a guest is never given again. *)
(***************************************************************************)
EXTENDS Integers

CONSTANT Days

VARIABLES
    ledger,     \* the stays
    rooms,      \* the ids of the open rooms
    guests,     \* the ids of the registered guests
    lastStay,   \* the last id given to a stay
    lastRoom,   \* the last id given to a room
    lastGuest   \* the last id given to a guest

books == <<ledger, rooms, guests, lastStay, lastRoom, lastGuest>>

Slept(stay) == stay.check_in .. (stay.check_out - 1)

Init ==
    /\ rooms \subseteq 1..lastRoom /\ guests \subseteq 1..lastGuest
    /\ \A s \in ledger : s.room \in rooms /\ s.user \in guests /\ s.id \in 1..lastStay
    /\ \A s, t \in ledger : s # t /\ s.room = t.room => Slept(s) \cap Slept(t) = {}

Book(guest, room, in, out) ==
    LET stay == [id |-> lastStay + 1, user |-> guest, room |-> room,
                 check_in |-> in, check_out |-> out]
    IN  /\ in < out
        /\ \A s \in ledger : s.room = room => Slept(s) \cap Slept(stay) = {}
        /\ ledger' = ledger \cup {stay}
        /\ lastStay' = lastStay + 1
        /\ UNCHANGED <<rooms, guests, lastRoom, lastGuest>>

Register ==
    /\ lastGuest' = lastGuest + 1
    /\ guests' = guests \cup {lastGuest + 1}
    /\ UNCHANGED <<ledger, rooms, lastStay, lastRoom>>

Open ==
    /\ lastRoom' = lastRoom + 1
    /\ rooms' = rooms \cup {lastRoom + 1}
    /\ UNCHANGED <<ledger, guests, lastStay, lastGuest>>

\* A room closes, or all the rooms of a hotel at once.
Close(gone) ==
    /\ rooms' = rooms \ gone
    /\ ledger' = {s \in ledger : s.room \notin gone}
    /\ UNCHANGED <<guests, lastStay, lastRoom, lastGuest>>

Next ==
    \/ \E guest \in guests, room \in rooms, in, out \in Days : Book(guest, room, in, out)
    \/ Register
    \/ Open
    \/ \E gone \in SUBSET rooms : Close(gone)

Spec == Init /\ [][Next]_books
=============================================================================
