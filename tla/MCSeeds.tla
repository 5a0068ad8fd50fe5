------------------------------- MODULE MCSeeds -------------------------------
(***************************************************************************)
(* Small instances of Seeds for TLC: the server has one thread and a       *)
(* database somebody has used.                                             *)
(***************************************************************************)
EXTENDS Seeds

CONSTANTS admin, test, test1            \* usernames
CONSTANTS secret                        \* the password
CONSTANTS grand, ocean, inn                  \* hotel names
CONSTANTS n101, n102, n201, n202        \* room numbers

Accounts3 == <<admin, test, test1>>
Hotels2   == <<grand, ocean>>
Rooms4    == <<n101, n102, n201, n202>>

\* A hotel with a name of the seeds, one room taken by the admin, and ids beyond the rows.
Used ==
    [hotels |-> {[id |-> 2, name |-> ocean]},
     rooms |-> {[id |-> 3, number |-> n101, hotel |-> 2]},
     users |-> {[id |-> 1, username |-> admin, password |-> secret, role |-> "admin"]},
     reservations |-> {[id |-> 1, user |-> 1, room |-> 3, check_in |-> 2, check_out |-> 3]},
     seq |-> [hotels |-> 3, rooms |-> 3, users |-> 1, reservations |-> 1]]

On(d) == [kind |-> "iso", day |-> d]

\* A stay in the first room, a hotel of its own, the end of a hotel, and an account
\* with the name of one the seeds make.
Requests ==
    {[op |-> "book", as |-> 2, form |-> "valid", room |-> 1, check_in |-> On(3),
      check_out |-> On(5)],
     [op |-> "create_hotel", as |-> 1, form |-> "valid", name |-> inn, image |-> FALSE],
     [op |-> "destroy_hotel", as |-> 1, id |-> 2],
     [op |-> "sign_up", form |-> "valid", username |-> test, password |-> secret,
      role |-> "user", image |-> FALSE]}
=============================================================================
