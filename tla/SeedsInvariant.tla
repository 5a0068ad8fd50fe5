---------------------------- MODULE SeedsInvariant ----------------------------
(***************************************************************************)
(* The inductive invariant of Seeds: why a script that takes its           *)
(* transactions like any thread, and writes outside transactions between   *)
(* them, leaves the database sound under a server that is up, and leaves   *)
(* exactly its own rows when the server commits nothing.                   *)
(***************************************************************************)
EXTENDS Seeds, HotelSystemInvariant

\* The threads of the server: the seeds serve no requests.
Threads == Worker \ {Seeder}

Tables == {"users", "hotels", "rooms", "reservations"}

\* The lines that empty, start over and fill a table, and the records the last one makes.
ClearedAt == [users |-> 4, hotels |-> 5, rooms |-> 6, reservations |-> 7]
ResetAt   == [users |-> 10, hotels |-> 12, rooms |-> 11, reservations |-> 13]
FilledAt  == [users |-> 16, hotels |-> 33, rooms |-> 41, reservations |-> 51]
Records   == [users |-> 3, hotels |-> 2, rooms |-> 4, reservations |-> 2]

\* A statement before its records, at them, and after them: the lines run in the order
\* they are written in.
NotYet(t)  == line < FilledAt[t] \/ (line = FilledAt[t] /\ stage = "load")
Filling(t) == line = FilledAt[t] /\ stage # "load"
Filled(t)  == FilledAt[t] < line

\* The statement under way is at one of its stages.
Staged ==
    /\ line \in {0, 58} \cup Statement
    /\ stage \in {"load", "next", "write", "commit"}
    /\ stage # "load" => line \in DOMAIN Clears \cup DOMAIN Fills
    /\ left \in SUBSET Id
    /\ stage \in {"write", "commit"} => left # {}
    /\ day \in Nat /\ runs \in 0..MaxRuns /\ alone \in BOOLEAN

\* The arrays users, hotels and rooms hold an id for each record made so far.
ArraysFilled ==
    /\ held \in [users : Seq(Id), hotels : Seq(Id), rooms : Seq(Id)]
    /\ \A t \in {"users", "hotels", "rooms"} :
          /\ NotYet(t) => held[t] = <<>>
          /\ Filling(t) => /\ Len(held[t]) <= Records[t]
                           /\ left = (Len(held[t]) + 1)..Records[t]
          /\ Filled(t) => Len(held[t]) = Records[t]
    /\ Filling("reservations") => left \subseteq 1..2

\* What the validations of a record found in the snapshot of its transaction, whatever
\* day it has become.
SeedChecked(d, table, i) ==
    CASE table = "users"  -> UsernameFree(d, UserSeeds[i])
      [] table = "hotels" -> NameFree(d, HotelSeeds[i], 0)
      [] table = "rooms"  -> NumberFree(d, RoomSeeds[i], 0)
      [] table = "reservations" ->
            /\ Ancient < StaySeed(d, i).check_in
            /\ Available(d, StaySeed(d, i).room, StaySeed(d, i).check_in,
                         StaySeed(d, i).check_out)

\* The seeds are in a transaction from the validations of a record to its COMMIT, like a
\* thread; what they commit is sound and nothing but their own change.
OwnTransaction ==
    /\ InTransaction(Seeder) <=> stage \in {"write", "commit"}
    /\ writer = Seeder <=> stage = "commit"
    /\ Seeder \in stale => stage = "write"
    /\ stage = "write" /\ Seeder \notin stale => view[Seeder] = db
    /\ stage = "write" /\ line \in DOMAIN Fills
          => SeedChecked(view[Seeder], Fills[line], Min(left))
    /\ stage = "commit" => view[Seeder] = Changed(db) /\ Sound(view[Seeder])

\* The seeds and the server together keep the database sound.
SeedsInv ==
    /\ ServerInv(Threads)
    /\ Staged
    /\ ArraysFilled
    /\ OwnTransaction
-----------------------------------------------------------------------------
(* What the seeds find and leave while no request commits. *)

\* The i-th record of a table, when its id is i and so are the ids it refers to.
SeedRow(table, i) ==
    CASE table = "users" ->
            [id |-> i, username |-> UserSeeds[i], password |-> SeedPassword,
             role |-> IF i = 1 THEN "admin" ELSE "user"]
      [] table = "hotels" -> [id |-> i, name |-> HotelSeeds[i]]
      [] table = "rooms"  ->
            [id |-> i, number |-> RoomSeeds[i], hotel |-> IF i <= 2 THEN 1 ELSE 2]
      [] table = "reservations" ->
            [id |-> i, user |-> i + 1, room |-> 2 * i - 1,
             check_in |-> day + i - 1, check_out |-> day + i + 2]

\* A statement that destroys has loaded whatever is left of its table, and the table
\* stays empty until its ids have been started over.
Emptied(t) ==
    /\ line = ClearedAt[t] /\ stage # "load" => Ids(db[t]) \subseteq left
    /\ ClearedAt[t] < line /\ line <= ResetAt[t] => db[t] = {}

\* From there the table holds the records made so far, with the ids 1, 2, 3 and so on,
\* and the array of the script the same ids.
Rebuilt(t) ==
    ResetAt[t] < line =>
        /\ db[t] = {SeedRow(t, i) : i \in 1..db.seq[t]}
        /\ NotYet(t) => db.seq[t] = 0
        /\ Filling(t) => db.seq[t] <= Records[t] /\ left = (db.seq[t] + 1)..Records[t]
        /\ Filled(t) => db.seq[t] = Records[t]
        /\ t # "reservations" => held[t] = [i \in 1..db.seq[t] |-> i]

\* Nobody else has committed since the seeds were started.
Whole == alone /\ line # 0 => \A t \in Tables : Emptied(t) /\ Rebuilt(t)

WholeInv == SeedsInv /\ Whole
-----------------------------------------------------------------------------
(* What the ids in the arrays mean while nobody renames. *)

\* Only these requests change a row that is there.
NoRenaming == \A r \in Offered : r.op \notin {"update_hotel", "update_room"}

\* The hotels and rooms of e are those of d, or have ids d has not given out.
OnlyNew(d, e) ==
    /\ \A h \in e.hotels : h \in d.hotels \/ h.id > d.seq.hotels
    /\ \A r \in e.rooms : r \in d.rooms \/ r.id > d.seq.rooms
    /\ e.seq.hotels >= d.seq.hotels /\ e.seq.rooms >= d.seq.rooms

\* Ids in the arrays were given out, so no row that comes later has one, and the rows that
\* do are those the script made.
MeantAsMade(d) ==
    /\ \A i \in DOMAIN held.hotels :
         /\ held.hotels[i] <= d.seq.hotels
         /\ \A h \in d.hotels : h.id = held.hotels[i] => h.name = HotelSeeds[i]
    /\ \A i \in DOMAIN held.rooms :
         /\ held.rooms[i] <= d.seq.rooms
         /\ \A r \in d.rooms : r.id = held.rooms[i] =>
               r.number = RoomSeeds[i] /\ r.hotel = held.hotels[(i + 1) \div 2]

MeantInv ==
    /\ SeedsInv
    /\ MeantAsMade(db)
    /\ \A w \in Threads : pc[w] = "commit" => OnlyNew(db, view[w])
=============================================================================
