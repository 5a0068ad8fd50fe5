-------------------------------- MODULE Seeds --------------------------------
(***************************************************************************)
(* db/seeds.rb, run beside a server that may be up: a process that clears  *)
(* the tables record by record, starts their ids over, and fills them      *)
(* again, every record in a transaction of its own.  It stops at the first *)
(* exception, may be killed anywhere, and is run again.                    *)
(*                                                                         *)
(* Attaching an image writes only tables that are not modelled; the four   *)
(* readings of the clock on lines 53 and 54 are taken as one.              *)
(***************************************************************************)
EXTENDS HotelSystem, FiniteSetsExt, Sequences

CONSTANTS
    Seeder,         \* the process that runs db/seeds.rb, with its connection
    UserSeeds,      \* the usernames of lines 18 to 21, admin first
    HotelSeeds,     \* the names of lines 35 and 36
    RoomSeeds,      \* the numbers of lines 43 to 46
    SeedPassword,   \* the password of all three
    MaxRuns         \* bound: how often the seeds are run

ASSUME SeederAssumption == Seeder \in Worker
ASSUME SeedsAssumption ==
    /\ UserSeeds \in [1..3 -> Username] /\ HotelSeeds \in [1..2 -> Name]
    /\ RoomSeeds \in [1..4 -> Number] /\ SeedPassword \in Password
    /\ MaxRuns \in Nat

VARIABLES
    line,       \* the statement under way, by its line; 0 when no seeds run, 58 at the end
    stage,      \* load, next, write or commit: how far the statement is
    left,       \* the ids or positions the statement has yet to destroy or create
    held,       \* the ids in the variables users, hotels and rooms
    day,        \* what Date.today was on line 53
    runs,       \* how often the seeds were started
    alone       \* no request has committed since they were

seedVars == <<line, stage, left, held, day, runs, alone>>

\* The statements, by their lines.
Statement == {4, 5, 6, 7, 10, 11, 12, 13, 16, 27, 29, 33, 41, 51}

\* The order they run in.
Following == [l \in Statement |->
    CASE l = 4 -> 5 [] l = 5 -> 6 [] l = 6 -> 7 [] l = 7 -> 10
      [] l = 10 -> 11 [] l = 11 -> 12 [] l = 12 -> 13 [] l = 13 -> 16
      [] l = 16 -> 27 [] l = 27 -> 29 [] l = 29 -> 33 [] l = 33 -> 41
      [] l = 41 -> 51 [] l = 51 -> 58]

\* The table that a statement empties, starts over or fills.
Clears == [l \in {4, 5, 6, 7} |->
    CASE l = 4 -> "users" [] l = 5 -> "hotels" [] l = 6 -> "rooms" [] l = 7 -> "reservations"]
Resets == [l \in {10, 11, 12, 13} |->
    CASE l = 10 -> "users" [] l = 11 -> "rooms" [] l = 12 -> "hotels" [] l = 13 -> "reservations"]
Fills == [l \in {16, 33, 41, 51} |->
    CASE l = 16 -> "users" [] l = 33 -> "hotels" [] l = 41 -> "rooms" [] l = 51 -> "reservations"]

Running == line \notin {0, 58}

Nothing == [users |-> <<>>, hotels |-> <<>>, rooms |-> <<>>]

Forgotten ==
    /\ stage' = "load" /\ left' = {} /\ held' = Nothing /\ day' = 0

\* Mutant: the transaction of a process that ended stays open.
StopOpen ==
    /\ line' = 0
    /\ Forgotten
    /\ UNCHANGED <<runs, alone, vars, today>>

\* An exception nobody rescues ends the process.
Stop ==
    /\ line' = 0
    /\ Forgotten
    /\ Rollback(Seeder)
    /\ UNCHANGED <<runs, alone, handlerVars, today>>

Advance ==
    /\ line' = Following[line]
    /\ stage' = "load"
    /\ UNCHANGED <<left, held, day, runs, alone>>

\* rails db:seed
Start ==
    /\ ~ Running
    /\ runs < MaxRuns
    /\ line' = 4
    /\ Forgotten
    /\ runs' = runs + 1
    /\ alone' = TRUE
    /\ UNCHANGED <<vars, today>>
-----------------------------------------------------------------------------
(* destroy_all: loads the records, then destroys each. *)

LoadAll ==
    /\ line \in DOMAIN Clears /\ stage = "load"
    /\ left' = Ids(db[Clears[line]])
    /\ stage' = "next"
    /\ UNCHANGED <<line, held, day, runs, alone, vars, today>>

\* User#destroy: its reservations (dependent: :destroy), then the row.
DestroyUser(d, id) ==
    [d EXCEPT !.reservations = {r \in @ : r.user # id},
              !.users        = {u \in @ : u.id # id}]

Destroyed(d, table, id) ==
    CASE table = "users"        -> DestroyUser(d, id)
      [] table = "hotels"       -> DestroyHotel(d, id)
      [] table = "rooms"        -> DestroyRooms(d, {id})
      [] table = "reservations" -> [d EXCEPT !.reservations = {r \in @ : r.id # id}]
-----------------------------------------------------------------------------
(* DELETE FROM sqlite_sequence, and image.attach: nothing read before. *)

\* A statement outside a transaction waits for the write lock, and supersedes what
\* others have read.
Autocommit(d) ==
    /\ writer = NoOne
    /\ db' = d
    /\ stale' = {w \in Worker : InTransaction(w)}
    /\ UNCHANGED <<view, writer, handlerVars, today>>

\* The largest id in a table, 0 when it is empty.
Largest(ids) == Max(ids \cup {0})

\* Mutant: the ids go on from where they were.
NotStartedOver(d, table) == d

\* Mutant: the ids start over whatever is left in the table.
StartedOverBlindly(d, table) == [d EXCEPT !.seq[table] = 0]

\* With its row in sqlite_sequence gone the next id follows the largest in the table.
StartedOver(d, table) == [d EXCEPT !.seq[table] = Largest(Ids(d[table]))]

ResetSequence ==
    /\ line \in DOMAIN Resets
    /\ \/ Autocommit(StartedOver(db, Resets[line])) /\ Advance
       \/ writer # NoOne /\ Stop      \* the busy timeout of database.yml runs out

\* File.open raises when the picture is not on this machine.
AttachImage ==
    /\ line \in {27, 29}
    /\ \/ Autocommit(db) /\ Advance
       \/ Stop
-----------------------------------------------------------------------------
(* create!: each record is validated and inserted in its own transaction. *)

LoadSeeds ==
    /\ line \in DOMAIN Fills /\ stage = "load"
    /\ left' = CASE line = 16 -> 1..3 [] line = 33 -> 1..2 [] line = 41 -> 1..4 [] line = 51 -> 1..2
    /\ day' = IF line = 51 THEN today ELSE day
    /\ stage' = "next"
    /\ UNCHANGED <<line, held, runs, alone, vars, today>>

\* The i-th record of the statement, with the next id of d.
UserSeed(d, i) ==
    [id |-> d.seq.users + 1, username |-> UserSeeds[i], password |-> SeedPassword,
     role |-> IF i = 1 THEN "admin" ELSE "user"]

HotelSeed(d, i) == [id |-> d.seq.hotels + 1, name |-> HotelSeeds[i]]

\* Two rooms to each hotel.
RoomSeed(d, i) ==
    [id |-> d.seq.rooms + 1, number |-> RoomSeeds[i], hotel |-> held.hotels[(i + 1) \div 2]]

\* The first room of each hotel, for the second and third user.
StaySeed(d, i) ==
    [id |-> d.seq.reservations + 1, user |-> held.users[i + 1], room |-> held.rooms[2 * i - 1],
     check_in |-> day + i - 1, check_out |-> day + i + 2]

\* The validations of the i-th record; create! raises when they fail.
SeedValid(d, table, i) ==
    CASE table = "users"  -> UsernameFree(d, UserSeeds[i])
      [] table = "hotels" -> NameFree(d, HotelSeeds[i], 0)
      [] table = "rooms"  -> /\ NumberFree(d, RoomSeeds[i], 0)
                             /\ RoomSeed(d, i).hotel \in Ids(d.hotels)
      [] table = "reservations" ->
            LET stay == StaySeed(d, i)
            IN  /\ stay.user \in Ids(d.users) /\ stay.room \in Ids(d.rooms)
                /\ CheckDates(stay.check_in, stay.check_out, today)
                /\ Available(d, stay.room, stay.check_in, stay.check_out)

Inserted(d, table, i) ==
    CASE table = "users"        -> InsertUser(d, UserSeed(d, i))
      [] table = "hotels"       -> InsertHotel(d, HotelSeed(d, i))
      [] table = "rooms"        -> InsertRoom(d, RoomSeed(d, i))
      [] table = "reservations" -> InsertReservation(d, StaySeed(d, i))

\* users, hotels and rooms are arrays of what create! returned.
Kept(d, table) ==
    IF table = "reservations" THEN held ELSE [held EXCEPT ![table] = Append(@, d.seq[table])]
-----------------------------------------------------------------------------
(* The transaction of the next record. *)

\* BEGIN, then the dependents of a record to destroy or the validations of a new one.
BeginRecord ==
    /\ stage = "next" /\ left # {}
    /\ \/ /\ line \in DOMAIN Fills => SeedValid(db, Fills[line], Min(left))
          /\ BeginRead(Seeder)
          /\ stage' = "write"
          /\ UNCHANGED <<line, left, held, day, runs, alone, handlerVars, today>>
       \/ /\ line \in DOMAIN Fills /\ ~ SeedValid(db, Fills[line], Min(left))
          /\ Stop

\* What the statements of the record make of the snapshot.
Changed(d) ==
    IF line \in DOMAIN Clears THEN Destroyed(d, Clears[line], Min(left))
    ELSE Inserted(d, Fills[line], Min(left))

\* Mutant: a transaction that cannot write waits until it can.
WriteRecordWaiting ==
    /\ stage = "write"
    /\ CanWrite(Seeder)
    /\ Write(Seeder, Changed(view[Seeder]))
    /\ stage' = "commit"
    /\ UNCHANGED <<line, left, held, day, runs, alone, handlerVars, today>>

WriteRecord ==
    /\ stage = "write"
    /\ LET d == Changed(view[Seeder])
       IN  \/ /\ CanWrite(Seeder) /\ ForeignKeysHold(d)
              /\ Write(Seeder, d)
              /\ stage' = "commit"
              /\ UNCHANGED <<line, left, held, day, runs, alone, handlerVars, today>>
           \/ ~ (CanWrite(Seeder) /\ ForeignKeysHold(d)) /\ Stop

CommitRecord ==
    /\ stage = "commit"
    /\ Commit(Seeder, FALSE)
    /\ held' = IF line \in DOMAIN Fills THEN Kept(view[Seeder], Fills[line]) ELSE held
    /\ left' = left \ {Min(left)}
    /\ stage' = "next"
    /\ UNCHANGED <<line, day, runs, alone, handlerVars, today>>

\* The statement is through all its records.
NextStatement ==
    /\ stage = "next" /\ left = {}
    /\ Advance
    /\ UNCHANGED <<vars, today>>
-----------------------------------------------------------------------------
SeedStep ==
    /\ Running
    /\ \/ LoadAll \/ LoadSeeds
       \/ BeginRecord \/ WriteRecord \/ CommitRecord \/ NextStatement
       \/ ResetSequence \/ AttachImage

\* The process is killed.
SeederDies == Running /\ Stop

\* A step of the server, during or between the seeds.
Beside(step) ==
    /\ step
    /\ alone' = (alone /\ db' = db)
    /\ UNCHANGED <<line, stage, left, held, day, runs>>

SeedsInit ==
    /\ Init
    /\ line = 0 /\ stage = "load" /\ left = {}
    /\ held = Nothing
    /\ day = 0 /\ runs = 0 /\ alone = TRUE

SeedsNext ==
    \/ Start
    \/ SeedStep
    \/ SeederDies
    \/ \E w \in Worker \ {Seeder} : Beside(Accept(w) \/ Serve(w) \/ Die(w))
    \/ Beside(Midnight)

allSeedVars == <<allVars, seedVars>>

\* The operating system schedules the seeds and the threads; nobody has to run the
\* seeds, and nothing makes them die.
SeedsSpec ==
    /\ SeedsInit /\ [][SeedsNext]_allSeedVars
    /\ WF_allSeedVars(SeedStep)
    /\ \A w \in Worker \ {Seeder} : WF_allSeedVars(Beside(Serve(w)))
-----------------------------------------------------------------------------
\* The variables of the seeds keep their types, while those of the server do.
SeedsTypeOK ==
    /\ TypeOK
    /\ line \in {0, 58} \cup Statement
    /\ stage \in {"load", "next", "write", "commit"}
    /\ left \subseteq Id
    /\ \A table \in DOMAIN held : \A i \in DOMAIN held[table] : held[table][i] \in Id
    /\ day \in Nat /\ runs \in 0..MaxRuns /\ alone \in BOOLEAN
    /\ Running \/ view[Seeder] = NoSnapshot

\* The rows seeds.rb spells out, with ids from 1.
Seeded ==
    [users |-> {[id |-> i, username |-> UserSeeds[i], password |-> SeedPassword,
                 role |-> IF i = 1 THEN "admin" ELSE "user"] : i \in 1..3},
     hotels |-> {[id |-> i, name |-> HotelSeeds[i]] : i \in 1..2},
     rooms |-> {[id |-> i, number |-> RoomSeeds[i],
                 hotel |-> IF i <= 2 THEN 1 ELSE 2] : i \in 1..4},
     reservations |-> {[id |-> 1, user |-> 2, room |-> 1, check_in |-> day, check_out |-> day + 3],
                       [id |-> 2, user |-> 3, room |-> 3, check_in |-> day + 1,
                        check_out |-> day + 4]},
     seq |-> [users |-> 3, hotels |-> 2, rooms |-> 4, reservations |-> 2]]

\* Seeds that reach their last line undisturbed leave their rows and no others, with ids
\* that start at 1, whatever the table held before and wherever earlier runs died.
SeededWhole == line = 58 /\ alone => db = Seeded

\* An id the seeds keep in a variable never comes to mean another hotel or room than the one
\* they made: the rooms and the stays they add go where seeds.rb says.
HeldIdsStay ==
    Running =>
        /\ \A i \in DOMAIN held.hotels : \A h \in db.hotels :
              h.id = held.hotels[i] => h.name = HotelSeeds[i]
        /\ \A i \in DOMAIN held.rooms : \A r \in db.rooms :
              r.id = held.rooms[i] =>
                  r.number = RoomSeeds[i] /\ r.hotel = held.hotels[(i + 1) \div 2]

\* A run of the seeds comes to its last line, to an exception or to its death: it never
\* waits for a lock that is not coming.
SeedingEnds == Running ~> ~ Running
=============================================================================
