----------------------------- MODULE HotelSystem -----------------------------
(***************************************************************************)
(* The whole API at work: the threads of Puma serve bookings, hotels,      *)
(* rooms and accounts against one database, processes die, days pass.      *)
(***************************************************************************)
EXTENDS Reservations, Hotels, Rooms, Accounts

CONSTANTS
    Initial,    \* the database the server starts on
    FirstDay,   \* today when it starts
    LastDay     \* bound: the clock stops here

\* What holds of a database the application itself has filled.
Sound(d) ==
    /\ PrimaryKeys(d)
    /\ ForeignKeysHold(d)
    /\ LabelsUnique(d)
    /\ ProperStays(d)
    /\ NoSharedNight(d)

ASSUME InitialAssumption == Initial \in Database /\ Sound(Initial)
ASSUME DayAssumption == FirstDay \in Id /\ LastDay \in Id /\ FirstDay <= LastDay
ASSUME OfferedAssumption == Offered \subseteq BookRequest \cup HotelRequest \cup RoomRequest
                                   \cup SignUpRequest \cup LoginRequest
ASSUME BlankAssumption ==
    /\ NoRequest \notin Offered
    /\ NoRow \notin HotelRow \cup RoomRow \cup UserRow \cup ReservationRow

Init ==
    /\ db = Initial
    /\ today = FirstDay
    /\ HandlerInit

\* The clock of the machine, whatever the threads are in the middle of.
Midnight ==
    /\ today < LastDay
    /\ today' = today + 1
    /\ UNCHANGED vars

BookStep(w) == BookCheck(w) \/ BookWrite(w) \/ BookRender(w)

HotelStep(w) ==
    /\ \/ HotelCreateCheck(w) \/ HotelCreateWrite(w)
       \/ HotelUpdateCheck(w) \/ HotelUpdateWrite(w)
       \/ HotelDestroyCheck(w) \/ HotelDestroyWrite(w)
       \/ HotelRender(w)
    /\ UNCHANGED today

RoomStep(w) ==
    /\ \/ RoomCreateCheck(w) \/ RoomCreateWrite(w)
       \/ RoomUpdateCheck(w) \/ RoomUpdateWrite(w)
       \/ RoomDestroyCheck(w) \/ RoomDestroyWrite(w)
       \/ RoomRender(w)
    /\ UNCHANGED today

AccountStep(w) ==
    /\ SignUpCheck(w) \/ SignUpWrite(w) \/ SignUpRender(w) \/ LoginRender(w)
    /\ UNCHANGED today

\* A new request: it reaches its before_actions.
Accept(w) ==
    /\ BookAccept(w) \/ HotelAccept(w) \/ RoomAccept(w) \/ SignUpAccept(w) \/ LoginAccept(w)
    /\ UNCHANGED today

\* A request under way makes a step.
Serve(w) ==
    \/ BookStep(w)
    \/ HotelStep(w)
    \/ RoomStep(w)
    \/ AccountStep(w)
    \/ CommitWrite(w) /\ UNCHANGED today
    \/ Finish(w) /\ UNCHANGED today

Die(w) == Crash(w) /\ UNCHANGED today

Next ==
    \/ \E w \in Worker : Accept(w) \/ Serve(w) \/ Die(w)
    \/ Midnight

allVars == <<vars, today>>

Spec == Init /\ [][Next]_allVars

\* The operating system schedules every thread; nothing makes clients send, the
\* process die or a thread wait for another.
FairSpec == Spec /\ \A w \in Worker : WF_allVars(Serve(w))
-----------------------------------------------------------------------------
\* What the guests and the front desk are promised: guests registered, bookings, rooms
\* opened and rooms closed as if each happened at one instant.
DaysOffered ==
    UNION {{Day(r.check_in), Day(r.check_out)} : r \in {q \in Offered : q.op = "book"}}

Ledger == INSTANCE BookingLedger WITH
    Days      <- DaysOffered,
    ledger    <- db.reservations,
    rooms     <- Ids(db.rooms),
    guests    <- Ids(db.users),
    lastStay  <- db.seq.reservations,
    lastRoom  <- db.seq.rooms,
    lastGuest <- db.seq.users

\* The API implements the ledger: what its transactions do between their first
\* SELECT and their COMMIT looks like one step, or like nothing at all.
LedgerSpec == Ledger!Spec

\* The statuses the application answers with; 0 is no answer yet.
Status == {0, 200, 201, 204, 400, 401, 404, 422, 500}

\* Every variable keeps its type, across all request kinds and all failures.
TypeOK ==
    /\ StoreTypeOK
    /\ today \in Id
    /\ pc \in [Worker -> Stage]
    /\ req \in [Worker -> Offered \cup {NoRequest}]
    /\ rec \in [Worker -> HotelRow \cup RoomRow \cup UserRow \cup {NoRow}]
    /\ made \in [Worker -> HotelRow \cup RoomRow \cup UserRow \cup ReservationRow \cup {NoRow}]
    /\ resp \in [Worker -> Status]

\* No two stored reservations of a room share a night: check_room_availability
\* reads and the INSERT writes at different times, and nothing in the schema
\* forbids the overlap.
NoDoubleBooking == NoSharedNight(db)

\* Every stored stay has at least one night and lies in this age, though DateParser
\* and the cast of the attribute disagree on what the parameters mean.
StaysAreProper == ProperStays(db)

\* Names of hotels and users and numbers of rooms are unique by a validation that looks
\* before it writes: no unique index backs it up.
CatalogUnique == LabelsUnique(db)

\* The tables satisfy all that validations, foreign keys and AUTOINCREMENT are there to
\* keep, whichever of the requests look before they write, and while db/seeds.rb clears
\* the tables, starts their ids over and fills them under a server that writes to them.
SoundThroughout == Sound(db)

\* A guest told 201 has the reservation, unreduced, as long as the room exists.
BookedMeansStored ==
    \A w \in Worker :
        pc[w] = "answered" /\ resp[w] = 201 /\ req[w].op = "book"
            => made[w] \in db.reservations \/ req[w].room \notin Ids(db.rooms)

\* Whoever is told of an error may try again: nothing is left behind, not even when
\* rendering failed after the commit.  Only an image uploaded after the commit may fail
\* with the row stored, which then has the name a second attempt would take.
FailedMeansNotStored ==
    \A w \in Worker :
        pc[w] = "answered" /\ resp[w] >= 400 =>
            \/ resp[w] = 500 /\ Pictured(w)
            \/ made[w] \notin db.reservations \cup db.users \cup db.hotels \cup db.rooms

\* A write fails because another thread writes or has written since the validations
\* read, or because the room that is booked is gone: otherwise the cascades reach every
\* row that refers to a destroyed one, and what was validated fits the foreign keys.
FailsForAReason ==
    [][\A w \in Worker : pc[w] = "write" /\ pc'[w] = "answered" =>
        \/ writer # NoOne
        \/ w \in stale
        \/ req[w].op = "book" /\ rec[w].id \notin Ids(db.rooms)]_allVars

\* A token that sign-up or login gave out names the account it was asked for, whatever
\* was committed since the answer was made.
TokenNamesAccount ==
    \A w \in Worker : pc[w] = "answered" /\ resp[w] \in {200, 201} =>
        /\ req[w].op = "sign_up" => made[w] \in db.users
        /\ req[w].op = "login" => rec[w] \in db.users

\* Once destroy has answered 204 the id is gone for good, with everything that
\* referred to it: a request that still holds the row cannot bring it back, nor
\* find another row under its id.
DestroyedForGood ==
    \A w \in Worker : pc[w] = "answered" /\ resp[w] = 204 =>
        /\ req[w].op = "destroy_room" =>
              /\ req[w].id \notin Ids(db.rooms)
              /\ \A r \in db.reservations : r.room # req[w].id
        /\ req[w].op = "destroy_hotel" =>
              /\ req[w].id \notin Ids(db.hotels)
              /\ \A r \in db.rooms : r.hotel # req[w].id

\* "the updated hotel record or an error message" (hotels_controller.rb:31): an
\* update answered 200 reached a row.
UpdateReachedRow ==
    \A w \in Worker :
        /\ pc[w] = "answered" /\ resp[w] = 200
        /\ req[w].op \in {"update_hotel", "update_room"}
        => made[w] # NoRow

\* Every request under way is answered, or dies with its process: no thread waits
\* for the write lock, however the threads interleave.
EveryRequestAnswered ==
    \A w \in Worker : pc[w] # "idle" ~> pc[w] = "idle"
=============================================================================
