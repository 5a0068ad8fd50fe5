------------------------------ MODULE Listings ------------------------------
(***************************************************************************)
(* The reading half of ReservationsController, index and all_reservations, *)
(* and Room.available, while the API of HotelSystem goes on.               *)
(*                                                                         *)
(* A reader walks the pages of a listing, as its meta tells them.  A page  *)
(* is many statements outside any transaction: index reads the clock for   *)
(* its three scopes, counts, and only when the JSON is made selects each   *)
(* scope and preloads its rooms and their hotels.  Within a request a      *)
(* query that was sent before is answered from the query cache.            *)
(***************************************************************************)
EXTENDS HotelSystem, Sequences

CONSTANTS
    Walks,      \* what readers ask for: [all: BOOLEAN, as: Token, per: Nat]
    NoWalk,
    MaxWalks    \* bound: walks begun

ASSUME WalksAssumption ==
    /\ Walks \subseteq [all : BOOLEAN, as : Token, per : Nat]
    /\ NoWalk \notin Walks /\ MaxWalks \in Nat

VARIABLES
    walk,       \* what the reader asks for
    stage,      \* idle, clocks, count, select, rooms, hotels, page, end
    page,       \* params[:page]
    clocks,     \* the days Date.today gave to the scopes
    pages,      \* total_pages of the meta
    group,      \* the scope being made into JSON
    rows,       \* its reservations
    found,      \* their rooms
    cache,      \* queries of this request and what they found
    shown,      \* shown[g]: the reservations of scope g on this page
    status,     \* the status of this page, 0 before it has one
    seen,       \* history: reservations on the pages of this walk
    old,        \* history: the reservations of the reader when the walk began
    began,      \* history: the day it began
    walks       \* walks begun

pageVars == <<clocks, pages, group, rows, found, cache, shown, status>>
walkVars == <<walk, stage, page, pageVars, seen, old, began, walks>>
-----------------------------------------------------------------------------
\* current_user.reservations, or all of them.
Mine(d) == {r \in d.reservations : walk.all \/ r.user = walk.as}

\* Reservation.past, current and future, given the days read: current reads two.
Scopes == <<"past", "current", "future">>

\* Mutant: the scope future is called before the others.
InScopeFutureFirst(g, r) ==
    \/ walk.all
    \/ g = "future" /\ r.check_in > clocks[1]
    \/ g = "past" /\ r.check_out < clocks[2]
    \/ g = "current" /\ r.check_in <= clocks[3] /\ r.check_out >= clocks[4]

InScope(g, r) ==
    \/ walk.all
    \/ g = "past" /\ r.check_out < clocks[1]
    \/ g = "current" /\ r.check_in <= clocks[2] /\ r.check_out >= clocks[3]
    \/ g = "future" /\ r.check_in > clocks[4]

\* Mutant: an offset that counts pages from 0.
OnPageFromZero(table, r) ==
    LET rank == Cardinality({s \in table : s.id < r.id})
    IN  page * walk.per <= rank /\ rank < (page + 1) * walk.per

\* LIMIT per OFFSET (page - 1) * per, in the order of the ids.
OnPage(table, r) ==
    LET rank == Cardinality({s \in table : s.id < r.id})
    IN  (page - 1) * walk.per <= rank /\ rank < page * walk.per

\* kaminari: the count of all, whatever their scope, in pages, rounded up.
PagesOf(n) == (n + walk.per - 1) \div walk.per

\* A preload: from the cache if the same rows were asked for in this request.
Preloaded(name, ids) ==
    {{row \in db[name] : row.id \in ids}}
        \cup {c.found : c \in {c \in cache : c.table = name /\ c.asked = ids}}

Cached(name, ids, result) == cache \cup {[table |-> name, asked |-> ids, found |-> result]}

\* Room.available
AvailableRooms(d, hotel, in, out) ==
    LET taken == {r.room : r \in {s \in d.reservations : Overlaps(s, in, out)}}
    IN  {room \in d.rooms : room.hotel = hotel /\ room.id \notin taken}
-----------------------------------------------------------------------------
(* One page, statement by statement. *)

EmptyPage ==
    /\ clocks' = <<>> /\ pages' = 0 /\ group' = 1
    /\ rows' = {} /\ found' = {} /\ cache' = {}
    /\ shown' = [g \in 1..3 |-> {}]

\* A request for page n passes the filters, or is turned down.  kaminari cannot tell
\* the current page when there is nothing on one, and raises.
Request(k, n) ==
    LET filter == IF k.all THEN AdminStatus(k.as) ELSE AuthStatus(k.as)
        answer == IF filter # Pass THEN filter ELSE IF k.per = 0 THEN 500 ELSE 0
    IN  /\ walk' = k
        /\ page' = n
        /\ EmptyPage
        /\ status' = answer
        /\ stage' = IF answer # 0 THEN "end" ELSE IF k.all THEN "count" ELSE "clocks"

BeginWalk ==
    /\ stage = "idle"
    /\ walks < MaxWalks
    /\ \E k \in Walks :
        /\ Request(k, 1)
        /\ old' = {r \in db.reservations : k.all \/ r.user = k.as}
    /\ walks' = walks + 1
    /\ seen' = {}
    /\ began' = today

ReadClock ==
    /\ stage = "clocks"
    /\ clocks' = Append(clocks, today)
    /\ stage' = IF Len(clocks') = 4 THEN "count" ELSE "clocks"
    /\ UNCHANGED <<walk, page, pages, group, rows, found, cache, shown, status,
                   seen, old, began, walks>>

\* pagination_meta
Count ==
    /\ stage = "count"
    /\ pages' = PagesOf(Cardinality(Mine(db)))
    /\ stage' = "select"
    /\ UNCHANGED <<walk, page, clocks, group, rows, found, cache, shown, status,
                   seen, old, began, walks>>

\* The page has its status; the reader keeps what it shows.
EndPage(show, answer) ==
    /\ shown' = show
    /\ status' = answer
    /\ seen' = seen \cup UNION {show[g] : g \in 1..3}
    /\ stage' = IF answer = 200 /\ page < pages THEN "page" ELSE "end"

\* A scope is in the JSON; the next one is selected, unless it was the last.
EndGroup ==
    LET show == [shown EXCEPT ![group] = rows]
    IN  IF walk.all \/ group = 3
        THEN EndPage(show, 200) /\ UNCHANGED group
        ELSE /\ shown' = show
             /\ group' = group + 1
             /\ stage' = "select"
             /\ UNCHANGED <<status, seen>>

SelectGroup ==
    /\ stage = "select"
    /\ LET scope == {r \in Mine(db) : InScope(Scopes[group], r)}
       IN  rows' = {r \in scope : OnPage(scope, r)}
    /\ stage' = "rooms"
    /\ UNCHANGED <<walk, page, clocks, pages, group, found, cache, shown, status,
                   seen, old, began, walks>>

\* SELECT rooms WHERE id IN, unless there is nothing to preload for.
PreloadRooms ==
    LET ids == {r.room : r \in rows}
    IN  /\ stage = "rooms"
        /\ \/ /\ rows = {}
              /\ EndGroup
              /\ UNCHANGED <<found, cache>>
           \/ /\ rows # {}
              /\ found' \in Preloaded("rooms", ids)
              /\ cache' = Cached("rooms", ids, found')
              /\ stage' = "hotels"
              /\ UNCHANGED <<group, shown, status, seen>>
        /\ UNCHANGED <<walk, page, clocks, pages, rows, old, began, walks>>

\* Mutant: the hotels the JSON needs are looked for under the ids of the rooms.
PreloadHotelsByRoom ==
    /\ stage = "hotels"
    /\ IF {r.room : r \in rows} \subseteq Ids(db.hotels)
       THEN EndGroup
       ELSE EndPage([g \in 1..3 |-> {}], 500) /\ UNCHANGED group
    /\ UNCHANGED <<walk, page, clocks, pages, rows, found, cache, old, began, walks>>

\* SELECT hotels WHERE id IN, then the JSON of the scope, in which room.hotel.name
\* raises if either was not found.
PreloadHotels ==
    LET ids == {room.hotel : room \in found}
    IN  /\ stage = "hotels"
        /\ \E hotels \in Preloaded("hotels", ids) :
            /\ cache' = Cached("hotels", ids, hotels)
            /\ IF /\ \A r \in rows : r.room \in Ids(found)
                  /\ ids \subseteq Ids(hotels)
               THEN EndGroup
               ELSE EndPage([g \in 1..3 |-> {}], 500) /\ UNCHANGED group
        /\ UNCHANGED <<walk, page, clocks, pages, rows, found, old, began, walks>>

\* The reader follows next_page.
NextPage ==
    /\ stage = "page"
    /\ Request(walk, page + 1)
    /\ UNCHANGED <<seen, old, began, walks>>

EndWalk ==
    /\ stage = "end"
    /\ stage' = "idle"
    /\ walk' = NoWalk
    /\ EmptyPage
    /\ status' = 0
    /\ seen' = {} /\ old' = {} /\ page' = 0 /\ began' = 0
    /\ UNCHANGED walks
-----------------------------------------------------------------------------
ListInit ==
    /\ Init
    /\ walk = NoWalk /\ stage = "idle" /\ page = 0
    /\ clocks = <<>> /\ pages = 0 /\ group = 1
    /\ rows = {} /\ found = {} /\ cache = {}
    /\ shown = [g \in 1..3 |-> {}] /\ status = 0
    /\ seen = {} /\ old = {} /\ began = 0 /\ walks = 0

ReadStep ==
    \/ BeginWalk \/ ReadClock \/ Count
    \/ SelectGroup \/ PreloadRooms \/ PreloadHotels
    \/ NextPage \/ EndWalk

ListNext ==
    \/ ReadStep /\ UNCHANGED allVars
    \/ Next /\ UNCHANGED walkVars

ListSpec == ListInit /\ [][ListNext]_<<allVars, walkVars>>
-----------------------------------------------------------------------------
\* However a midnight falls between the readings of the clock, no reservation is in
\* two of past, current and future.
NothingTwice ==
    \A g, h \in 1..3 : g # h => shown[g] \cap shown[h] = {}

\* A listing fails only under a reservation that was destroyed after it was selected;
\* the reader who asks again does not meet it.
FailsOnlyOnDestroyed ==
    status = 500 /\ walk.per # 0 => ~ (rows \subseteq db.reservations)

\* The pages of a walk, which the meta counts for all scopes together, show every
\* reservation that was there before it: bookings made meanwhile hide none.  A
\* reservation destroyed shifts the pages; so does midnight those of index, and on a
\* single page it hides no stay but one that ended the day before some midnight or
\* begins after one, whichever scopes read the clock on either side.
WalkShowsAll ==
    stage = "end" /\ status = 200 /\ old \subseteq db.reservations =>
        \A r \in old \ seen :
            /\ ~ walk.all /\ today # began
            /\ \/ page > 1
               \/ r.check_out \in began..(today - 1)
               \/ r.check_in \in (began + 1)..today

\* Room.available shows the rooms of the hotel in which no night of the stay is taken.
ShownRoomsAreFree ==
    \A hotel \in Ids(db.hotels) : \A in \in 1..LastDay + 1, out \in 1..LastDay + 2 :
        in < out => AvailableRooms(db, hotel, in, out) =
            {room \in db.rooms :
                /\ room.hotel = hotel
                /\ \A r \in db.reservations :
                       r.room = room.id => Nights(r) \cap (in..(out - 1)) = {}}
=============================================================================
