-------------------------- MODULE ListingsInvariant --------------------------
(***************************************************************************)
(* The inductive invariant of Listings: why the scopes of a page are       *)
(* disjoint though each reads the clock anew, and why only a reservation   *)
(* destroyed under the reader makes a page fail.                           *)
(***************************************************************************)
EXTENDS Listings, HotelSystemOutcomes

\* A request for a page is being answered.
Answering == stage \in {"clocks", "count", "select", "rooms", "hotels"}

\* The clock is read in order and is never ahead of today.
ClocksInOrder ==
    /\ clocks \in Seq(Id)
    /\ \A i \in 1..Len(clocks) : clocks[i] <= today
    /\ \A i, j \in 1..Len(clocks) : i <= j => clocks[i] <= clocks[j]

\* Where the reader is: no walk while idle, all four readings before the first SELECT,
\* one scope for a listing of all, no status before the page ends.
Progress ==
    /\ stage \in {"idle", "clocks", "count", "select", "rooms", "hotels", "page", "end"}
    /\ stage # "idle" => walk \in Walks
    /\ group \in 1..3
    /\ Answering /\ walk.all => group = 1
    /\ stage = "clocks" => Len(clocks) < 4
    /\ stage \in {"count", "select", "rooms", "hotels"} /\ ~ walk.all => Len(clocks) = 4
    /\ stage # "end" => status # 500

\* r is a stay that scope g may show.
Scoped(g, r) ==
    /\ r \in ReservationRow
    /\ r.check_in < r.check_out
    /\ stage # "idle"
    /\ ~ walk.all => Len(clocks) = 4
    /\ InScope(Scopes[g], r)

\* What is shown, and what is about to be, belongs to its scope; scopes that were not
\* reached yet show nothing.
ScopesKept ==
    /\ shown \in [1..3 -> SUBSET ReservationRow]
    /\ \A g \in 1..3 : \A r \in shown[g] : Scoped(g, r)
    /\ \A r \in rows : stage \in {"rooms", "hotels"} => Scoped(group, r)
    /\ Answering => \A g \in group..3 : shown[g] = {}
    /\ stage # "idle" /\ walk.all => shown[2] = {} /\ shown[3] = {}

\* What room was read as is still true of the room stored under its id, if any.
RoomKnown(room) ==
    /\ room \in RoomRow
    /\ room.id <= db.seq.rooms
    /\ \A q \in db.rooms : q.id = room.id => q.hotel = room.hotel

AskedRooms == {r.room : r \in rows}

\* A query found all it asked for.
Complete(c) == c.asked \subseteq Ids(c.found)

\* While a page goes on, every query but the last preload of rooms found all it asked
\* for: one that did not would have ended the page.
QueriesComplete ==
    /\ \A c \in cache : c.table = "rooms" =>
         \A room \in c.found : RoomKnown(room) /\ room.id \in c.asked
    /\ Answering /\ stage # "hotels" => \A c \in cache : Complete(c)
    /\ stage = "hotels" =>
         /\ \A c \in cache :
              ~ Complete(c) => c.table = "rooms" /\ c.asked = AskedRooms /\ c.found = found
         /\ \A room \in found : RoomKnown(room) /\ room.id \in AskedRooms

\* Rows were given their ids before; what misses its room, or failed the page, is gone.
RowsOrGone ==
    /\ \A r \in rows : r \in ReservationRow /\ r.id <= db.seq.reservations
    /\ stage = "hotels" /\ rows \subseteq db.reservations => AskedRooms \subseteq Ids(found)
    /\ status = 500 /\ walk.per # 0 => ~ (rows \subseteq db.reservations)

LInv ==
    /\ ClocksInOrder
    /\ Progress
    /\ ScopesKept
    /\ QueriesComplete
    /\ RowsOrGone
-----------------------------------------------------------------------------
(* What a walk has shown of the reservations that were there before it. *)

\* The scopes a page is made of.
Groups == IF walk.all THEN {1} ELSE 1..3

\* Those of the old reservations that scope g lists before r, by the days of this page.
Ahead(g, r) == {s \in old : InScope(Scopes[g], s) /\ s.id < r.id}

\* The old reservations that scope g owes this page.
Due(g) ==
    {r \in old :
        /\ InScope(Scopes[g], r)
        /\ (page - 1) * walk.per <= Cardinality(Ahead(g, r))
        /\ Cardinality(Ahead(g, r)) < page * walk.per}

\* The scopes as they were when the walk began.
InScopeThen(g, r) ==
    \/ walk.all
    \/ g = 1 /\ r.check_out < began
    \/ g = 2 /\ r.check_in <= began /\ r.check_out >= began
    \/ g = 3 /\ r.check_in > began

AheadThen(g, r) == {s \in old : InScopeThen(g, s) /\ s.id < r.id}

\* Reservations made during the walk come after the old ones.
OldComeFirst ==
    stage # "idle" =>
        /\ IsFiniteSet(old)
        /\ \A r \in old : /\ r \in ReservationRow /\ r.id <= db.seq.reservations
                          /\ walk.all \/ r.user = walk.as
        /\ \A s \in Mine(db) : s \in old \/ \A r \in old : r.id < s.id

\* How far the reader is, in days and in pages.
WalkProgress ==
    /\ page \in Nat /\ began \in Nat /\ began <= today
    /\ \A i \in 1..Len(clocks) : began <= clocks[i]
    /\ stage # "idle" => page > 0
    /\ stage \in {"clocks", "count"} => group = 1
    /\ Answering => status = 0 /\ walk.per > 0
    /\ stage = "page" => status = 200
    /\ status = 200 =>
         /\ stage \in {"page", "end"}
         /\ ~ walk.all => Len(clocks) = 4
         /\ stage = "end" => pages <= page

\* The pages the meta promises hold the old reservations, if none was destroyed.
Counted ==
    stage \in {"select", "rooms", "hotels"} \/ status = 200 =>
        /\ pages \in Nat
        /\ old \subseteq db.reservations => Cardinality(old) <= pages * walk.per

\* If none was destroyed, a scope that is through has shown what it owes, the scope
\* under way has selected it, and a page that ended has left it with the reader.
DuesPaid ==
    old \subseteq db.reservations =>
        /\ Answering => \A g \in 1..(group - 1) : Due(g) \subseteq shown[g]
        /\ stage \in {"rooms", "hotels"} => Due(group) \subseteq rows
        /\ status = 200 => \A g \in Groups : Due(g) \subseteq seen

\* If none was destroyed and the scopes are what they were, the pages so far have shown
\* all that ranks before their end.
Walked ==
    stage # "idle" /\ old \subseteq db.reservations /\ (walk.all \/ today = began) =>
        \A g \in Groups : \A r \in old :
            /\ InScopeThen(g, r)
            /\ Cardinality(AheadThen(g, r)) <
                  (IF status = 200 THEN page ELSE page - 1) * walk.per
            => r \in seen

WalkInv ==
    /\ OldComeFirst
    /\ WalkProgress
    /\ Counted
    /\ DuesPaid
    /\ Walked
=============================================================================
