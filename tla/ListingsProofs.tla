--------------------------- MODULE ListingsProofs ---------------------------
(***************************************************************************)
(* Proofs about Listings, for every value of the constants.                *)
(***************************************************************************)
EXTENDS ListingsInvariant, HotelSystemOutcomeProofs, SequenceTheorems, FiniteSetTheorems

-----------------------------------------------------------------------------
(* The API under a reader. *)

\* A reader changes nothing, so whatever holds of the API holds of it under readers.
THEOREM ReadersOnlyRead == ListSpec => Spec
<1>1. ListInit => Init
  BY DEF ListInit
<1>2. [ListNext]_<<allVars, walkVars>> => [Next]_allVars
  BY DEF ListNext
<1> QED
  BY <1>1, <1>2, PTL DEF ListSpec, Spec

\* What was read of a room stays true of it.
LEMMA RoomKnownStays ==
    ASSUME IInv, IInv', Remembers(db, db'), NEW room, RoomKnown(room)
    PROVE  RoomKnown(room)'
<1>1. db \in Database /\ db' \in Database /\ room \in RoomRow /\ room.id \in Id
  BY DEF IInv, ServerInv, TypeOK, StoreTypeOK, RoomKnown, RoomRow
<1>2. room.id <= db'.seq.rooms
  BY <1>1 DEF RoomKnown, Remembers, Database, Id
<1>3. ASSUME NEW q \in db'.rooms, q.id = room.id PROVE q.hotel = room.hotel
  BY <1>1, <1>3 DEF RoomKnown, Remembers, Database, Id
<1> QED
  BY <1>1, <1>2, <1>3 DEF RoomKnown

\* A reservation that is gone does not come back.
LEMMA RowGoneStays ==
    ASSUME IInv, IInv', Remembers(db, db'), NEW r \in ReservationRow,
           r.id <= db.seq.reservations
    PROVE  /\ r.id <= db'.seq.reservations
           /\ r \in db'.reservations => r \in db.reservations
<1>1. db \in Database /\ db' \in Database /\ r.id \in Id
  BY DEF IInv, ServerInv, TypeOK, StoreTypeOK, ReservationRow
<1> QED
  BY <1>1 DEF Remembers, Database, Id

\* A step of the API under a reader.
LEMMA ApiStep ==
    ASSUME LInv, IInv, IInv', Remembers(db, db'), today' >= today, UNCHANGED walkVars
    PROVE  LInv'
<1>1. /\ UNCHANGED <<walk, stage, page, clocks, pages, group, rows, found, cache, shown, status>>
      /\ today \in Id /\ today' \in Id
  BY DEF walkVars, pageVars, IInv, ServerInv, TypeOK
<1>2. ClocksInOrder'
  <2>1. \A i \in 1..Len(clocks) : clocks[i] \in Id
    BY DEF LInv, ClocksInOrder
  <2> QED
    BY <1>1, <2>1 DEF LInv, ClocksInOrder, Id
<1>3. Progress'
  BY <1>1 DEF LInv, Progress, Answering
<1>4. ScopesKept'
  BY <1>1 DEF LInv, ScopesKept, Scoped, InScope, Answering
<1>5. QueriesComplete'
  BY <1>1, RoomKnownStays DEF LInv, QueriesComplete, Complete, AskedRooms, Answering
<1>6. RowsOrGone'
  BY <1>1, RowGoneStays DEF LInv, RowsOrGone, AskedRooms
<1> QED
  BY <1>2, <1>3, <1>4, <1>5, <1>6 DEF LInv
-----------------------------------------------------------------------------
(* The steps of a reader. *)

\* A page is asked for.
LEMMA RequestStep ==
    ASSUME LInv, UNCHANGED allVars, NEW k \in Walks, NEW n, Request(k, n)
    PROVE  LInv'
<1>1. /\ walk' = k /\ clocks' = <<>> /\ group' = 1 /\ rows' = {} /\ found' = {}
      /\ cache' = {} /\ shown' = [g \in 1..3 |-> {}]
  BY DEF Request, EmptyPage
<1>2. /\ stage' \in {"clocks", "count", "end"}
      /\ stage' # "end" => status' = 0
      /\ stage' = "count" => k.all
      /\ status' = 500 => k.per = 0
  BY DEF Request, AdminStatus, AuthStatus, Pass
<1>3. ClocksInOrder'
  BY <1>1 DEF ClocksInOrder
<1>4. Progress'
  BY <1>1, <1>2 DEF Progress, Answering
<1>5. ScopesKept'
  BY <1>1 DEF ScopesKept
<1>6. QueriesComplete'
  BY <1>1, <1>2 DEF QueriesComplete
<1>7. RowsOrGone'
  BY <1>1, <1>2 DEF RowsOrGone
<1> QED
  BY <1>3, <1>4, <1>5, <1>6, <1>7 DEF LInv

\* A scope reads the clock.
LEMMA ReadClockStep ==
    ASSUME LInv, IInv, UNCHANGED allVars, ReadClock
    PROVE  LInv'
<1>1. /\ stage = "clocks" /\ clocks' = Append(clocks, today)
      /\ stage' = IF Len(clocks') = 4 THEN "count" ELSE "clocks"
      /\ UNCHANGED <<walk, page, pages, group, rows, found, cache, shown, status>>
      /\ today' = today /\ db' = db /\ today \in Id
  BY DEF ReadClock, allVars, vars, storeVars, IInv, ServerInv, TypeOK
<1>2. clocks \in Seq(Id) /\ Len(clocks) < 4
  BY <1>1 DEF LInv, ClocksInOrder, Progress
<1>3. /\ clocks' \in Seq(Id) /\ Len(clocks') = Len(clocks) + 1
      /\ \A i \in 1..Len(clocks') :
           clocks'[i] = IF i = Len(clocks') THEN today ELSE clocks[i]
  BY <1>1, <1>2
<1>4. ClocksInOrder'
  <2>1. ASSUME NEW i \in 1..Len(clocks') PROVE clocks'[i] <= today
    BY <1>1, <1>2, <1>3 DEF LInv, ClocksInOrder, Id
  <2>2. ASSUME NEW i \in 1..Len(clocks'), NEW j \in 1..Len(clocks'), i <= j
        PROVE  clocks'[i] <= clocks'[j]
    BY <1>1, <1>2, <1>3, <2>1, <2>2 DEF LInv, ClocksInOrder, Id
  <2> QED
    BY <1>1, <1>3, <2>1, <2>2 DEF ClocksInOrder
<1>5. Progress'
  BY <1>1, <1>2, <1>3 DEF LInv, Progress, Answering
<1>6. ScopesKept'
  <2>1. ASSUME NEW g \in 1..3, NEW r \in shown[g] PROVE Scoped(g, r)'
    BY <1>1, <1>2 DEF LInv, ScopesKept, Scoped, InScope
  <2> QED
    BY <1>1, <2>1 DEF LInv, ScopesKept, Answering
<1>7. QueriesComplete' /\ RowsOrGone'
  BY <1>1 DEF LInv, QueriesComplete, RowsOrGone, RoomKnown, Complete, Answering
<1> QED
  BY <1>4, <1>5, <1>6, <1>7 DEF LInv

\* The meta is counted.
LEMMA CountStep ==
    ASSUME LInv, UNCHANGED allVars, Count
    PROVE  LInv'
<1>1. /\ stage = "count" /\ stage' = "select"
      /\ UNCHANGED <<walk, page, clocks, group, rows, found, cache, shown, status>>
      /\ today' = today /\ db' = db
  BY DEF Count, allVars, vars, storeVars
<1>2. ClocksInOrder' /\ Progress'
  BY <1>1 DEF LInv, ClocksInOrder, Progress, Answering
<1>3. ScopesKept'
  BY <1>1 DEF LInv, ScopesKept, Scoped, InScope, Answering
<1>4. QueriesComplete' /\ RowsOrGone'
  BY <1>1 DEF LInv, QueriesComplete, RowsOrGone, RoomKnown, Complete, Answering
<1> QED
  BY <1>2, <1>3, <1>4 DEF LInv

\* The reservations of a scope are selected.
LEMMA SelectGroupStep ==
    ASSUME LInv, IInv, UNCHANGED allVars, SelectGroup
    PROVE  LInv'
<1>1. /\ stage = "select" /\ stage' = "rooms"
      /\ UNCHANGED <<walk, page, clocks, group, found, cache, shown, status>>
      /\ today' = today /\ db' = db
      /\ \A r \in rows' : r \in db.reservations /\ InScope(Scopes[group], r)
  BY DEF SelectGroup, Mine, allVars, vars, storeVars
<1>2. \A r \in db.reservations :
        r \in ReservationRow /\ r.check_in < r.check_out /\ r.id <= db.seq.reservations
  BY DEF IInv, ServerInv, TypeOK, StoreTypeOK, Database, Sound, ProperStays, PrimaryKeys, KeysUnique
<1>3. ClocksInOrder' /\ Progress'
  BY <1>1 DEF LInv, ClocksInOrder, Progress, Answering
<1>4. ScopesKept'
  <2>1. ASSUME NEW r \in rows' PROVE Scoped(group, r)'
    BY <1>1, <1>2 DEF LInv, Progress, Scoped, InScope
  <2>2. ASSUME NEW g \in 1..3, NEW r \in shown[g] PROVE Scoped(g, r)'
    BY <1>1 DEF LInv, ScopesKept, Scoped, InScope
  <2> QED
    BY <1>1, <2>1, <2>2 DEF LInv, ScopesKept, Answering
<1>5. QueriesComplete'
  BY <1>1 DEF LInv, QueriesComplete, RoomKnown, Complete, Answering
<1>6. RowsOrGone'
  BY <1>1, <1>2 DEF LInv, RowsOrGone, Progress
<1> QED
  BY <1>3, <1>4, <1>5, <1>6 DEF LInv

\* A scope is in the JSON.
LEMMA EndGroupScopes ==
    ASSUME LInv, UNCHANGED allVars, stage \in {"rooms", "hotels"}, EndGroup,
           UNCHANGED <<walk, page, clocks, rows>>
    PROVE  ClocksInOrder' /\ Progress' /\ ScopesKept' /\ status' # 500
           /\ stage' \in {"select", "page", "end"}
<1>1. today' = today /\ group \in 1..3 /\ walk \in Walks /\ status # 500
  BY DEF allVars, LInv, Progress
<1>2. ClocksInOrder'
  BY <1>1 DEF LInv, ClocksInOrder
<1>3. shown' = [shown EXCEPT ![group] = rows]
  BY DEF EndGroup, EndPage
<1>4. ASSUME walk.all \/ group = 3
      PROVE  Progress' /\ status' # 500 /\ stage' \in {"page", "end"}
  BY <1>1, <1>4 DEF EndGroup, EndPage, LInv, Progress, Answering
<1>5. ASSUME ~ walk.all, group # 3
      PROVE  Progress' /\ status' # 500 /\ stage' = "select"
  BY <1>1, <1>5 DEF EndGroup, LInv, Progress, Answering
<1>6. Progress' /\ status' # 500 /\ stage' \in {"select", "page", "end"}
  BY <1>4, <1>5
<1>7. ScopesKept'
  <2>1. /\ shown' \in [1..3 -> SUBSET ReservationRow]
        /\ \A g \in 1..3 : shown'[g] = IF g = group THEN rows ELSE shown[g]
    BY <1>1, <1>3 DEF LInv, ScopesKept, Scoped
  <2>2. ASSUME NEW g \in 1..3, NEW r \in shown'[g] PROVE Scoped(g, r)'
    <3>1. Scoped(g, r)
      BY <2>1, <2>2 DEF LInv, ScopesKept
    <3> QED
      BY <3>1, <1>6 DEF Scoped, InScope
  <2>3. Answering' => \A g \in group'..3 : shown'[g] = {}
    <3> SUFFICES ASSUME Answering' PROVE \A g \in group'..3 : shown'[g] = {}
      OBVIOUS
    <3>1. group' = group + 1
      BY <1>6 DEF EndGroup, EndPage, Answering
    <3>2. \A g \in group..3 : shown[g] = {}
      BY DEF LInv, ScopesKept, Answering
    <3> QED
      BY <1>1, <2>1, <3>1, <3>2
  <2>4. walk.all => shown'[2] = {} /\ shown'[3] = {}
    BY <1>1, <2>1 DEF LInv, ScopesKept, Progress, Answering
  <2> QED
    BY <1>6, <2>1, <2>2, <2>3, <2>4 DEF ScopesKept
<1> QED
  BY <1>2, <1>6, <1>7

\* The rooms of a scope are loaded, from the database or from the cache.
LEMMA PreloadRoomsStep ==
    ASSUME LInv, IInv, UNCHANGED allVars, PreloadRooms
    PROVE  LInv'
<1>1. stage = "rooms" /\ UNCHANGED <<walk, page, clocks, rows, db, today>>
  BY DEF PreloadRooms, allVars, vars, storeVars
<1>2. CASE rows = {} /\ EndGroup /\ UNCHANGED <<found, cache>>
  <2>1. /\ ClocksInOrder' /\ Progress' /\ ScopesKept' /\ status' # 500
        /\ stage' \in {"select", "page", "end"}
    BY <1>1, <1>2, EndGroupScopes
  <2>2. QueriesComplete' /\ RowsOrGone'
    BY <1>1, <1>2, <2>1
    DEF LInv, QueriesComplete, RowsOrGone, RoomKnown, Complete, Answering
  <2> QED
    BY <2>1, <2>2 DEF LInv
<1>3. CASE /\ rows # {}
           /\ found' \in Preloaded("rooms", AskedRooms)
           /\ cache' = Cached("rooms", AskedRooms, found')
           /\ stage' = "hotels"
           /\ UNCHANGED <<group, shown, status, seen>>
  <2>1. ClocksInOrder' /\ Progress'
    BY <1>1, <1>3 DEF LInv, ClocksInOrder, Progress, Answering
  <2>2. ScopesKept'
    BY <1>1, <1>3 DEF LInv, ScopesKept, Scoped, InScope, Answering
  <2>3. /\ \A room \in found' : RoomKnown(room) /\ room.id \in AskedRooms
        /\ rows \subseteq db.reservations => AskedRooms \subseteq Ids(found')
    <3>1. CASE found' = {room \in db.rooms : room.id \in AskedRooms}
      <4>1. \A room \in db.rooms : RoomKnown(room)
        BY DEF RoomKnown, IInv, ServerInv, TypeOK, StoreTypeOK, Database, Sound, PrimaryKeys, KeysUnique
      <4>2. \A r \in db.reservations : r.room \in Ids(db.rooms)
        BY DEF IInv, ServerInv, Sound, ForeignKeysHold
      <4> QED
        BY <3>1, <4>1, <4>2 DEF AskedRooms, Ids
    <3>2. ASSUME NEW c \in cache, c.table = "rooms", c.asked = AskedRooms, found' = c.found
          PROVE  /\ \A room \in found' : RoomKnown(room) /\ room.id \in AskedRooms
                 /\ AskedRooms \subseteq Ids(found')
      BY <1>1, <3>2 DEF LInv, QueriesComplete, Complete, Answering
    <3> QED
      BY <1>3, <3>1, <3>2 DEF Preloaded
  <2>4. QueriesComplete'
    <3> DEFINE new == [table |-> "rooms", asked |-> AskedRooms, found |-> found']
    <3>1. cache' = cache \cup {new}
      BY <1>3 DEF Cached
    <3>2. new.table = "rooms" /\ new.asked = AskedRooms /\ new.found = found'
      OBVIOUS
    <3> HIDE DEF new
    <3>3. \A c \in cache : Complete(c)
      BY <1>1 DEF LInv, QueriesComplete, Answering
    <3>4. \A c \in cache : c.table = "rooms" =>
            \A room \in c.found : RoomKnown(room) /\ room.id \in c.asked
      BY DEF LInv, QueriesComplete
    <3>5. AskedRooms' = AskedRooms /\ \A room : RoomKnown(room)' <=> RoomKnown(room)
      BY <1>1 DEF AskedRooms, RoomKnown
    <3>6. \A c : Complete(c)' <=> Complete(c)
      BY DEF Complete
    <3> QED
      BY <1>3, <2>3, <3>1, <3>2, <3>3, <3>4, <3>5, <3>6 DEF QueriesComplete, Answering
  <2>5. RowsOrGone'
    BY <1>1, <1>3, <2>3 DEF LInv, RowsOrGone, AskedRooms
  <2> QED
    BY <2>1, <2>2, <2>4, <2>5 DEF LInv
<1> QED
  BY <1>2, <1>3 DEF PreloadRooms, AskedRooms

\* The hotels of those rooms are loaded, and the scope is made into JSON; or a row that
\* is missing makes the page fail, and then a reservation on it is gone.
LEMMA PreloadHotelsStep ==
    ASSUME LInv, IInv, UNCHANGED allVars, PreloadHotels
    PROVE  LInv'
<1> DEFINE ids == {room.hotel : room \in found}
<1>1. stage = "hotels" /\ UNCHANGED <<walk, page, clocks, rows, found, db, today>>
  BY DEF PreloadHotels, allVars, vars, storeVars
<1> PICK hotels \in Preloaded("hotels", ids) :
      /\ cache' = Cached("hotels", ids, hotels)
      /\ IF (\A r \in rows : r.room \in Ids(found)) /\ ids \subseteq Ids(hotels)
         THEN EndGroup
         ELSE EndPage([g \in 1..3 |-> {}], 500) /\ UNCHANGED group
  BY DEF PreloadHotels
<1>2. /\ \A c \in cache : c.table = "rooms" =>
           \A room \in c.found : RoomKnown(room) /\ room.id \in c.asked
      /\ \A c \in cache :
           ~ Complete(c) => c.table = "rooms" /\ c.asked = AskedRooms /\ c.found = found
      /\ \A room \in found : RoomKnown(room) /\ room.id \in AskedRooms
  BY <1>1 DEF LInv, QueriesComplete
<1>3. \A c \in cache' : c.table = "rooms" =>
        \A room \in c.found : RoomKnown(room)' /\ room.id \in c.asked
  <2>1. \A room : RoomKnown(room)' <=> RoomKnown(room)
    BY <1>1 DEF RoomKnown
  <2> QED
    BY <1>2, <2>1 DEF Cached
<1>4. CASE /\ AskedRooms \subseteq Ids(found) /\ ids \subseteq Ids(hotels)
           /\ EndGroup
  <2>1. /\ ClocksInOrder' /\ Progress' /\ ScopesKept' /\ status' # 500
        /\ stage' \in {"select", "page", "end"}
    BY <1>1, <1>4, EndGroupScopes
  <2>2. \A c \in cache' : Complete(c)
    <3>1. \A c \in cache : Complete(c)
      BY <1>2, <1>4 DEF Complete
    <3>2. Complete([table |-> "hotels", asked |-> ids, found |-> hotels])
      BY <1>4 DEF Complete
    <3> QED
      BY <3>1, <3>2 DEF Cached
  <2>3. \A c : Complete(c)' <=> Complete(c)
    BY DEF Complete
  <2>4. QueriesComplete'
    BY <1>3, <2>1, <2>2, <2>3 DEF QueriesComplete
  <2>5. RowsOrGone'
    BY <1>1, <2>1 DEF LInv, RowsOrGone
  <2> QED
    BY <2>1, <2>4, <2>5 DEF LInv
<1>5. CASE /\ ~ (AskedRooms \subseteq Ids(found) /\ ids \subseteq Ids(hotels))
           /\ EndPage([g \in 1..3 |-> {}], 500) /\ UNCHANGED group
  <2>1. stage' = "end" /\ status' = 500 /\ shown' = [g \in 1..3 |-> {}] /\ group' = group
    BY <1>5 DEF EndPage
  <2>2. ClocksInOrder' /\ Progress' /\ ScopesKept'
    BY <1>1, <2>1 DEF LInv, ClocksInOrder, Progress, ScopesKept, Answering
  <2>3. QueriesComplete'
    BY <1>3, <2>1 DEF QueriesComplete, Answering
  <2>4. ASSUME rows \subseteq db.reservations PROVE FALSE
    <3>1. AskedRooms \subseteq Ids(found)
      BY <1>1, <2>4 DEF LInv, RowsOrGone
    <3>2. PICK room \in found : room.hotel \notin Ids(hotels)
      BY <1>5, <3>1
    <3>3. CASE hotels = {h \in db.hotels : h.id \in ids}
      <4>1. PICK r \in rows : r.room = room.id
        BY <1>2, <3>2 DEF AskedRooms
      <4>2. PICK q \in db.rooms : q.id = room.id
        BY <2>4, <4>1 DEF IInv, ServerInv, Sound, ForeignKeysHold, Ids
      <4>3. q.hotel \in Ids(db.hotels) /\ q.hotel = room.hotel
        BY <1>2, <3>2, <4>2 DEF IInv, ServerInv, Sound, ForeignKeysHold, RoomKnown
      <4> QED
        BY <3>2, <3>3, <4>3 DEF Ids
    <3>4. ASSUME NEW c \in cache, c.table = "hotels", c.asked = ids, hotels = c.found
          PROVE  FALSE
      <4>1. Complete(c)
        BY <1>2, <3>4
      <4> QED
        BY <3>2, <3>4, <4>1 DEF Complete
    <3> QED
      BY <3>3, <3>4 DEF Preloaded
  <2>5. RowsOrGone'
    BY <1>1, <2>1, <2>4 DEF LInv, RowsOrGone
  <2> QED
    BY <2>2, <2>3, <2>5 DEF LInv
<1>6. (\A r \in rows : r.room \in Ids(found)) <=> AskedRooms \subseteq Ids(found)
  BY DEF AskedRooms
<1> QED
  BY <1>4, <1>5, <1>6

\* The reader puts the listing away.
LEMMA EndWalkStep ==
    ASSUME LInv, UNCHANGED allVars, EndWalk
    PROVE  LInv'
<1>1. /\ stage' = "idle" /\ clocks' = <<>> /\ group' = 1 /\ rows' = {} /\ cache' = {}
      /\ shown' = [g \in 1..3 |-> {}] /\ status' = 0
  BY DEF EndWalk, EmptyPage
<1>2. ClocksInOrder' /\ Progress' /\ ScopesKept'
  BY <1>1 DEF ClocksInOrder, Progress, ScopesKept, Answering
<1>3. QueriesComplete' /\ RowsOrGone'
  BY <1>1 DEF QueriesComplete, RowsOrGone, Answering
<1> QED
  BY <1>2, <1>3 DEF LInv
-----------------------------------------------------------------------------
(* The system. *)

\* No page is shown before the first walk.
LEMMA ListInitLInv == ListInit => LInv
<1> SUFFICES ASSUME ListInit PROVE LInv
  OBVIOUS
<1>1. ClocksInOrder /\ Progress
  BY DEF ListInit, ClocksInOrder, Progress, Answering
<1>2. ScopesKept /\ QueriesComplete /\ RowsOrGone
  BY DEF ListInit, ScopesKept, QueriesComplete, RowsOrGone, Answering
<1> QED
  BY <1>1, <1>2 DEF LInv

\* The clock of the machine does not go back.
LEMMA DaysPass ==
    ASSUME IInv, [Next]_allVars
    PROVE  today' >= today
<1>1. today \in Id
  BY DEF IInv, ServerInv, TypeOK
<1>2. CASE Midnight
  BY <1>1, <1>2 DEF Midnight, Id
<1>3. CASE UNCHANGED today
  BY <1>1, <1>3 DEF Id
<1>4. Midnight \/ UNCHANGED today
  BY DEF Next, Accept, Serve, Die, BookStep, BookCheck, BookWrite, BookRender,
     HotelStep, RoomStep, AccountStep, allVars
<1> QED
  BY <1>2, <1>3, <1>4

\* No step, of a reader or of the API, leaves the invariant.
LEMMA ListNextLInv ==
    LInv /\ OInv /\ OInv' /\ [ListNext]_<<allVars, walkVars>> => LInv'
<1> SUFFICES ASSUME LInv, OInv, OInv', [ListNext]_<<allVars, walkVars>> PROVE LInv'
  OBVIOUS
<1>0. IInv /\ IInv'
  BY DEF OInv
<1>1. CASE ReadStep /\ UNCHANGED allVars
  <2>1. CASE BeginWalk
    BY <1>1, <2>1, RequestStep DEF BeginWalk
  <2>2. CASE NextPage
    <3>1. walk \in Walks
      BY <2>2 DEF NextPage, LInv, Progress
    <3> QED
      BY <1>1, <2>2, <3>1, RequestStep DEF NextPage
  <2> QED
    BY <1>0, <1>1, <2>1, <2>2, ReadClockStep, CountStep, SelectGroupStep,
       PreloadRoomsStep, PreloadHotelsStep, EndWalkStep
    DEF ReadStep
<1>2. CASE [Next]_allVars /\ UNCHANGED walkVars
  <2>1. Remembers(db, db')
    BY <1>2, NextOInv
  <2>2. today' >= today
    BY <1>0, <1>2, DaysPass
  <2> QED
    BY <1>0, <1>2, <2>1, <2>2, ApiStep
<1>3. CASE UNCHANGED <<allVars, walkVars>>
  BY <1>2, <1>3
<1> QED
  BY <1>1, <1>2, <1>3 DEF ListNext

\* What a reader has been shown and what the statements of a page have found stay in
\* order, for any number of readers' walks, threads and days.
THEOREM ListingsInvariance == ListSpec => []LInv
<1>1. ListSpec => []OInv
  BY ReadersOnlyRead, OutcomeInvariance, PTL
<1> QED
  BY <1>1, ListInitLInv, ListNextLInv, PTL DEF ListSpec

\* No reservation is in two of past, current and future.
THEOREM ScopesDisjoint == ListSpec => []NothingTwice
<1>1. ASSUME LInv, NEW g \in 1..3, NEW h \in 1..3, g < h, NEW r \in shown[g] \cap shown[h]
      PROVE  FALSE
  <2>1. Scoped(g, r) /\ Scoped(h, r)
    BY <1>1 DEF LInv, ScopesKept
  <2>2. ~ walk.all
    BY <1>1, <2>1 DEF LInv, ScopesKept, Scoped
  <2>3. /\ r.check_in \in Nat /\ r.check_out \in Nat /\ r.check_in < r.check_out
        /\ clocks[1] \in Nat /\ clocks[2] \in Nat /\ clocks[3] \in Nat /\ clocks[4] \in Nat
        /\ clocks[1] <= clocks[3] /\ clocks[2] <= clocks[4] /\ clocks[1] <= clocks[4]
    <3>1. r.check_in \in Nat /\ r.check_out \in Nat /\ r.check_in < r.check_out
      BY <2>1 DEF Scoped, ReservationRow
    <3>2. Len(clocks) = 4 /\ clocks \in Seq(Nat)
      BY <1>1, <2>1, <2>2 DEF Scoped, LInv, ClocksInOrder, Id
    <3>3. 1 \in 1..Len(clocks) /\ 2 \in 1..Len(clocks) /\ 3 \in 1..Len(clocks)
          /\ 4 \in 1..Len(clocks)
      BY <3>2
    <3>4. clocks[1] <= clocks[3] /\ clocks[2] <= clocks[4] /\ clocks[1] <= clocks[4]
      BY <1>1, <3>3, 1 <= 3, 2 <= 4, 1 <= 4 DEF LInv, ClocksInOrder
    <3>5. \A i \in 1..Len(clocks) : clocks[i] \in Nat
      BY <3>2, ElementOfSeq
    <3>6. clocks[1] \in Nat /\ clocks[2] \in Nat /\ clocks[3] \in Nat /\ clocks[4] \in Nat
      BY <3>3, <3>5
    <3> QED
      BY <3>1, <3>4, <3>6
  <2>4. CASE g = 1 /\ h = 2
    BY <2>1, <2>2, <2>3, <2>4 DEF Scoped, InScope, Scopes
  <2>5. CASE g = 1 /\ h = 3
    BY <2>1, <2>2, <2>3, <2>5 DEF Scoped, InScope, Scopes
  <2>6. CASE g = 2 /\ h = 3
    BY <2>1, <2>2, <2>3, <2>6 DEF Scoped, InScope, Scopes
  <2> QED
    BY <1>1, <2>4, <2>5, <2>6
<1>2. LInv => NothingTwice
  <2> SUFFICES ASSUME LInv, NEW g \in 1..3, NEW h \in 1..3, g # h,
                      NEW r \in shown[g] \cap shown[h]
               PROVE  FALSE
    BY DEF NothingTwice
  <2> QED
    BY <1>1
<1> QED
  BY <1>2, ListingsInvariance, PTL

\* A listing fails only under a reservation that was destroyed.
THEOREM ListingFailsOnlyOnDestroyed == ListSpec => []FailsOnlyOnDestroyed
<1>1. LInv => FailsOnlyOnDestroyed
  BY DEF LInv, RowsOrGone, FailsOnlyOnDestroyed
<1> QED
  BY <1>1, ListingsInvariance, PTL

\* Room.available shows exactly the rooms with no night of the stay taken.
THEOREM AvailableAreFree == ListSpec => []ShownRoomsAreFree
<1>1. ASSUME IInv, NEW in \in 1..LastDay + 1, NEW out \in 1..LastDay + 2, in < out,
             NEW s \in db.reservations
      PROVE  Overlaps(s, in, out) <=> Nights(s) \cap (in..(out - 1)) # {}
  <2> DEFINE b == [id |-> 1, user |-> 1, room |-> 1, check_in |-> in, check_out |-> out]
  <2>1. in \in Nat /\ out \in Nat
    BY DayAssumption DEF Id
  <2>2. b \in ReservationRow
    BY <2>1 DEF ReservationRow, Id
  <2>3. b.check_in = in /\ b.check_out = out
    OBVIOUS
  <2> HIDE DEF b
  <2>4. s \in ReservationRow /\ s.check_in < s.check_out
    BY <1>1 DEF IInv, ServerInv, TypeOK, StoreTypeOK, Database, Sound, ProperStays
  <2>5. Overlaps(s, in, out) <=> Nights(s) \cap Nights(b) # {}
    BY <1>1, <2>2, <2>3, <2>4, OverlapIsSharedNight
  <2> QED
    BY <2>3, <2>5 DEF Nights
<1>2. IInv => ShownRoomsAreFree
  <2> SUFFICES ASSUME IInv, NEW hotel, NEW in \in 1..LastDay + 1,
                      NEW out \in 1..LastDay + 2, in < out
               PROVE  AvailableRooms(db, hotel, in, out) =
                        {room \in db.rooms :
                            /\ room.hotel = hotel
                            /\ \A r \in db.reservations :
                                   r.room = room.id => Nights(r) \cap (in..(out - 1)) = {}}
    BY DEF ShownRoomsAreFree
  <2>1. \A s \in db.reservations :
          Overlaps(s, in, out) <=> Nights(s) \cap (in..(out - 1)) # {}
    BY <1>1
  <2> QED
    BY <2>1 DEF AvailableRooms
<1> QED
  BY <1>2, ReadersOnlyRead, Invariance, PTL
-----------------------------------------------------------------------------
(* Pages and ranks. *)

\* Where a page begins and ends.
LEMMA PageBounds ==
    ASSUME NEW p \in Nat, p > 0, NEW n \in Nat
    PROVE  /\ (p - 1) * n \in Nat /\ p * n \in Nat
           /\ (p - 1) * n + n = p * n
           /\ (p + 1 - 1) * n = p * n
<1>1. p - 1 \in Nat /\ p + 1 - 1 = p
  OBVIOUS
<1>2. (p - 1) * n + n = p * n
  OBVIOUS
<1>3. (p - 1) * n \in Nat /\ p * n \in Nat
  BY <1>1
<1> QED
  BY <1>1, <1>2, <1>3

\* More pages hold no less.
LEMMA MorePages ==
    ASSUME NEW a \in Nat, NEW b \in Nat, a <= b, NEW n \in Nat
    PROVE  a * n <= b * n
<1>1. PICK c \in Nat : b = a + c
  <2>1. b - a \in Nat /\ b = a + (b - a)
    OBVIOUS
  <2> QED
    BY <2>1
<1>2. b * n = a * n + c * n
  BY <1>1
<1>3. a * n \in Nat /\ c * n \in Nat
  BY <1>1
<1> QED
  BY <1>2, <1>3

\* The pages of the meta hold what was counted.
LEMMA PagesHold ==
    ASSUME NEW n \in Nat, walk.per \in Nat, walk.per > 0
    PROVE  PagesOf(n) \in Nat /\ n <= PagesOf(n) * walk.per
<1> DEFINE per == walk.per
           q == (n + per - 1) \div per
<1>1. per \in Nat /\ per > 0 /\ n + per - 1 \in Nat
  OBVIOUS
<1> HIDE DEF per
<1>2. q \in Nat
  BY <1>1
<1>3. n + per - 1 = per * q + ((n + per - 1) % per) /\ (n + per - 1) % per < per
  BY <1>1
<1> HIDE DEF q
<1>4. per * q \in Nat /\ q * per = per * q
  BY <1>1, <1>2
<1>5. (n + per - 1) % per \in Nat
  BY <1>1
<1>6. n <= q * per
  BY <1>1, <1>3, <1>4, <1>5
<1> QED
  BY <1>2, <1>6 DEF PagesOf, q, per

\* A table has finitely many rows: their ids differ and were given out.
LEMMA RowsFinite == ASSUME IInv PROVE IsFiniteSet(db.reservations)
<1> DEFINE f == [r \in db.reservations |-> r.id]
           n == db.seq.reservations
<1>1. n \in Nat /\ \A r \in db.reservations : r.id \in Nat
  BY DEF IInv, ServerInv, TypeOK, StoreTypeOK, Database, ReservationRow, Id
<1>2. /\ \A a, b \in db.reservations : a.id = b.id => a = b
      /\ \A a \in db.reservations : a.id <= n
  BY DEF IInv, ServerInv, Sound, PrimaryKeys, KeysUnique
<1>3. f \in Injection(db.reservations, 0..n)
  BY <1>1, <1>2 DEF Injection, IsInjective
<1>4. IsFiniteSet(0..n)
  BY <1>1, FS_Interval
<1> QED
  BY <1>3, <1>4, FS_Injection

\* A reservation ranks below the number of all.
LEMMA RankBelow ==
    ASSUME IsFiniteSet(old), NEW r \in old, NEW A \in SUBSET old, r \notin A
    PROVE  Cardinality(A) \in Nat /\ Cardinality(A) < Cardinality(old)
<1>1. /\ IsFiniteSet(A) /\ Cardinality(A) <= Cardinality(old)
      /\ Cardinality(A) # Cardinality(old)
  BY FS_Subset
<1>2. Cardinality(A) \in Nat /\ Cardinality(old) \in Nat
  BY <1>1, FS_CardinalityType
<1> QED
  BY <1>1, <1>2

\* The ranks of the old reservations are numbers.
LEMMA Ranks ==
    ASSUME OldComeFirst, stage # "idle", NEW g, NEW r \in old
    PROVE  /\ Cardinality(Ahead(g, r)) \in Nat /\ Cardinality(Ahead(g, r)) < Cardinality(old)
           /\ Cardinality(AheadThen(g, r)) \in Nat
           /\ Cardinality(AheadThen(g, r)) < Cardinality(old)
           /\ Cardinality(old) \in Nat
<1>1. IsFiniteSet(old) /\ ~ (r.id < r.id)
  BY DEF OldComeFirst, ReservationRow, Id
<1>2. Ahead(g, r) \in SUBSET old /\ r \notin Ahead(g, r)
  BY <1>1 DEF Ahead
<1>3. AheadThen(g, r) \in SUBSET old /\ r \notin AheadThen(g, r)
  BY <1>1 DEF AheadThen
<1> QED
  BY <1>1, <1>2, <1>3, RankBelow, FS_CardinalityType

\* What a page owes depends on the walk, the page, the days it read and the old rows.
LEMMA DueSame ==
    ASSUME UNCHANGED <<walk, page, clocks, old>>
    PROVE  \A g : Due(g)' = Due(g)
<1>1. \A g, r : InScope(Scopes[g], r)' <=> InScope(Scopes[g], r)
  BY DEF InScope
<1>2. \A g, r : Ahead(g, r)' = Ahead(g, r)
  BY <1>1 DEF Ahead
<1> QED
  BY <1>1, <1>2 DEF Due

LEMMA ThenSame ==
    ASSUME UNCHANGED <<walk, old, began>>
    PROVE  \A g, r : /\ InScopeThen(g, r)' <=> InScopeThen(g, r)
                     /\ AheadThen(g, r)' = AheadThen(g, r)
<1>1. \A g, r : InScopeThen(g, r)' <=> InScopeThen(g, r)
  BY DEF InScopeThen
<1>2. \A g, r : AheadThen(g, r)' = AheadThen(g, r)
  BY <1>1 DEF AheadThen
<1> QED
  BY <1>1, <1>2

\* On a page that read no other day, the scopes are what they were when the walk began.
LEMMA ScopesAsThen ==
    ASSUME LInv, WalkProgress, IInv, ~ walk.all => Len(clocks) = 4, walk.all \/ today = began,
           NEW g \in Groups, NEW r
    PROVE  /\ InScope(Scopes[g], r) <=> InScopeThen(g, r)
           /\ Ahead(g, r) = AheadThen(g, r)
<1>1. ASSUME NEW s PROVE InScope(Scopes[g], s) <=> InScopeThen(g, s)
  <2>1. CASE walk.all
    BY <2>1 DEF InScope, InScopeThen
  <2>2. CASE ~ walk.all
    <3>1. clocks \in Seq(Id) /\ Len(clocks) = 4 /\ today = began /\ today \in Id
      BY <2>2 DEF LInv, ClocksInOrder, IInv, ServerInv, TypeOK
    <3>2. \A i \in 1..4 : clocks[i] = began
      <4>1. \A i \in 1..4 : clocks[i] <= today /\ began <= clocks[i]
        BY <3>1 DEF LInv, ClocksInOrder, WalkProgress
      <4>2. \A i \in 1..4 : clocks[i] \in Nat
        <5>1. \A i \in 1..Len(clocks) : clocks[i] \in Id
          BY <3>1, ElementOfSeq
        <5> QED
          BY <3>1, <5>1 DEF Id
      <4> QED
        BY <3>1, <4>1, <4>2 DEF Id
    <3>3. /\ clocks[1] = began /\ clocks[2] = began /\ clocks[3] = began /\ clocks[4] = began
          /\ g \in 1..3
      BY <2>2, <3>2 DEF Groups
    <3>4. CASE g = 1
      BY <2>2, <3>3, <3>4 DEF InScope, InScopeThen, Scopes
    <3>5. CASE g = 2
      BY <2>2, <3>3, <3>5 DEF InScope, InScopeThen, Scopes
    <3>6. CASE g = 3
      BY <2>2, <3>3, <3>6 DEF InScope, InScopeThen, Scopes
    <3> QED
      BY <3>3, <3>4, <3>5, <3>6
  <2> QED
    BY <2>1, <2>2
<1> QED
  BY <1>1 DEF Ahead, AheadThen
-----------------------------------------------------------------------------
(* What a walk shows, step by step. *)

\* The API goes on: what is booked comes after the old reservations, and one of them that
\* is gone does not come back.
LEMMA WalkApi ==
    ASSUME WalkInv, IInv, IInv', Remembers(db, db'), today' >= today, UNCHANGED walkVars
    PROVE  WalkInv'
<1>1. /\ UNCHANGED <<walk, stage, page, clocks, pages, group, rows, shown, status, seen, old, began>>
      /\ today \in Id /\ today' \in Id /\ db \in Database /\ db' \in Database
  BY DEF walkVars, pageVars, IInv, ServerInv, TypeOK, StoreTypeOK
<1>2. OldComeFirst'
  <2> SUFFICES ASSUME stage # "idle"
               PROVE  /\ \A r \in old : r.id <= db'.seq.reservations
                      /\ \A s \in Mine(db') : s \in old \/ \A r \in old : r.id < s.id
    BY <1>1 DEF WalkInv, OldComeFirst, Mine
  <2>1. \A r \in old : r.id \in Nat /\ r.id <= db.seq.reservations
    BY DEF WalkInv, OldComeFirst, ReservationRow, Id
  <2>2. \A r \in old : r.id <= db'.seq.reservations
    BY <1>1, <2>1 DEF Remembers, Database
  <2>3. ASSUME NEW s \in Mine(db'), s \notin old, NEW r \in old
        PROVE  r.id < s.id
    <3>1. CASE s \in db.reservations
      <4>1. s \in Mine(db)
        BY <2>3, <3>1 DEF Mine
      <4> QED
        BY <2>3, <4>1 DEF WalkInv, OldComeFirst
    <3>2. CASE s.id > db.seq.reservations
      <4>1. s.id \in Nat
        BY <1>1, <2>3 DEF Mine, Database, ReservationRow, Id
      <4> QED
        BY <1>1, <2>1, <2>3, <3>2, <4>1 DEF Database
    <3> QED
      BY <2>3, <3>1, <3>2 DEF Remembers, Mine
  <2> QED
    BY <2>2, <2>3
<1>3. WalkProgress'
  <2>1. began <= today'
    BY <1>1 DEF WalkInv, WalkProgress, Id
  <2> QED
    BY <1>1, <2>1 DEF WalkInv, WalkProgress, Answering
<1>4. ASSUME stage # "idle", old \subseteq db'.reservations PROVE old \subseteq db.reservations
  <2>1. \A r \in old : r \in ReservationRow /\ r.id <= db.seq.reservations
    BY <1>4 DEF WalkInv, OldComeFirst
  <2> QED
    BY <1>4, <2>1, RowGoneStays
<1>5. status = 200 \/ Answering => stage # "idle"
  BY DEF WalkInv, WalkProgress, Answering
<1>6. Counted'
  BY <1>1, <1>4, <1>5 DEF WalkInv, Counted, Answering
<1>7. DuesPaid'
  <2>1. \A g : Due(g)' = Due(g)
    BY <1>1, DueSame
  <2> QED
    BY <1>1, <1>4, <1>5, <2>1 DEF WalkInv, DuesPaid, Answering, Groups
<1>8. Walked'
  <2>1. \A g, r : /\ InScopeThen(g, r)' <=> InScopeThen(g, r)
                  /\ AheadThen(g, r)' = AheadThen(g, r)
    BY <1>1, ThenSame
  <2>2. stage # "idle" /\ today' = began => today = began
    BY <1>1 DEF WalkInv, WalkProgress, Id
  <2> QED
    BY <1>1, <1>4, <2>1, <2>2 DEF WalkInv, Walked, Groups
<1> QED
  BY <1>2, <1>3, <1>6, <1>7, <1>8 DEF WalkInv

\* What a request for a page begins with.
LEMMA RequestBegins ==
    ASSUME NEW k \in Walks, NEW n, Request(k, n)
    PROVE  /\ walk' = k /\ page' = n /\ clocks' = <<>> /\ pages' = 0 /\ group' = 1
           /\ rows' = {}
           /\ k.per \in Nat
           /\ \/ stage' = "end" /\ status' \notin {0, 200}
              \/ stage' \in {"clocks", "count"} /\ status' = 0 /\ k.per > 0
<1>1. k.per \in Nat
  BY WalksAssumption
<1> QED
  BY <1>1 DEF Request, EmptyPage, AdminStatus, AuthStatus, Pass

\* A walk begins: nothing is seen yet, and the old reservations are those of now.
LEMMA BeginWalkShows ==
    ASSUME IInv, UNCHANGED allVars, BeginWalk
    PROVE  WalkInv'
<1> PICK k \in Walks :
      Request(k, 1) /\ old' = {r \in db.reservations : k.all \/ r.user = k.as}
  BY DEF BeginWalk
<1>1. /\ seen' = {} /\ began' = today /\ db' = db /\ today' = today /\ today \in Id
  BY DEF BeginWalk, allVars, vars, storeVars, IInv, ServerInv, TypeOK
<1>2. /\ walk' = k /\ page' = 1 /\ clocks' = <<>> /\ pages' = 0 /\ group' = 1
      /\ rows' = {} /\ k.per \in Nat
      /\ \/ stage' = "end" /\ status' \notin {0, 200}
         \/ stage' \in {"clocks", "count"} /\ status' = 0 /\ k.per > 0
  BY RequestBegins
<1>3. OldComeFirst'
  <2>1. \A r \in db.reservations : r \in ReservationRow /\ r.id <= db.seq.reservations
    BY DEF IInv, ServerInv, TypeOK, StoreTypeOK, Database, Sound, PrimaryKeys, KeysUnique
  <2>2. Mine(db)' = old'
    BY <1>1, <1>2 DEF Mine
  <2>3. IsFiniteSet(old')
    BY RowsFinite, FS_Subset
  <2> QED
    BY <1>1, <1>2, <2>1, <2>2, <2>3 DEF OldComeFirst
<1>4. WalkProgress'
  BY <1>1, <1>2 DEF WalkProgress, Answering, Id
<1>5. Counted' /\ DuesPaid'
  BY <1>2 DEF Counted, DuesPaid, Answering
<1>6. Walked'
  <2>1. (page' - 1) * walk'.per = 0
    BY <1>2
  <2>2. ASSUME NEW g, NEW r \in old' PROVE ~ (Cardinality(AheadThen(g, r)') < 0)
    <3>1. AheadThen(g, r)' \in SUBSET old' /\ IsFiniteSet(old')
      BY <1>2, <1>3 DEF AheadThen, OldComeFirst
    <3>2. Cardinality(AheadThen(g, r)') \in Nat
      BY <3>1, FS_Subset, FS_CardinalityType
    <3> QED
      BY <3>2
  <2> QED
    BY <1>2, <2>1, <2>2 DEF Walked
<1> QED
  BY <1>3, <1>4, <1>5, <1>6 DEF WalkInv

\* The next page is asked for: what was seen is what ranks before its beginning.
LEMMA NextPageShows ==
    ASSUME LInv, WalkInv, UNCHANGED allVars, NextPage
    PROVE  WalkInv'
<1>1. /\ stage = "page" /\ walk \in Walks /\ Request(walk, page + 1)
      /\ UNCHANGED <<seen, old, began, db, today>>
  BY DEF NextPage, LInv, Progress, allVars, vars, storeVars
<1>2. /\ walk' = walk /\ page' = page + 1 /\ clocks' = <<>> /\ pages' = 0 /\ group' = 1
      /\ rows' = {} /\ walk.per \in Nat
      /\ \/ stage' = "end" /\ status' \notin {0, 200}
         \/ stage' \in {"clocks", "count"} /\ status' = 0 /\ walk.per > 0
  BY <1>1, RequestBegins
<1>3. OldComeFirst'
  BY <1>1, <1>2 DEF WalkInv, OldComeFirst, Mine
<1>4. WalkProgress'
  BY <1>1, <1>2 DEF WalkInv, WalkProgress, Answering
<1>5. Counted' /\ DuesPaid'
  BY <1>2 DEF Counted, DuesPaid, Answering
<1>6. Walked'
  <2>1. status = 200 /\ page \in Nat /\ page > 0
    BY <1>1 DEF WalkInv, WalkProgress
  <2>2. page' - 1 = page
    BY <1>2, <2>1
  <2>3. \A g, r : /\ InScopeThen(g, r)' <=> InScopeThen(g, r)
                  /\ AheadThen(g, r)' = AheadThen(g, r)
    BY <1>1, <1>2, ThenSame
  <2>4. status' # 200
    BY <1>2
  <2> QED
    BY <1>1, <1>2, <2>1, <2>2, <2>3, <2>4 DEF WalkInv, Walked, Groups
<1> QED
  BY <1>3, <1>4, <1>5, <1>6 DEF WalkInv

\* Steps that leave what was seen and how far the walk is.
LEMMA WalkedKept ==
    ASSUME WalkInv, stage # "idle",
           UNCHANGED <<walk, page, seen, old, began, db, today>>, status # 200, status' # 200
    PROVE  Walked'
<1>1. \A g, r : /\ InScopeThen(g, r)' <=> InScopeThen(g, r)
                /\ AheadThen(g, r)' = AheadThen(g, r)
  BY ThenSame
<1> QED
  BY <1>1 DEF WalkInv, Walked, Groups

\* A scope reads the clock.
LEMMA ReadClockShows ==
    ASSUME LInv, IInv, WalkInv, UNCHANGED allVars, ReadClock
    PROVE  WalkInv'
<1>1. /\ stage = "clocks" /\ stage' \in {"clocks", "count"}
      /\ clocks' = Append(clocks, today)
      /\ UNCHANGED <<walk, page, pages, group, rows, shown, status, seen, old, began, db, today>>
      /\ today \in Id
  BY DEF ReadClock, allVars, vars, storeVars, IInv, ServerInv, TypeOK
<1>2. status = 0 /\ clocks \in Seq(Id) /\ group \in 1..3
  BY <1>1 DEF WalkInv, WalkProgress, Answering, LInv, ClocksInOrder, Progress
<1>3. OldComeFirst'
  BY <1>1 DEF WalkInv, OldComeFirst, Mine
<1>4. WalkProgress'
  <2>1. /\ Len(clocks') = Len(clocks) + 1
        /\ \A i \in 1..Len(clocks') :
             clocks'[i] = IF i = Len(clocks') THEN today ELSE clocks[i]
    BY <1>1, <1>2
  <2>2. \A i \in 1..Len(clocks') : began <= clocks'[i]
    BY <1>1, <1>2, <2>1 DEF WalkInv, WalkProgress
  <2> QED
    BY <1>1, <1>2, <2>2 DEF WalkInv, WalkProgress, Answering
<1>5. Counted'
  BY <1>1, <1>2 DEF Counted
<1>6. DuesPaid'
  <2>1. group = 1
    BY <1>1 DEF WalkInv, WalkProgress
  <2> QED
    BY <1>1, <1>2, <2>1 DEF DuesPaid
<1>7. Walked'
  BY <1>1, <1>2, WalkedKept
<1> QED
  BY <1>3, <1>4, <1>5, <1>6, <1>7 DEF WalkInv

\* The meta is counted: the old reservations are among those counted.
LEMMA CountShows ==
    ASSUME LInv, IInv, WalkInv, UNCHANGED allVars, Count
    PROVE  WalkInv'
<1>1. /\ stage = "count" /\ stage' = "select" /\ group = 1
      /\ pages' = PagesOf(Cardinality(Mine(db)))
      /\ UNCHANGED <<walk, page, clocks, group, rows, shown, status, seen, old, began, db, today>>
  BY DEF Count, allVars, vars, storeVars, WalkInv, WalkProgress
<1>2. status = 0 /\ walk.per \in Nat /\ walk.per > 0
  BY <1>1, WalksAssumption DEF WalkInv, WalkProgress, Answering, LInv, Progress
<1>3. OldComeFirst'
  BY <1>1 DEF WalkInv, OldComeFirst, Mine
<1>4. WalkProgress'
  BY <1>1, <1>2 DEF WalkInv, WalkProgress, Answering
<1>5. Counted'
  <2>1. IsFiniteSet(Mine(db)) /\ Cardinality(Mine(db)) \in Nat
    BY RowsFinite, FS_Subset, FS_CardinalityType DEF Mine
  <2>2. pages' \in Nat /\ Cardinality(Mine(db)) <= pages' * walk.per
    BY <1>1, <1>2, <2>1, PagesHold
  <2>3. ASSUME old \subseteq db.reservations
        PROVE  Cardinality(old) <= pages' * walk.per
    <3>1. old \in SUBSET Mine(db)
      BY <1>1, <2>3 DEF WalkInv, OldComeFirst, Mine
    <3>2. IsFiniteSet(old) /\ Cardinality(old) <= Cardinality(Mine(db))
      BY <2>1, <3>1, FS_Subset
    <3>3. Cardinality(old) \in Nat /\ pages' * walk.per \in Nat
      BY <1>2, <2>2, <3>2, FS_CardinalityType
    <3> QED
      BY <2>1, <2>2, <3>2, <3>3
  <2> QED
    BY <1>1, <2>2, <2>3 DEF Counted
<1>6. DuesPaid'
  BY <1>1, <1>2 DEF DuesPaid
<1>7. Walked'
  BY <1>1, <1>2, WalkedKept
<1> QED
  BY <1>3, <1>4, <1>5, <1>6, <1>7 DEF WalkInv

\* The SELECT of a scope finds what the scope owes this page: what is new ranks after it.
LEMMA SelectedAreDue ==
    ASSUME IInv, WalkInv, stage = "select", SelectGroup, old \subseteq db.reservations
    PROVE  Due(group) \subseteq rows'
<1> DEFINE scope == {r \in Mine(db) : InScope(Scopes[group], r)}
<1>1. rows' = {r \in scope : OnPage(scope, r)}
  BY DEF SelectGroup
<1>2. ASSUME NEW r \in Due(group) PROVE r \in rows'
  <2>1. r \in old /\ InScope(Scopes[group], r)
    BY <1>2 DEF Due
  <2>2. r \in scope
    BY <2>1 DEF WalkInv, OldComeFirst, Mine
  <2>3. \A s \in old : s \in Mine(db) /\ s.id \in Nat
    BY DEF WalkInv, OldComeFirst, Mine, ReservationRow, Id
  <2>4. \A s \in Mine(db) : s.id < r.id => s \in old
    <3>0. \A s \in Mine(db) : s.id \in Nat
      BY DEF IInv, ServerInv, TypeOK, StoreTypeOK, Database, Mine, ReservationRow, Id
    <3>1. ASSUME NEW s \in Mine(db), s.id < r.id, s \notin old PROVE FALSE
      <4>1. r.id < s.id
        BY <2>1, <3>1 DEF WalkInv, OldComeFirst
      <4> QED
        BY <2>1, <2>3, <3>1, <4>1, <3>0
    <3> QED
      BY <3>1
  <2>5. {s \in scope : s.id < r.id} = Ahead(group, r)
    BY <2>3, <2>4 DEF Ahead
  <2>6. OnPage(scope, r)
    BY <1>2, <2>5 DEF OnPage, Due
  <2> QED
    BY <1>1, <2>2, <2>6
<1> QED
  BY <1>2

\* The reservations of a scope are selected.
LEMMA SelectGroupShows ==
    ASSUME LInv, IInv, WalkInv, UNCHANGED allVars, SelectGroup
    PROVE  WalkInv'
<1>1. /\ stage = "select" /\ stage' = "rooms"
      /\ UNCHANGED <<walk, page, clocks, pages, group, shown, status, seen, old, began, db, today>>
  BY DEF SelectGroup, allVars, vars, storeVars
<1>2. status = 0
  BY <1>1 DEF WalkInv, WalkProgress, Answering
<1>3. OldComeFirst'
  BY <1>1 DEF WalkInv, OldComeFirst, Mine
<1>4. WalkProgress'
  BY <1>1, <1>2 DEF WalkInv, WalkProgress, Answering
<1>5. Counted'
  BY <1>1 DEF WalkInv, Counted
<1>6. DuesPaid'
  <2>1. \A g : Due(g)' = Due(g)
    BY <1>1, DueSame
  <2>2. old \subseteq db.reservations => Due(group) \subseteq rows'
    BY <1>1, SelectedAreDue
  <2> QED
    BY <1>1, <1>2, <2>1, <2>2 DEF WalkInv, DuesPaid, Answering
<1>7. Walked'
  BY <1>1, <1>2, WalkedKept
<1> QED
  BY <1>3, <1>4, <1>5, <1>6, <1>7 DEF WalkInv

\* The last scope of a page is in the JSON: the reader has what the page owes, and with
\* that, on a day like the first, all that ranks before its end.
LEMMA PageShows ==
    ASSUME LInv, IInv, WalkInv, UNCHANGED allVars, stage \in {"rooms", "hotels"},
           UNCHANGED <<walk, page, clocks, pages, rows, old, began>>,
           walk.all \/ group = 3,
           EndPage([shown EXCEPT ![group] = rows], 200)
    PROVE  WalkInv'
<1> DEFINE show == [shown EXCEPT ![group] = rows]
<1>0. /\ UNCHANGED <<db, today>> /\ Answering
      /\ walk.per \in Nat /\ walk.per > 0 /\ status = 0 /\ page \in Nat /\ page > 0
      /\ group \in Groups /\ group \in 1..3 /\ walk \in Walks
      /\ ~ walk.all => Len(clocks) = 4
  BY WalksAssumption
  DEF allVars, vars, storeVars, LInv, Progress, WalkInv, WalkProgress, Answering, Groups
<1>1. /\ status' = 200 /\ seen' = seen \cup UNION {show[g] : g \in 1..3}
      /\ stage' \in {"page", "end"} /\ (stage' = "end" => ~ (page < pages))
  BY DEF EndPage
<1>2. shown \in [1..3 -> SUBSET ReservationRow]
  BY DEF LInv, ScopesKept
<1>3. \A g \in 1..3 : show[g] \subseteq seen'
  BY <1>1
<1>4. \A g \in 1..3 : show[g] = IF g = group THEN rows ELSE shown[g]
  BY <1>0, <1>2
<1> HIDE DEF show
<1>5. OldComeFirst'
  BY <1>0, <1>1 DEF WalkInv, OldComeFirst, Mine
<1>6. Counted'
  BY <1>0, <1>1 DEF WalkInv, Counted
<1>7. WalkProgress'
  <2>1. pages \in Nat
    BY DEF WalkInv, Counted
  <2> QED
    BY <1>0, <1>1, <2>1 DEF WalkInv, WalkProgress, Answering
<1>8. old \subseteq db.reservations => \A g \in Groups : Due(g) \subseteq seen'
  <2> SUFFICES ASSUME old \subseteq db.reservations, NEW g \in Groups
               PROVE  Due(g) \subseteq seen'
    OBVIOUS
  <2>1. g \in 1..3 /\ (g # group => g \in 1..(group - 1))
    BY <1>0 DEF Groups
  <2>2. Due(g) \subseteq show[g]
    BY <1>0, <1>4, <2>1 DEF WalkInv, DuesPaid
  <2> QED
    BY <1>3, <2>1, <2>2
<1>9. DuesPaid'
  <2>1. \A g : Due(g)' = Due(g)
    BY DueSame
  <2> QED
    BY <1>0, <1>1, <1>8, <2>1 DEF DuesPaid, Answering, Groups
<1>10. Walked'
  <2>1. \A g, r : /\ InScopeThen(g, r)' <=> InScopeThen(g, r)
                  /\ AheadThen(g, r)' = AheadThen(g, r)
    BY ThenSame
  <2>2. ASSUME old \subseteq db.reservations, walk.all \/ today = began,
               NEW g \in Groups, NEW r \in old,
               InScopeThen(g, r), Cardinality(AheadThen(g, r)) < page * walk.per
        PROVE  r \in seen'
    <3>1. InScope(Scopes[g], r) /\ Ahead(g, r) = AheadThen(g, r)
      BY <1>0, <2>2, ScopesAsThen DEF WalkInv
    <3>2. Cardinality(Ahead(g, r)) \in Nat
      BY <1>0, Ranks DEF WalkInv, Answering
    <3>3. (page - 1) * walk.per \in Nat /\ page * walk.per \in Nat
      BY <1>0, PageBounds
    <3>4. CASE Cardinality(Ahead(g, r)) < (page - 1) * walk.per
      BY <1>0, <1>1, <2>2, <3>1, <3>4 DEF WalkInv, Walked, Answering
    <3>5. CASE (page - 1) * walk.per <= Cardinality(Ahead(g, r))
      <4>1. r \in Due(g)
        BY <2>2, <3>1, <3>5 DEF Due
      <4> QED
        BY <1>8, <2>2, <4>1
    <3> QED
      BY <3>2, <3>3, <3>4, <3>5
  <2> QED
    BY <1>0, <1>1, <2>1, <2>2 DEF Walked, Groups
<1> QED
  BY <1>5, <1>6, <1>7, <1>9, <1>10 DEF WalkInv

\* A scope is in the JSON.
LEMMA EndGroupShows ==
    ASSUME LInv, IInv, WalkInv, UNCHANGED allVars, stage \in {"rooms", "hotels"},
           UNCHANGED <<walk, page, clocks, pages, rows, old, began>>, EndGroup
    PROVE  WalkInv'
<1>1. CASE walk.all \/ group = 3
  BY <1>1, PageShows DEF EndGroup
<1>2. CASE ~ (walk.all \/ group = 3)
  <2>1. /\ shown' = [shown EXCEPT ![group] = rows] /\ group' = group + 1
        /\ stage' = "select" /\ UNCHANGED <<status, seen, db, today>>
        /\ group \in 1..2 /\ shown \in [1..3 -> SUBSET ReservationRow]
        /\ status = 0
    BY <1>2 DEF EndGroup, allVars, vars, storeVars, LInv, Progress, ScopesKept, WalkInv,
                WalkProgress, Answering
  <2>2. OldComeFirst'
    BY <2>1 DEF WalkInv, OldComeFirst, Mine
  <2>3. WalkProgress'
    BY <2>1 DEF WalkInv, WalkProgress, Answering
  <2>4. Counted'
    BY <2>1 DEF WalkInv, Counted
  <2>5. DuesPaid'
    <3>1. \A g : Due(g)' = Due(g)
      BY DueSame
    <3>2. \A g \in 1..3 : shown'[g] = IF g = group THEN rows ELSE shown[g]
      BY <2>1
    <3>3. \A g \in 1..group : g \in 1..3 /\ (g # group => g \in 1..(group - 1))
      BY <2>1
    <3>4. group' - 1 = group
      BY <2>1
    <3> QED
      BY <2>1, <3>1, <3>2, <3>3, <3>4 DEF WalkInv, DuesPaid, Answering
  <2>6. Walked'
    BY <2>1, WalkedKept
  <2> QED
    BY <2>2, <2>3, <2>4, <2>5, <2>6 DEF WalkInv
<1> QED
  BY <1>1, <1>2

\* The rooms of a scope are loaded.
LEMMA PreloadRoomsShows ==
    ASSUME LInv, IInv, WalkInv, UNCHANGED allVars, PreloadRooms
    PROVE  WalkInv'
<1>1. stage = "rooms" /\ UNCHANGED <<walk, page, clocks, pages, rows, old, began, db, today>>
  BY DEF PreloadRooms, allVars, vars, storeVars
<1>2. CASE EndGroup
  BY <1>1, <1>2, EndGroupShows
<1>3. CASE stage' = "hotels" /\ UNCHANGED <<group, shown, status, seen>>
  <2>1. status = 0
    BY <1>1 DEF WalkInv, WalkProgress, Answering
  <2>2. OldComeFirst'
    BY <1>1, <1>3 DEF WalkInv, OldComeFirst, Mine
  <2>3. WalkProgress'
    BY <1>1, <1>3 DEF WalkInv, WalkProgress, Answering
  <2>4. Counted'
    BY <1>1, <1>3 DEF WalkInv, Counted
  <2>5. DuesPaid'
    <3>1. \A g : Due(g)' = Due(g)
      BY <1>1, DueSame
    <3> QED
      BY <1>1, <1>3, <2>1, <3>1 DEF WalkInv, DuesPaid, Answering
  <2>6. Walked'
    BY <1>1, <1>3, <2>1, WalkedKept
  <2> QED
    BY <2>2, <2>3, <2>4, <2>5, <2>6 DEF WalkInv
<1> QED
  BY <1>2, <1>3 DEF PreloadRooms

\* The hotels are loaded: the scope is in the JSON, or the page fails.
LEMMA PreloadHotelsShows ==
    ASSUME LInv, IInv, WalkInv, UNCHANGED allVars, PreloadHotels
    PROVE  WalkInv'
<1>1. stage = "hotels" /\ UNCHANGED <<walk, page, clocks, pages, rows, old, began, db, today>>
  BY DEF PreloadHotels, allVars, vars, storeVars
<1>2. CASE EndGroup
  BY <1>1, <1>2, EndGroupShows
<1>3. CASE EndPage([g \in 1..3 |-> {}], 500)
  <2>1. /\ stage' = "end" /\ status' = 500 /\ seen' = seen /\ status = 0
    BY <1>1, <1>3 DEF EndPage, WalkInv, WalkProgress, Answering
  <2>2. OldComeFirst'
    BY <1>1, <2>1 DEF WalkInv, OldComeFirst, Mine
  <2>3. WalkProgress'
    BY <1>1, <2>1 DEF WalkInv, WalkProgress, Answering
  <2>4. Counted' /\ DuesPaid'
    BY <2>1 DEF Counted, DuesPaid, Answering
  <2>5. Walked'
    BY <1>1, <2>1, WalkedKept
  <2> QED
    BY <2>2, <2>3, <2>4, <2>5 DEF WalkInv
<1> QED
  BY <1>2, <1>3 DEF PreloadHotels

\* The reader is done, or has not begun.
LEMMA NoWalkShows ==
    ASSUME stage = "idle", status = 0, page = 0, began = 0, clocks = <<>>, today \in Id
    PROVE  WalkInv
<1>1. OldComeFirst /\ Walked
  BY DEF OldComeFirst, Walked
<1>2. WalkProgress
  BY DEF WalkProgress, Answering, Id
<1>3. Counted /\ DuesPaid
  BY DEF Counted, DuesPaid, Answering
<1> QED
  BY <1>1, <1>2, <1>3 DEF WalkInv

\* No step of a reader or of the API leaves a walk short.
LEMMA ListNextWalk ==
    ASSUME LInv, OInv, OInv', WalkInv, [ListNext]_<<allVars, walkVars>>
    PROVE  WalkInv'
<1>0. IInv /\ IInv' /\ today \in Id /\ today' \in Id
  BY DEF OInv, IInv, ServerInv, TypeOK
<1>1. CASE ReadStep /\ UNCHANGED allVars
  <2>1. CASE EndWalk
    <3>1. /\ stage' = "idle" /\ status' = 0 /\ page' = 0 /\ began' = 0 /\ clocks' = <<>>
      BY <2>1 DEF EndWalk, EmptyPage
    <3>2. OldComeFirst' /\ Walked'
      BY <3>1 DEF OldComeFirst, Walked
    <3>3. WalkProgress'
      BY <1>0, <3>1 DEF WalkProgress, Answering, Id
    <3>4. Counted' /\ DuesPaid'
      BY <3>1 DEF Counted, DuesPaid, Answering
    <3> QED
      BY <3>2, <3>3, <3>4 DEF WalkInv
  <2> QED
    BY <1>0, <1>1, <2>1, BeginWalkShows, NextPageShows, ReadClockShows, CountShows,
       SelectGroupShows, PreloadRoomsShows, PreloadHotelsShows
    DEF ReadStep
<1>2. CASE [Next]_allVars /\ UNCHANGED walkVars
  <2>1. Remembers(db, db')
    BY <1>2, NextOInv
  <2>2. today' >= today
    BY <1>0, <1>2, DaysPass
  <2> QED
    BY <1>0, <1>2, <2>1, <2>2, WalkApi
<1>3. CASE UNCHANGED <<allVars, walkVars>>
  BY <1>2, <1>3
<1> QED
  BY <1>1, <1>2, <1>3 DEF ListNext

\* What a page owes it shows, and what was shown stays with the reader.
THEOREM WalksInvariance == ListSpec => []WalkInv
<1>1. ListSpec => [](LInv /\ OInv)
  BY ListingsInvariance, ReadersOnlyRead, OutcomeInvariance, PTL
<1>2. ListInit => WalkInv
  <2> SUFFICES ASSUME ListInit PROVE WalkInv
    OBVIOUS
  <2>1. stage = "idle" /\ status = 0 /\ page = 0 /\ began = 0 /\ clocks = <<>> /\ today \in Id
    BY DayAssumption DEF ListInit, Init
  <2> QED
    BY <2>1, NoWalkShows
<1>3. LInv /\ OInv /\ OInv' /\ WalkInv /\ [ListNext]_<<allVars, walkVars>> => WalkInv'
  BY ListNextWalk
<1> QED
  BY <1>1, <1>2, <1>3, PTL DEF ListSpec

\* The pages of a walk show every reservation that was there before it, bookings made
\* meanwhile notwithstanding, unless one is destroyed or a midnight passes; and midnight
\* hides from a single page only stays that ended just before it or begin just after it.
THEOREM WalksShowAll == ListSpec => []WalkShowsAll
<1>1. ASSUME LInv, OInv, WalkInv PROVE WalkShowsAll
  <2> SUFFICES ASSUME stage = "end", status = 200, old \subseteq db.reservations,
                      NEW r \in old \ seen
               PROVE  /\ ~ walk.all /\ today # began
                      /\ \/ page > 1
                         \/ r.check_out \in began..(today - 1)
                         \/ r.check_in \in (began + 1)..today
    BY DEF WalkShowsAll
  <2>1. /\ IInv /\ walk \in Walks /\ walk.per \in Nat
        /\ page \in Nat /\ page > 0 /\ pages \in Nat /\ pages <= page
        /\ began \in Nat /\ today \in Nat
        /\ ~ walk.all => Len(clocks) = 4
    BY <1>1, WalksAssumption
    DEF OInv, LInv, Progress, WalkInv, WalkProgress, Counted, IInv, ServerInv, TypeOK, Id
  <2>2. \A g : /\ Cardinality(Ahead(g, r)) \in Nat
               /\ Cardinality(AheadThen(g, r)) \in Nat
               /\ Cardinality(Ahead(g, r)) < page * walk.per
               /\ Cardinality(AheadThen(g, r)) < page * walk.per
    <3>1. Cardinality(old) <= pages * walk.per
      BY <1>1 DEF WalkInv, Counted
    <3>2. pages * walk.per <= page * walk.per
      BY <2>1, MorePages
    <3>3. pages * walk.per \in Nat /\ page * walk.per \in Nat
      BY <2>1
    <3> SUFFICES ASSUME NEW g
                 PROVE  /\ Cardinality(Ahead(g, r)) \in Nat
                        /\ Cardinality(AheadThen(g, r)) \in Nat
                        /\ Cardinality(Ahead(g, r)) < page * walk.per
                        /\ Cardinality(AheadThen(g, r)) < page * walk.per
      OBVIOUS
    <3>4. /\ Cardinality(Ahead(g, r)) \in Nat /\ Cardinality(Ahead(g, r)) < Cardinality(old)
          /\ Cardinality(AheadThen(g, r)) \in Nat
          /\ Cardinality(AheadThen(g, r)) < Cardinality(old)
          /\ Cardinality(old) \in Nat
      BY <1>1, Ranks DEF WalkInv
    <3> QED
      BY <3>1, <3>2, <3>3, <3>4
  <2>3. r.check_in \in Nat /\ r.check_out \in Nat
    BY <1>1 DEF WalkInv, OldComeFirst, ReservationRow
  <2>4. ASSUME walk.all \/ today = began PROVE FALSE
    <3>1. \E g \in Groups : InScopeThen(g, r)
      BY <2>1, <2>3 DEF Groups, InScopeThen
    <3> QED
      BY <1>1, <2>2, <2>4, <3>1 DEF WalkInv, Walked
  <2>5. ASSUME page = 1
        PROVE  \/ r.check_out \in began..(today - 1)
               \/ r.check_in \in (began + 1)..today
    <3>1. (page - 1) * walk.per = 0
      BY <2>1, <2>5
    <3>2. \A g \in 1..3 : ~ InScope(Scopes[g], r)
      <4> SUFFICES ASSUME NEW g \in 1..3, InScope(Scopes[g], r) PROVE FALSE
        OBVIOUS
      <4>1. r \in Due(g)
        BY <2>2, <3>1 DEF Due
      <4>2. g \in Groups
        BY <2>4 DEF Groups
      <4> QED
        BY <1>1, <4>1, <4>2 DEF WalkInv, DuesPaid
    <3>3. /\ ~ (r.check_out < clocks[1])
          /\ ~ (r.check_in <= clocks[2] /\ r.check_out >= clocks[3])
          /\ ~ (r.check_in > clocks[4])
      BY <3>2 DEF InScope, Scopes
    <3>4. Len(clocks) = 4 /\ clocks \in Seq(Id)
      BY <1>1, <2>1, <2>4 DEF LInv, ClocksInOrder
    <3>5. \A i \in 1..4 : clocks[i] \in Nat /\ began <= clocks[i] /\ clocks[i] <= today
      <4>1. \A i \in 1..Len(clocks) : clocks[i] \in Id
        BY <3>4, ElementOfSeq
      <4> QED
        BY <1>1, <3>4, <4>1 DEF LInv, ClocksInOrder, WalkInv, WalkProgress, Id
    <3>6. /\ clocks[1] \in Nat /\ clocks[2] \in Nat /\ clocks[3] \in Nat /\ clocks[4] \in Nat
          /\ began <= clocks[1] /\ began <= clocks[2] /\ clocks[3] <= today /\ clocks[4] <= today
      BY <3>5
    <3>7. CASE r.check_in > clocks[2]
      BY <2>1, <2>3, <3>3, <3>6, <3>7
    <3>8. CASE r.check_out < clocks[3]
      BY <2>1, <2>3, <3>3, <3>6, <3>8
    <3> QED
      BY <2>3, <3>3, <3>6, <3>7, <3>8
  <2> QED
    BY <2>1, <2>4, <2>5
<1>2. ListSpec => [](LInv /\ OInv)
  BY ListingsInvariance, ReadersOnlyRead, OutcomeInvariance, PTL
<1> QED
  BY <1>1, <1>2, WalksInvariance, PTL
=============================================================================
