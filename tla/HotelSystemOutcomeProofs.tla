----------------------- MODULE HotelSystemOutcomeProofs -----------------------
(***************************************************************************)
(* Proofs that what a client was told stays true, and that what the API    *)
(* does to the database is what the ledger of the booking system allows.   *)
(***************************************************************************)
EXTENDS HotelSystemOutcomes, HotelSystemProofs

-----------------------------------------------------------------------------
(* What no write statement takes back. *)

\* Doing nothing takes nothing back.
LEMMA RemembersSame ==
    ASSUME NEW d \in Database
    PROVE  Remembers(d, d)
BY DEF Remembers, Database, Ids

\* A step keeps what the database remembers because it keeps the database.
LEMMA RemembersUnchanged ==
    ASSUME IInv, UNCHANGED db
    PROVE  Remembers(db, db')
BY RemembersSame DEF IInv, ServerInv, TypeOK, StoreTypeOK

\* INSERT INTO hotels, with the next id.
LEMMA InsertHotelRemembers ==
    ASSUME NEW d \in Database, NEW h \in HotelRow, h.id = d.seq.hotels + 1
    PROVE  Remembers(d, InsertHotel(d, h))
<1> DEFINE e == InsertHotel(d, h)
<1>1. /\ e.hotels = d.hotels \cup {h}
      /\ e.rooms = d.rooms /\ e.users = d.users /\ e.reservations = d.reservations
      /\ e.seq.hotels = h.id /\ e.seq.users = d.seq.users
      /\ e.seq.rooms = d.seq.rooms /\ e.seq.reservations = d.seq.reservations
  BY InsertHotelTables
<1> HIDE DEF e
<1> QED
  BY <1>1 DEF Remembers, Database, Ids, e

\* INSERT INTO rooms, with the next id.
LEMMA InsertRoomRemembers ==
    ASSUME NEW d \in Database, NEW r \in RoomRow, r.id = d.seq.rooms + 1
    PROVE  Remembers(d, InsertRoom(d, r))
<1> DEFINE e == InsertRoom(d, r)
<1>1. /\ e.rooms = d.rooms \cup {r}
      /\ e.hotels = d.hotels /\ e.users = d.users /\ e.reservations = d.reservations
      /\ e.seq.hotels = d.seq.hotels /\ e.seq.users = d.seq.users
      /\ e.seq.rooms = r.id /\ e.seq.reservations = d.seq.reservations
  BY InsertRoomTables
<1> HIDE DEF e
<1> QED
  BY <1>1 DEF Remembers, Database, Ids, e

\* INSERT INTO reservations, with the next id.
LEMMA InsertReservationRemembers ==
    ASSUME NEW d \in Database, NEW r \in ReservationRow, r.id = d.seq.reservations + 1
    PROVE  Remembers(d, InsertReservation(d, r))
<1> DEFINE e == InsertReservation(d, r)
<1>1. /\ e.reservations = d.reservations \cup {r}
      /\ e.hotels = d.hotels /\ e.users = d.users /\ e.rooms = d.rooms
      /\ e.seq.hotels = d.seq.hotels /\ e.seq.users = d.seq.users
      /\ e.seq.rooms = d.seq.rooms /\ e.seq.reservations = r.id
  BY InsertReservationTables
<1> HIDE DEF e
<1> QED
  BY <1>1 DEF Remembers, Database, Ids, e

\* INSERT INTO users, with the next id.
LEMMA InsertUserRemembers ==
    ASSUME NEW d \in Database, NEW u \in UserRow, u.id = d.seq.users + 1
    PROVE  Remembers(d, InsertUser(d, u))
<1> DEFINE e == InsertUser(d, u)
<1>1. /\ e.users = d.users \cup {u}
      /\ e.hotels = d.hotels /\ e.reservations = d.reservations /\ e.rooms = d.rooms
      /\ e.seq.hotels = d.seq.hotels /\ e.seq.users = u.id
      /\ e.seq.rooms = d.seq.rooms /\ e.seq.reservations = d.seq.reservations
  BY InsertUserTables
<1> HIDE DEF e
<1> QED
  BY <1>1 DEF Remembers, Database, Ids, e

\* UPDATE hotels SET name.
LEMMA UpdateHotelRemembers ==
    ASSUME NEW d \in Database, NEW id, NEW name \in Name
    PROVE  Remembers(d, UpdateHotel(d, id, name))
<1> DEFINE e == UpdateHotel(d, id, name)
           f(h) == IF h.id = id THEN [h EXCEPT !.name = name] ELSE h
<1>1. /\ e.hotels = {f(h) : h \in d.hotels}
      /\ e.rooms = d.rooms /\ e.users = d.users
      /\ e.reservations = d.reservations /\ e.seq = d.seq
  BY UpdateHotelTables
<1>2. ASSUME NEW h \in d.hotels PROVE f(h).id = h.id
  BY DEF Database, HotelRow
<1> HIDE DEF e, f
<1>3. \A h \in e.hotels : h.id \in Ids(d.hotels)
  BY <1>1, <1>2 DEF Ids
<1> QED
  BY <1>1, <1>3 DEF Remembers, Database, Ids, e

\* UPDATE rooms SET number: the room stays in its hotel.
LEMMA UpdateRoomRemembers ==
    ASSUME NEW d \in Database, NEW id, NEW number \in Number
    PROVE  /\ Remembers(d, UpdateRoom(d, id, number))
           /\ Ids(UpdateRoom(d, id, number).rooms) = Ids(d.rooms)
<1> DEFINE e == UpdateRoom(d, id, number)
           f(r) == IF r.id = id THEN [r EXCEPT !.number = number] ELSE r
<1>1. /\ e.rooms = {f(r) : r \in d.rooms}
      /\ e.hotels = d.hotels /\ e.users = d.users
      /\ e.reservations = d.reservations /\ e.seq = d.seq
  BY UpdateRoomTables
<1>2. ASSUME NEW r \in d.rooms PROVE f(r).id = r.id /\ f(r).hotel = r.hotel
  BY DEF Database, RoomRow
<1> HIDE DEF e, f
<1>3. \A r \in e.rooms : \E q \in d.rooms : q.id = r.id /\ q.hotel = r.hotel
  BY <1>1, <1>2
<1>4. Ids(e.rooms) = Ids(d.rooms)
  BY <1>1, <1>2 DEF Ids
<1> QED
  BY <1>1, <1>3, <1>4 DEF Remembers, Database, Ids, e

\* Room#destroy: the stays that go are those of the rooms that go.
LEMMA DestroyRoomsRemembers ==
    ASSUME NEW d \in Database, NEW ids
    PROVE  Remembers(d, DestroyRooms(d, ids))
<1> DEFINE e == DestroyRooms(d, ids)
<1>1. /\ e.hotels = d.hotels
      /\ e.rooms = {r \in d.rooms : r.id \notin ids}
      /\ e.reservations = {r \in d.reservations : r.room \notin ids}
      /\ e.users = d.users /\ e.seq = d.seq
  BY DestroyRoomsTables
<1> HIDE DEF e
<1> QED
  BY <1>1 DEF Remembers, Database, Ids, e

\* Hotel#destroy is Room#destroy for each of its rooms, and the row.
LEMMA DestroyHotelRows ==
    ASSUME NEW d \in Database, NEW id
    PROVE  LET gone == Ids({r \in d.rooms : r.hotel = id})
               e    == DestroyHotel(d, id)
           IN  /\ e.rooms = {r \in d.rooms : r.id \notin gone}
               /\ e.reservations = {r \in d.reservations : r.room \notin gone}
<1> DEFINE gone == Ids({r \in d.rooms : r.hotel = id})
           c == DestroyRooms(d, gone)
<1>1. /\ c \in Database
      /\ c.rooms = {r \in d.rooms : r.id \notin gone}
      /\ c.reservations = {r \in d.reservations : r.room \notin gone}
  BY DestroyRoomsTables
<1> HIDE DEF c
<1>2. DestroyHotel(d, id) = [c EXCEPT !.hotels = {h \in @ : h.id # id}]
  BY DEF DestroyHotel, c
<1> QED
  BY <1>1, <1>2 DEF Database

\* Hotel#destroy.
LEMMA DestroyHotelRemembers ==
    ASSUME NEW d \in Database, NEW id
    PROVE  Remembers(d, DestroyHotel(d, id))
<1> DEFINE e == DestroyHotel(d, id)
           gone == Ids({r \in d.rooms : r.hotel = id})
<1>1. /\ e.hotels \subseteq d.hotels
      /\ e.rooms = {r \in d.rooms : r.id \notin gone}
      /\ e.reservations = {r \in d.reservations : r.room \notin gone}
      /\ e.users = d.users /\ e.seq = d.seq
  BY DestroyHotelTables, DestroyHotelRows
<1> HIDE DEF e, gone
<1> QED
  BY <1>1 DEF Remembers, Database, Ids, e
-----------------------------------------------------------------------------
(* What one request knows while others commit. *)

\* The id in a request is an id.
LEMMA RequestIdType ==
    ASSUME NEW r \in Offered
    PROVE  /\ r.op = "book" => r.room \in Id
           /\ r.op \in {"destroy_room", "destroy_hotel"} => r.id \in Id
BY OfferedAssumption DEF BookRequest, HotelRequest, RoomRequest, SignUpRequest, LoginRequest

\* An id that is gone is gone for good.
LEMMA GoneForGood ==
    ASSUME IInv, IInv', Remembers(db, db'), NEW id \in Id
    PROVE  /\ RoomGone(id) => RoomGone(id)'
           /\ HotelGone(id) => HotelGone(id)'
<1>1. db \in Database /\ db' \in Database
  BY DEF IInv, ServerInv, TypeOK, StoreTypeOK
<1>2. ASSUME RoomGone(id) PROVE RoomGone(id)'
  <2>1. id <= db'.seq.rooms
    BY <1>1, <1>2 DEF RoomGone, Remembers, Database, Id
  <2>2. ASSUME NEW r \in db'.rooms, r.id = id PROVE FALSE
    BY <1>1, <1>2, <2>2 DEF RoomGone, Remembers, Database, Id, Ids
  <2> QED
    BY <2>1, <2>2 DEF RoomGone, Ids
<1>3. ASSUME HotelGone(id) PROVE HotelGone(id)'
  <2>1. id <= db'.seq.hotels
    BY <1>1, <1>3 DEF HotelGone, Remembers, Database, Id
  <2>2. ASSUME NEW h \in db'.hotels, h.id = id PROVE FALSE
    BY <1>1, <1>3, <2>2 DEF HotelGone, Remembers, Database, Id, Ids
  <2> QED
    BY <2>1, <2>2 DEF HotelGone, Ids
<1> QED
  BY <1>2, <1>3

\* A stay whose room is missing leaves an id that was given out.
LEMMA BookedStays ==
    ASSUME IInv, IInv', Remembers(db, db'), NEW w \in Worker, req[w] \in Offered,
           req[w].op = "book", made'[w] = made[w], req'[w] = req[w]
    PROVE  /\ Booked(w) => Booked(w)'
           /\ NotBooked(w) => NotBooked(w)'
<1>1. db \in Database /\ db' \in Database /\ req[w].room \in Id
  BY RequestIdType DEF IInv, ServerInv, TypeOK, StoreTypeOK
<1>2. ASSUME Booked(w) PROVE Booked(w)'
  <2>1. made[w] \in ReservationRow /\ made[w].room = req[w].room
    BY <1>2 DEF Booked
  <2>2. made[w].id <= db'.seq.reservations
    BY <1>1, <1>2, <2>1 DEF Booked, Remembers, Database, ReservationRow, Id
  <2>3. CASE RoomGone(req[w].room)
    BY <1>1, <2>1, <2>2, <2>3, GoneForGood DEF Booked
  <2>4. CASE made[w] \in db.reservations
    <3>1. CASE made[w] \in db'.reservations
      BY <2>1, <2>2, <3>1 DEF Booked
    <3>2. CASE made[w] \notin db'.reservations
      <4>1. req[w].room \notin Ids(db'.rooms)
        BY <2>1, <2>4, <3>2 DEF Remembers
      <4>2. req[w].room \in Ids(db.rooms)
        BY <2>1, <2>4 DEF IInv, ServerInv, Sound, ForeignKeysHold
      <4>3. req[w].room <= db'.seq.rooms
        BY <1>1, <4>2 DEF IInv, ServerInv, Sound, PrimaryKeys, KeysUnique, Ids, Remembers, Database, Id
      <4> QED
        BY <2>1, <2>2, <4>1, <4>3 DEF Booked, RoomGone
    <3> QED
      BY <3>1, <3>2
  <2> QED
    BY <1>2, <2>3, <2>4 DEF Booked
<1>3. ASSUME NotBooked(w) PROVE NotBooked(w)'
  <2>1. CASE made[w] = NoRow
    BY <1>1, <2>1, BlankAssumption DEF NotBooked, Database
  <2>2. CASE made[w] \in ReservationRow /\ made[w].id <= db.seq.reservations
    <3>1. made[w] \notin db'.reservations
      BY <1>1, <1>3, <2>2 DEF NotBooked, Remembers, Database, ReservationRow, Id
    <3>2. made[w].id <= db'.seq.reservations
      BY <1>1, <2>2 DEF Remembers, Database, ReservationRow, Id
    <3> QED
      BY <2>2, <3>1, <3>2 DEF NotBooked
  <2> QED
    BY <1>3, <2>1, <2>2 DEF NotBooked
<1> QED
  BY <1>2, <1>3

\* What the before_actions found is still what they found.
LEMMA FoundStays ==
    ASSUME IInv, IInv', Remembers(db, db'), NEW v \in Worker, Found(v),
           pc[v] \in {"check", "write", "commit", "render"}, UNCHANGED <<req[v], rec[v]>>,
           pc'[v] \in {"write", "commit", "render"} => req[v].op # "login",
           pc'[v] = "write" /\ req[v].op = "create_room" =>
               req[v].hotel \in Ids(view'[v].hotels)
    PROVE  Found(v)'
<1>1. db \in Database /\ db' \in Database /\ req[v] \in Offered
  BY DEF IInv, ServerInv, TypeOK, StoreTypeOK, Loaded
<1> SUFFICES /\ req[v].op = "book" =>
                   /\ rec[v].id <= db'.seq.rooms
                   /\ \A r \in db'.rooms : r.id = rec[v].id => r.hotel = rec[v].hotel
                   /\ req[v].as \in Ids(db'.users)
             /\ req[v].op = "destroy_room" => rec[v].id <= db'.seq.rooms
             /\ req[v].op = "destroy_hotel" => rec[v].id <= db'.seq.hotels
             /\ req[v].op = "login" => rec[v] \in db'.users
  BY DEF Found
<1>2. CASE req[v].op = "book"
  <2>1. rec[v].id \in Id /\ rec[v].id <= db.seq.rooms
    BY <1>1, <1>2, RequestIdType DEF Found
  <2>2. rec[v].id <= db'.seq.rooms
    BY <1>1, <2>1 DEF Remembers, Database, Id
  <2>3. ASSUME NEW r \in db'.rooms, r.id = rec[v].id PROVE r.hotel = rec[v].hotel
    <3>1. PICK q \in db.rooms : q.id = r.id /\ q.hotel = r.hotel
      BY <1>1, <2>1, <2>3 DEF Remembers, Database, Id
    <3> QED
      BY <1>2, <2>3, <3>1 DEF Found
  <2>4. req[v].as \in Ids(db'.users)
    BY <1>2 DEF Found, Remembers, Ids
  <2> QED
    BY <1>2, <2>2, <2>3, <2>4
<1>3. CASE req[v].op \in {"destroy_room", "destroy_hotel"}
  <2>1. rec[v].id \in Id
    BY <1>1, <1>3, RequestIdType DEF Found
  <2> QED
    BY <1>1, <1>3, <2>1 DEF Found, Remembers, Database, Id
<1>4. CASE req[v].op = "login"
  BY <1>4 DEF Found, Remembers
<1> QED
  BY <1>2, <1>3, <1>4

\* A step of another request leaves a request all it knows.
LEMMA Bystander ==
    ASSUME IInv, IInv', Remembers(db, db'), NEW v \in Worker, Outcome(v),
           UNCHANGED db \/ pc[v] # "commit",
           UNCHANGED <<pc[v], req[v], rec[v], made[v], resp[v], view[v]>>
    PROVE  Outcome(v)'
<1>1. pc[v] # "idle" => req[v] \in Offered
  BY DEF IInv, ServerInv, Loaded
<1>2. Fresh(v)' /\ Written(v)'
  BY DEF Outcome, Fresh, Written
<1>3. Found(v)'
  <2>1. CASE pc[v] \in {"check", "write", "commit", "render"}
    BY <2>1, FoundStays DEF Outcome, Found
  <2>2. CASE pc[v] \notin {"check", "write", "commit", "render"}
    BY <2>2 DEF Found
  <2> QED
    BY <2>1, <2>2
<1>4. Committed(v)'
  BY <1>1, GoneForGood, BookedStays, RequestIdType DEF Outcome, Committed, Remembers
<1>5. Answered(v)'
  <2>1. Pictured(v) => Pictured(v)'
    BY DEF Pictured
  <2>2. CASE req[v] \in Offered /\ pc[v] = "answered"
    <3>1. req[v].op = "book" => IF resp[v] = 201 THEN Booked(v)' ELSE NotBooked(v)'
      BY <2>2, BookedStays DEF Outcome, Answered
    <3>2. resp[v] = 204 =>
            /\ req[v].op = "destroy_room" => RoomGone(req[v].id)'
            /\ req[v].op = "destroy_hotel" => HotelGone(req[v].id)'
      BY <2>2, GoneForGood, RequestIdType DEF Outcome, Answered
    <3> QED
      BY <2>1, <2>2, <3>1, <3>2 DEF Outcome, Answered, Remembers
  <2> QED
    BY <1>1, <2>2 DEF Answered
<1> QED
  BY <1>2, <1>3, <1>4, <1>5 DEF Outcome
-----------------------------------------------------------------------------
(* What a request knows after a step of its own. *)

\* The step of w changes nothing committed and nothing of another request.
Alone(w) ==
    /\ UNCHANGED db
    /\ \A v \in Worker : v # w =>
         UNCHANGED <<pc[v], req[v], rec[v], made[v], resp[v], view[v]>>

\* A request that was turned down before anything was stored.
LEMMA TurnedDown ==
    ASSUME IInv', NEW w \in Worker, pc'[w] = "answered", made'[w] = NoRow,
           resp'[w] \notin {200, 201, 204}
    PROVE  Outcome(w)'
<1>1. NotBooked(w)'
  BY BlankAssumption DEF NotBooked, IInv, ServerInv, TypeOK, StoreTypeOK, Database
<1> QED
  BY <1>1 DEF Outcome, Fresh, Found, Written, Committed, Answered

\* A before_action answers.
LEMMA RefuseOutcome ==
    ASSUME IInv, IInv', NEW w \in Worker, Outcome(w), NEW r, NEW s,
           s \notin {200, 201, 204}, Refuse(w, r, s)
    PROVE  Outcome(w)' /\ Alone(w)
<1>1. pc[w] = "idle" /\ pc'[w] = "answered" /\ made' = made /\ resp'[w] = s
  BY DEF Refuse, IInv, ServerInv, TypeOK
<1>2. Outcome(w)'
  BY <1>1, TurnedDown DEF Outcome, Fresh
<1>3. Alone(w)
  BY DEF Alone, Refuse, storeVars, IInv, ServerInv, TypeOK
<1> QED
  BY <1>2, <1>3

\* The before_actions load the row that was asked for.
LEMMA LoadOutcome ==
    ASSUME IInv, IInv', NEW w \in Worker, Outcome(w), NEW r, NEW row,
           r.op = "book" =>
               row \in db.rooms /\ row.id = r.room /\ r.as \in Ids(db.users),
           r.op = "destroy_room" => row \in db.rooms /\ row.id = r.id,
           r.op = "destroy_hotel" => row \in db.hotels /\ row.id = r.id,
           r.op = "login" => row \in db.users,
           Load(w, r, row)
    PROVE  Outcome(w)' /\ Alone(w)
<1>1. /\ pc[w] = "idle" /\ pc'[w] = "check" /\ made' = made /\ db' = db
      /\ req'[w] = r /\ rec'[w] = row
  BY DEF Load, storeVars, IInv, ServerInv, TypeOK
<1>2. Found(w)'
  BY <1>1 DEF Found, IInv, ServerInv, Sound, PrimaryKeys, KeysUnique
<1>3. Outcome(w)'
  BY <1>1, <1>2 DEF Outcome, Fresh, Written, Committed, Answered
<1>4. Alone(w)
  BY DEF Alone, Load, storeVars, IInv, ServerInv, TypeOK
<1> QED
  BY <1>3, <1>4

\* Parameters or validations turn the request down.
LEMMA RejectOutcome ==
    ASSUME IInv, IInv', NEW w \in Worker, Outcome(w), pc[w] = "check",
           NEW s, s \notin {200, 201, 204}, Reject(w, s)
    PROVE  Outcome(w)' /\ Alone(w)
<1>1. pc'[w] = "answered" /\ made' = made /\ resp'[w] = s
  BY DEF Reject, IInv, ServerInv, TypeOK
<1>2. Outcome(w)'
  BY <1>1, TurnedDown DEF Outcome, Fresh
<1>3. Alone(w)
  BY DEF Alone, Reject, storeVars, IInv, ServerInv, TypeOK
<1> QED
  BY <1>2, <1>3

\* The transaction starts.
LEMMA ProceedOutcome ==
    ASSUME IInv, IInv', NEW w \in Worker, Outcome(w), pc[w] = "check",
           req[w].op # "login",
           req[w].op = "create_room" => req[w].hotel \in Ids(db.hotels), Proceed(w)
    PROVE  Outcome(w)' /\ Alone(w)
<1>1. /\ pc'[w] = "write" /\ db' = db /\ view'[w] = db /\ UNCHANGED <<req, rec, made>>
  BY DEF Proceed, BeginRead, IInv, ServerInv, TypeOK, StoreTypeOK
<1>2. Found(w)'
  BY <1>1, FoundStays, RemembersUnchanged DEF Outcome
<1>3. Outcome(w)'
  BY <1>1, <1>2 DEF Outcome, Fresh, Written, Committed, Answered
<1>4. Alone(w)
  BY DEF Alone, Proceed, BeginRead, IInv, ServerInv, TypeOK, StoreTypeOK
<1> QED
  BY <1>3, <1>4

\* An update that finds nothing to change.
LEMMA SkipWriteOutcome ==
    ASSUME IInv, IInv', NEW w \in Worker, Outcome(w), pc[w] = "check",
           req[w].op \in {"update_hotel", "update_room"}, SkipWrite(w)
    PROVE  Outcome(w)' /\ Alone(w)
<1>1. pc'[w] = "render" /\ db' = db /\ UNCHANGED <<req, rec>>
  BY DEF SkipWrite, storeVars, IInv, ServerInv, TypeOK
<1>2. Outcome(w)'
  BY <1>1 DEF Outcome, Fresh, Found, Written, Committed, Answered
<1>3. Alone(w)
  BY DEF Alone, SkipWrite, storeVars, IInv, ServerInv, TypeOK
<1> QED
  BY <1>2, <1>3

\* The write statements run in the snapshot, which nothing has superseded, or fail.
LEMMA ExecuteOutcome ==
    ASSUME IInv, IInv', NEW w \in Worker, Outcome(w), pc[w] = "write",
           NEW d, NEW row, Wrote(view[w], req[w], rec[w], row, d), Execute(w, d, row)
    PROVE  Outcome(w)' /\ Alone(w)
<1>1. CASE Fail(w)
  <2>1. pc'[w] = "answered" /\ made' = made /\ resp'[w] = 500
    BY <1>1 DEF Fail, IInv, ServerInv, TypeOK
  <2>2. Outcome(w)'
    BY <2>1, TurnedDown DEF Outcome, Fresh
  <2>3. Alone(w)
    BY <1>1 DEF Alone, Fail, Rollback, IInv, ServerInv, TypeOK, StoreTypeOK
  <2> QED
    BY <2>2, <2>3
<1>2. CASE CanWrite(w) /\ ~ Fail(w)
  <2>0. /\ Write(w, d) /\ pc' = [pc EXCEPT ![w] = "commit"]
        /\ made' = [made EXCEPT ![w] = row] /\ UNCHANGED <<req, rec, resp>>
    BY <1>2 DEF Execute
  <2>1. /\ pc'[w] = "commit" /\ db' = db /\ view[w] = db /\ view'[w] = d
        /\ made'[w] = row /\ UNCHANGED <<req, rec>>
    BY <1>2, <2>0 DEF CanWrite, Write, Snapshots, IInv, ServerInv, TypeOK, StoreTypeOK
  <2>2. Found(w)'
    BY <2>1, FoundStays, RemembersUnchanged DEF Outcome, Found
  <2>3. Written(w)'
    BY <2>1 DEF Written
  <2>4. Outcome(w)'
    BY <2>1, <2>2, <2>3 DEF Outcome, Fresh, Committed, Answered
  <2>5. Alone(w)
    BY <2>0 DEF Alone, Write, IInv, ServerInv, TypeOK, StoreTypeOK
  <2> QED
    BY <2>4, <2>5
<1> QED
  BY <1>1, <1>2 DEF Execute

\* The thread returns to the pool, or its process dies.
LEMMA ForgetOutcome ==
    ASSUME IInv, NEW w \in Worker, Finish(w) \/ Crash(w)
    PROVE  Outcome(w)' /\ Alone(w)
<1>1. pc'[w] = "idle" /\ made'[w] = NoRow
  BY DEF Finish, Crash, Forget, IInv, ServerInv, TypeOK
<1>2. Outcome(w)'
  BY <1>1 DEF Outcome, Fresh, Found, Written, Committed, Answered
<1>3. Alone(w)
  BY DEF Alone, Finish, Crash, Forget, Rollback, storeVars, IInv, ServerInv, TypeOK, StoreTypeOK
<1> QED
  BY <1>2, <1>3

\* The rows the writer inserts, and the values it updates to, are of their tables.
LEMMA WrittenRows ==
    ASSUME IInv, NEW w \in Worker, Outcome(w), pc[w] = "commit"
    PROVE  /\ req[w].op = "book" =>
                 made[w] \in ReservationRow /\ made[w].id = db.seq.reservations + 1
           /\ req[w].op = "create_hotel" =>
                 made[w] \in HotelRow /\ made[w].id = db.seq.hotels + 1
           /\ req[w].op = "update_hotel" => req[w].name \in Name
           /\ req[w].op = "create_room" =>
                 made[w] \in RoomRow /\ made[w].id = db.seq.rooms + 1
           /\ req[w].op = "update_room" => req[w].number \in Number
           /\ req[w].op = "sign_up" =>
                 made[w] \in UserRow /\ made[w].id = db.seq.users + 1
<1>1. /\ req[w] \in Offered
      /\ db.seq.reservations \in Nat /\ db.seq.hotels \in Nat
      /\ db.seq.rooms \in Nat /\ db.seq.users \in Nat
  BY DEF IInv, ServerInv, Loaded, TypeOK, StoreTypeOK, Database
<1>2. CASE req[w].op = "book"
  <2>1. /\ req[w] \in BookRequest /\ req[w].as \in Id /\ rec[w] \in RoomRow
        /\ made[w] = Booking(db, req[w], rec[w])
    BY <1>1, <1>2, BookRequestType DEF IInv, ServerInv, Loaded, Outcome, Written, Wrote
  <2>2. Day(req[w].check_in) \in Nat /\ Day(req[w].check_out) \in Nat
    BY <2>1, DayType DEF BookRequest
  <2> QED
    BY <1>1, <1>2, <2>1, <2>2 DEF Booking, ReservationRow, RoomRow, Id
<1>3. CASE req[w].op = "create_hotel"
  BY <1>1, <1>3, HotelRequestType DEF Outcome, Written, Wrote, HotelRow, Id
<1>4. CASE req[w].op = "create_room"
  BY <1>1, <1>4, RoomRequestType DEF Outcome, Written, Wrote, RoomRow, Id
<1>5. CASE req[w].op = "sign_up"
  BY <1>1, <1>5, SignUpRequestType
  DEF Outcome, Written, Wrote, Account, SignUpRequest, UserRow, Id
<1> QED
  BY <1>1, <1>2, <1>3, <1>4, <1>5, HotelRequestType, RoomRequestType

\* The requests that reach COMMIT.
LEMMA WriterOps ==
    ASSUME IInv, NEW w \in Worker, Outcome(w), pc[w] = "commit"
    PROVE  req[w].op \in {"book", "create_hotel", "update_hotel", "destroy_hotel",
                          "create_room", "update_room", "destroy_room", "sign_up"}
<1>1. req[w] \in Offered /\ req[w].op # "login"
  BY DEF IInv, ServerInv, Loaded, Outcome, Found
<1> QED
  BY <1>1, OfferedAssumption
  DEF BookRequest, HotelRequest, RoomRequest, SignUpRequest, LoginRequest

\* What is about to be committed takes nothing back.
LEMMA WriterRemembers ==
    ASSUME IInv, NEW w \in Worker, Outcome(w), pc[w] = "commit"
    PROVE  Remembers(db, view[w])
<1>1. db \in Database /\ Wrote(db, req[w], rec[w], made[w], view[w])
  BY DEF IInv, ServerInv, TypeOK, StoreTypeOK, Outcome, Written
<1>2. CASE req[w].op = "book"
  BY <1>1, <1>2, WrittenRows, InsertReservationRemembers DEF Wrote
<1>3. CASE req[w].op \in {"create_hotel", "update_hotel", "destroy_hotel"}
  BY <1>1, <1>3, WrittenRows, InsertHotelRemembers, UpdateHotelRemembers,
     DestroyHotelRemembers
  DEF Wrote
<1>4. CASE req[w].op \in {"create_room", "update_room", "destroy_room"}
  BY <1>1, <1>4, WrittenRows, InsertRoomRemembers, UpdateRoomRemembers,
     DestroyRoomsRemembers
  DEF Wrote
<1>5. CASE req[w].op = "sign_up"
  BY <1>1, <1>5, WrittenRows, InsertUserRemembers DEF Wrote
<1> QED
  BY <1>2, <1>3, <1>4, <1>5, WriterOps

\* COMMIT: what the statements wrote is what is stored.
LEMMA CommitOutcome ==
    ASSUME IInv, IInv', NEW w \in Worker, Outcome(w), CommitWrite(w)
    PROVE  /\ Remembers(db, db')
           /\ Outcome(w)'
           /\ \A v \in Worker : v # w =>
                /\ pc[v] # "commit"
                /\ UNCHANGED <<pc[v], req[v], rec[v], made[v], resp[v], view[v]>>
<1>1. /\ pc[w] = "commit" /\ db' = view[w] /\ UNCHANGED <<req, rec, made>>
      /\ pc'[w] = "render" \/ (Pictured(w) /\ pc'[w] = "answered" /\ resp'[w] = 500)
      /\ \A v \in Worker : v # w =>
           /\ pc[v] # "commit" /\ pc'[v] = pc[v] /\ view'[v] = view[v]
           /\ resp'[v] = resp[v]
  BY DEF CommitWrite, Commit, IInv, ServerInv, TypeOK, StoreTypeOK, LockHeld
<1>2. Remembers(db, db')
  BY <1>1, WriterRemembers
<1>3. Found(w)'
  BY <1>1, <1>2, FoundStays DEF Outcome, Found
<1>4. /\ db \in Database /\ req[w] \in Offered
      /\ Wrote(db, req[w], rec[w], made[w], db')
  BY <1>1 DEF IInv, ServerInv, TypeOK, StoreTypeOK, Loaded, Outcome, Written
<1>5. ASSUME req[w].op = "book" PROVE Booked(w)'
  <2>1. made[w] \in ReservationRow /\ made[w].id = db.seq.reservations + 1
    BY <1>1, <1>5, WrittenRows
  <2>2. /\ db'.reservations = db.reservations \cup {made[w]}
        /\ db'.seq.reservations = made[w].id
    BY <1>4, <1>5, <2>1, InsertReservationTables DEF Wrote
  <2>3. made[w].room = req[w].room
    BY <1>1, <1>4, <1>5 DEF Wrote, Booking, Outcome, Found
  <2> QED
    BY <1>1, <2>1, <2>2, <2>3 DEF Booked, ReservationRow, Id
<1>6. ASSUME req[w].op = "sign_up" PROVE made'[w] \in db'.users
  BY <1>1, <1>4, <1>6, WrittenRows, InsertUserTables DEF Wrote
<1>7. ASSUME req[w].op = "destroy_room" PROVE RoomGone(req[w].id)'
  <2>1. rec[w].id = req[w].id /\ req'[w].id <= db'.seq.rooms
    BY <1>1, <1>3, <1>7 DEF Outcome, Found, Pictured
  <2>2. db'.rooms = {r \in db.rooms : r.id \notin {req[w].id}}
    BY <1>4, <1>7, <2>1, DestroyRoomsTables DEF Wrote
  <2> QED
    BY <1>1, <2>1, <2>2 DEF RoomGone, Ids
<1>8. ASSUME req[w].op = "destroy_hotel" PROVE HotelGone(req[w].id)'
  <2>1. rec[w].id = req[w].id /\ req'[w].id <= db'.seq.hotels
    BY <1>1, <1>3, <1>8 DEF Outcome, Found, Pictured
  <2>2. db'.hotels = {h \in db.hotels : h.id # req[w].id}
    BY <1>4, <1>8, <2>1, DestroyHotelTables DEF Wrote
  <2> QED
    BY <1>1, <2>1, <2>2 DEF HotelGone, Ids
<1>9. Committed(w)'
  BY <1>1, <1>5, <1>6, <1>7, <1>8 DEF Committed
<1>10. Answered(w)'
  <2>1. CASE pc'[w] = "render"
    BY <2>1 DEF Answered
  <2>2. CASE pc'[w] = "answered"
    <3>1. /\ Pictured(w)' /\ resp'[w] = 500
          /\ req'[w].op # "book"
      BY <1>1, <2>2 DEF Pictured
    <3> QED
      BY <3>1 DEF Answered
  <2> QED
    BY <1>1, <2>1, <2>2
<1> QED
  BY <1>1, <1>2, <1>3, <1>9, <1>10 DEF Outcome, Fresh, Written
-----------------------------------------------------------------------------
(* The controllers. *)

\* Rendering changes nothing but the status.
LEMMA RenderAlone ==
    ASSUME IInv, NEW w \in Worker, NEW s, Render(w, s)
    PROVE  /\ Alone(w)
           /\ pc'[w] = "answered" /\ resp'[w] = s
           /\ UNCHANGED <<req, rec, made, db>>
BY DEF Alone, Render, storeVars, IInv, ServerInv, TypeOK

\* A booking is answered 201 unless its hotel is gone, and with the hotel the room and
\* the stay.
LEMMA BookRenderOutcome ==
    ASSUME IInv, IInv', NEW w \in Worker, Outcome(w), BookRender(w)
    PROVE  Outcome(w)' /\ Alone(w)
<1> DEFINE s == IF rec[w].hotel \in Ids(db.hotels) THEN 201 ELSE 500
<1>1. pc[w] = "render" /\ req[w].op = "book" /\ Render(w, s)
  BY DEF BookRender
<1>2. Booked(w)
  BY <1>1 DEF Outcome, Committed
<1>3. ASSUME s # 201 PROVE NotBooked(w)
  <2>1. \A r \in db.rooms : r.id # req[w].room
    BY <1>1, <1>3 DEF Outcome, Found, IInv, ServerInv, Sound, ForeignKeysHold
  <2>2. made[w] \notin db.reservations
    BY <1>2, <2>1 DEF Booked, IInv, ServerInv, Sound, ForeignKeysHold, Ids
  <2> QED
    BY <1>2, <2>2 DEF Booked, NotBooked
<1> HIDE DEF s
<1>4. Alone(w) /\ pc'[w] = "answered" /\ resp'[w] = s /\ UNCHANGED <<req, rec, made, db>>
  BY <1>1, RenderAlone
<1>5. (Booked(w) => Booked(w)') /\ (NotBooked(w) => NotBooked(w)')
  BY <1>4 DEF Booked, NotBooked, RoomGone
<1>6. s # 204
  BY DEF s
<1> QED
  BY <1>1, <1>2, <1>3, <1>4, <1>5, <1>6 
  DEF Outcome, Fresh, Found, Written, Committed, Answered

\* Every step of a booking.
LEMMA BookOutcome ==
    ASSUME IInv, IInv', NEW w \in Worker, Outcome(w), BookStep(w)
    PROVE  Outcome(w)' /\ Alone(w)
<1>1. CASE BookCheck(w)
  BY <1>1, ProceedOutcome, RejectOutcome DEF BookCheck
<1>2. CASE BookWrite(w)
  <2> DEFINE new == Booking(view[w], req[w], rec[w])
             d   == InsertReservation(view[w], new)
  <2>1. pc[w] = "write" /\ req[w].op = "book" /\ Execute(w, d, new)
    BY <1>2 DEF BookWrite
  <2>2. Wrote(view[w], req[w], rec[w], new, d)
    BY <2>1 DEF Wrote
  <2> HIDE DEF new, d
  <2> QED
    BY <2>1, <2>2, ExecuteOutcome
<1> QED
  BY <1>1, <1>2, BookRenderOutcome DEF BookStep

\* Every step of a hotel request.
LEMMA HotelOutcome ==
    ASSUME IInv, IInv', NEW w \in Worker, Outcome(w), HotelStep(w)
    PROVE  Outcome(w)' /\ Alone(w)
<1>1. CASE HotelCreateCheck(w) \/ HotelUpdateCheck(w) \/ HotelDestroyCheck(w)
  BY <1>1, ProceedOutcome, RejectOutcome, SkipWriteOutcome
  DEF HotelCreateCheck, HotelUpdateCheck, HotelDestroyCheck
<1>2. CASE HotelCreateWrite(w)
  <2> DEFINE new == [id |-> view[w].seq.hotels + 1, name |-> req[w].name]
             d   == InsertHotel(view[w], new)
  <2>1. pc[w] = "write" /\ req[w].op = "create_hotel" /\ Execute(w, d, new)
    BY <1>2 DEF HotelCreateWrite
  <2>2. Wrote(view[w], req[w], rec[w], new, d)
    BY <2>1 DEF Wrote
  <2> HIDE DEF new, d
  <2> QED
    BY <2>1, <2>2, ExecuteOutcome
<1>3. CASE HotelUpdateWrite(w)
  <2> DEFINE d   == UpdateHotel(view[w], rec[w].id, req[w].name)
             row == IF rec[w].id \in Ids(view[w].hotels)
                    THEN [rec[w] EXCEPT !.name = req[w].name] ELSE NoRow
  <2>1. pc[w] = "write" /\ req[w].op = "update_hotel" /\ Execute(w, d, row)
    BY <1>3 DEF HotelUpdateWrite
  <2>2. Wrote(view[w], req[w], rec[w], row, d)
    BY <2>1 DEF Wrote
  <2> HIDE DEF row, d
  <2> QED
    BY <2>1, <2>2, ExecuteOutcome
<1>4. CASE HotelDestroyWrite(w)
  <2>1. Wrote(view[w], req[w], rec[w], NoRow, DestroyHotel(view[w], rec[w].id))
    BY <1>4 DEF HotelDestroyWrite, Wrote
  <2> QED
    BY <1>4, <2>1, ExecuteOutcome DEF HotelDestroyWrite
<1>5. CASE HotelRender(w)
  <2>1. /\ pc[w] = "render" /\ req[w].op \in {"create_hotel", "update_hotel", "destroy_hotel"}
        /\ Render(w, HotelStatus[req[w].op])
    BY <1>5 DEF HotelRender, HotelStatus
  <2>2. /\ Alone(w) /\ pc'[w] = "answered" /\ UNCHANGED <<req, rec, made, db>>
        /\ ~ (resp'[w] >= 400)
    BY <2>1, RenderAlone DEF HotelStatus
  <2> QED
    BY <2>1, <2>2 DEF Outcome, Fresh, Found, Written, Committed, Answered, HotelGone
<1> QED
  BY <1>1, <1>2, <1>3, <1>4, <1>5 DEF HotelStep

\* Every step of a room request.
LEMMA RoomOutcome ==
    ASSUME IInv, IInv', NEW w \in Worker, Outcome(w), RoomStep(w)
    PROVE  Outcome(w)' /\ Alone(w)
<1>1. CASE RoomCreateCheck(w) \/ RoomUpdateCheck(w) \/ RoomDestroyCheck(w)
  BY <1>1, ProceedOutcome, RejectOutcome, SkipWriteOutcome
  DEF RoomCreateCheck, RoomUpdateCheck, RoomDestroyCheck, RoomValid
<1>2. CASE RoomCreateWrite(w)
  <2> DEFINE new == [id     |-> view[w].seq.rooms + 1,
                     number |-> req[w].number,
                     hotel  |-> req[w].hotel]
             d   == InsertRoom(view[w], new)
  <2>1. pc[w] = "write" /\ req[w].op = "create_room" /\ Execute(w, d, new)
    BY <1>2 DEF RoomCreateWrite
  <2>2. Wrote(view[w], req[w], rec[w], new, d)
    BY <2>1 DEF Wrote
  <2> HIDE DEF new, d
  <2> QED
    BY <2>1, <2>2, ExecuteOutcome
<1>3. CASE RoomUpdateWrite(w)
  <2> DEFINE d   == UpdateRoom(view[w], rec[w].id, req[w].number)
             row == IF rec[w].id \in Ids(view[w].rooms)
                    THEN [rec[w] EXCEPT !.number = req[w].number] ELSE NoRow
  <2>1. pc[w] = "write" /\ req[w].op = "update_room" /\ Execute(w, d, row)
    BY <1>3 DEF RoomUpdateWrite
  <2>2. Wrote(view[w], req[w], rec[w], row, d)
    BY <2>1 DEF Wrote
  <2> HIDE DEF row, d
  <2> QED
    BY <2>1, <2>2, ExecuteOutcome
<1>4. CASE RoomDestroyWrite(w)
  <2>1. Wrote(view[w], req[w], rec[w], NoRow, DestroyRooms(view[w], {rec[w].id}))
    BY <1>4 DEF RoomDestroyWrite, Wrote
  <2> QED
    BY <1>4, <2>1, ExecuteOutcome DEF RoomDestroyWrite
<1>5. CASE RoomRender(w)
  <2>1. /\ pc[w] = "render" /\ req[w].op \in {"create_room", "update_room", "destroy_room"}
        /\ Render(w, RoomStatus[req[w].op])
    BY <1>5 DEF RoomRender, RoomStatus
  <2>2. /\ Alone(w) /\ pc'[w] = "answered" /\ UNCHANGED <<req, rec, made, db>>
        /\ ~ (resp'[w] >= 400)
    BY <2>1, RenderAlone DEF RoomStatus
  <2> QED
    BY <2>1, <2>2 DEF Outcome, Fresh, Found, Written, Committed, Answered, RoomGone
<1> QED
  BY <1>1, <1>2, <1>3, <1>4, <1>5 DEF RoomStep

\* Every step of a sign-up or a login.
LEMMA AccountOutcome ==
    ASSUME IInv, IInv', NEW w \in Worker, Outcome(w), AccountStep(w)
    PROVE  Outcome(w)' /\ Alone(w)
<1>1. CASE SignUpCheck(w)
  BY <1>1, ProceedOutcome, RejectOutcome DEF SignUpCheck
<1>2. CASE SignUpWrite(w)
  <2> DEFINE new == Account(view[w], req[w])
             d   == InsertUser(view[w], new)
  <2>1. pc[w] = "write" /\ req[w].op = "sign_up" /\ Execute(w, d, new)
    BY <1>2 DEF SignUpWrite
  <2>2. Wrote(view[w], req[w], rec[w], new, d)
    BY <2>1 DEF Wrote
  <2> HIDE DEF new, d
  <2> QED
    BY <2>1, <2>2, ExecuteOutcome
<1>3. CASE SignUpRender(w)
  <2>1. /\ pc[w] = "render" /\ req[w].op = "sign_up" /\ Alone(w)
        /\ pc'[w] = "answered" /\ resp'[w] = 201 /\ UNCHANGED <<req, rec, made, db>>
    BY <1>3, RenderAlone DEF SignUpRender
  <2> QED
    BY <2>1 DEF Outcome, Fresh, Found, Written, Committed, Answered
<1>4. CASE LoginRender(w)
  <2>1. /\ pc[w] = "check" /\ req[w].op = "login" /\ Alone(w)
        /\ pc'[w] = "answered" /\ resp'[w] = 200 /\ UNCHANGED <<req, rec, made, db>>
    BY <1>4, RenderAlone DEF LoginRender
  <2> QED
    BY <2>1 DEF Outcome, Fresh, Found, Written, Committed, Answered
<1> QED
  BY <1>1, <1>2, <1>3, <1>4 DEF AccountStep

\* A request passes its before_actions, or is turned down by one.
LEMMA AcceptOutcome ==
    ASSUME IInv, IInv', NEW w \in Worker, Outcome(w), Accept(w)
    PROVE  Outcome(w)' /\ Alone(w)
<1>1. CASE BookAccept(w)
  <2> PICK r \in Offered :
        /\ r.op = "book"
        /\ \/ BookFilters(r) # Pass /\ Refuse(w, r, BookFilters(r))
           \/ /\ BookFilters(r) = Pass
              /\ \E room \in db.rooms : room.id = r.room /\ Load(w, r, room)
    BY <1>1 DEF BookAccept
  <2>1. BookFilters(r) # Pass => BookFilters(r) \notin {200, 201, 204}
    BY DEF BookFilters, AuthStatus, ParseDates, ParseError, Pass
  <2>2. BookFilters(r) = Pass => r.as \in Ids(db.users)
    BY DEF BookFilters, AuthStatus, Pass
  <2> QED
    BY <2>1, <2>2, RefuseOutcome, LoadOutcome
<1>2. CASE HotelAccept(w)
  <2> PICK r \in Offered :
        /\ r.op \in {"create_hotel", "update_hotel", "destroy_hotel"}
        /\ \/ HotelFilters(r) # Pass /\ Refuse(w, r, HotelFilters(r))
           \/ r.op = "create_hotel" /\ Load(w, r, NoRow)
           \/ \E hotel \in db.hotels : hotel.id = r.id /\ Load(w, r, hotel)
    BY <1>2 DEF HotelAccept
  <2>1. HotelFilters(r) # Pass => HotelFilters(r) \notin {200, 201, 204}
    BY DEF HotelFilters, AdminStatus, AuthStatus, Pass
  <2> QED
    BY <2>1, RefuseOutcome, LoadOutcome
<1>3. CASE RoomAccept(w)
  <2> PICK r \in Offered :
        /\ r.op \in {"create_room", "update_room", "destroy_room"}
        /\ \/ RoomFilters(r) # Pass /\ Refuse(w, r, RoomFilters(r))
           \/ r.op = "create_room" /\ Load(w, r, NoRow)
           \/ \E room \in db.rooms : room.id = r.id /\ Load(w, r, room)
    BY <1>3 DEF RoomAccept
  <2>1. RoomFilters(r) # Pass => RoomFilters(r) \notin {200, 201, 204}
    BY DEF RoomFilters, AdminStatus, AuthStatus, Pass
  <2> QED
    BY <2>1, RefuseOutcome, LoadOutcome
<1>4. CASE SignUpAccept(w)
  BY <1>4, RefuseOutcome, LoadOutcome DEF SignUpAccept
<1>5. CASE LoginAccept(w)
  BY <1>5, RefuseOutcome, LoadOutcome DEF LoginAccept
<1> QED
  BY <1>1, <1>2, <1>3, <1>4, <1>5 DEF Accept
-----------------------------------------------------------------------------
(* The system. *)

\* Before any request nothing is known.
LEMMA InitOInv == Init => OInv
<1> SUFFICES ASSUME Init, NEW w \in Worker PROVE Outcome(w)
  BY InitIInv DEF OInv
<1>1. pc[w] = "idle" /\ made[w] = NoRow
  BY DEF Init, HandlerInit
<1> QED
  BY <1>1 DEF Outcome, Fresh, Found, Written, Committed, Answered

\* A step of the system is a commit, or it changes nothing committed.
LEMMA StepKinds ==
    ASSUME OInv, IInv', NEW w \in Worker, Accept(w) \/ Serve(w) \/ Die(w)
    PROVE  CommitWrite(w) \/ (Outcome(w)' /\ Alone(w))
<1>1. IInv /\ Outcome(w)
  BY DEF OInv
<1>2. CASE Accept(w)
  BY <1>1, <1>2, AcceptOutcome
<1>3. CASE Serve(w)
  BY <1>1, <1>3, BookOutcome, HotelOutcome, RoomOutcome, AccountOutcome, ForgetOutcome
  DEF Serve
<1>4. CASE Die(w)
  BY <1>1, <1>4, ForgetOutcome DEF Die
<1> QED
  BY <1>2, <1>3, <1>4

\* No step leaves the invariant, and none takes back what was committed.
LEMMA NextOInv == OInv /\ [Next]_allVars => OInv' /\ Remembers(db, db')
<1> SUFFICES ASSUME OInv, [Next]_allVars PROVE OInv' /\ Remembers(db, db')
  OBVIOUS
<1>0. IInv /\ IInv'
  BY NextIInv DEF OInv
<1>1. ASSUME NEW w \in Worker, Accept(w) \/ Serve(w) \/ Die(w)
      PROVE  OInv' /\ Remembers(db, db')
  <2>1. CASE CommitWrite(w)
    <3>1. Remembers(db, db') /\ Outcome(w)'
      BY <1>0, <2>1, CommitOutcome DEF OInv
    <3>2. ASSUME NEW v \in Worker, v # w PROVE Outcome(v)'
      <4>1. pc[v] # "commit" /\ UNCHANGED <<pc[v], req[v], rec[v], made[v], resp[v], view[v]>>
        BY <1>0, <2>1, <3>2, CommitOutcome DEF OInv
      <4> QED
        BY <1>0, <3>1, <4>1, Bystander DEF OInv
    <3> QED
      BY <1>0, <3>1, <3>2 DEF OInv
  <2>2. CASE Outcome(w)' /\ Alone(w)
    <3>1. Remembers(db, db')
      BY <1>0, <2>2, RemembersUnchanged DEF Alone
    <3>2. ASSUME NEW v \in Worker, v # w PROVE Outcome(v)'
      BY <1>0, <2>2, <3>1, <3>2, Bystander DEF OInv, Alone
    <3> QED
      BY <1>0, <2>2, <3>1, <3>2 DEF OInv
  <2> QED
    BY <1>0, <1>1, <2>1, <2>2, StepKinds
<1>2. ASSUME UNCHANGED vars PROVE OInv' /\ Remembers(db, db')
  <2>1. UNCHANGED <<db, view, pc, req, rec, made, resp>>
    BY <1>2 DEF vars, storeVars, handlerVars
  <2>2. Remembers(db, db')
    BY <1>0, <2>1, RemembersUnchanged
  <2>3. ASSUME NEW v \in Worker PROVE Outcome(v)'
    BY <1>0, <2>1, <2>2, Bystander DEF OInv
  <2> QED
    BY <1>0, <2>2, <2>3 DEF OInv
<1> QED
  BY <1>1, <1>2 DEF Next, Midnight, allVars

\* What requests know of the database holds throughout, for any number of threads,
\* rows, requests and days.
THEOREM OutcomeInvariance == Spec => []OInv
BY InitOInv, NextOInv, PTL DEF Spec

\* No step gives an id twice, takes an account back, moves a room to another hotel, or
\* removes a stay whose room is left.
THEOREM NeverForgets == Spec => NothingForgotten
<1>1. OInv /\ [Next]_allVars => [Remembers(db, db')]_db
  BY NextOInv
<1> QED
  BY <1>1, OutcomeInvariance, PTL DEF Spec, NothingForgotten

\* A guest told 201 has the stay as long as the room is there.
THEOREM BookedStaysStored == Spec => []BookedMeansStored
<1>1. OInv => BookedMeansStored
  BY DEF OInv, Outcome, Answered, Booked, RoomGone, BookedMeansStored
<1> QED
  BY <1>1, OutcomeInvariance, PTL

\* A stay is no other row, and the blank row is none.
LEMMA RowsApart ==
    ASSUME NEW row \in ReservationRow \cup {NoRow}
    PROVE  row \notin UserRow \cup HotelRow \cup RoomRow
<1>1. CASE row = NoRow
  BY <1>1, BlankAssumption
<1>2. CASE row \in ReservationRow
  <2>1. "check_in" \in DOMAIN row
    BY <1>2 DEF ReservationRow
  <2>2. /\ \A r \in UserRow : "check_in" \notin DOMAIN r
        /\ \A r \in HotelRow : "check_in" \notin DOMAIN r
        /\ \A r \in RoomRow : "check_in" \notin DOMAIN r
    BY DEF UserRow, HotelRow, RoomRow
  <2> QED
    BY <2>1, <2>2
<1> QED
  BY <1>1, <1>2

\* An error leaves nothing behind, not even when rendering failed, unless it was the upload
\* of an image, which follows the commit.
THEOREM FailedLeavesNothing == Spec => []FailedMeansNotStored
<1>1. ASSUME OInv, NEW w \in Worker, pc[w] = "answered", resp[w] >= 400,
             ~ (resp[w] = 500 /\ Pictured(w))
      PROVE  made[w] \notin db.reservations \cup db.users \cup db.hotels \cup db.rooms
  <2>1. /\ db.reservations \subseteq ReservationRow /\ db.users \subseteq UserRow
        /\ db.hotels \subseteq HotelRow /\ db.rooms \subseteq RoomRow
    BY <1>1 DEF OInv, IInv, ServerInv, TypeOK, StoreTypeOK, Database
  <2>2. Answered(w)
    BY <1>1 DEF OInv, Outcome
  <2>3. CASE req[w].op = "book"
    <3>1. resp[w] # 201
      BY <1>1
    <3>2. NotBooked(w)
      BY <1>1, <2>2, <2>3, <3>1 DEF Answered
    <3>3. made[w] \in ReservationRow \cup {NoRow} /\ made[w] \notin db.reservations
      BY <3>2 DEF NotBooked
    <3> QED
      BY <2>1, <3>3, RowsApart
  <2>4. CASE req[w].op # "book"
    <3>1. made[w] = NoRow
      BY <1>1, <2>2, <2>4 DEF Answered
    <3> QED
      BY <2>1, <3>1, BlankAssumption
  <2> QED
    BY <2>3, <2>4
<1>2. OInv => FailedMeansNotStored
  BY <1>1 DEF FailedMeansNotStored
<1> QED
  BY <1>2, OutcomeInvariance, PTL

\* The account a token names is there.
THEOREM TokensStayGood == Spec => []TokenNamesAccount
<1>1. OInv => TokenNamesAccount
  BY DEF OInv, Outcome, Answered, TokenNamesAccount
<1> QED
  BY <1>1, OutcomeInvariance, PTL

\* Statements that refer to rows that are there, and cascades that take along what refers
\* to theirs, keep the foreign keys.
LEMMA StatementsFit ==
    ASSUME NEW d \in Database, ForeignKeysHold(d),
           NEW r, NEW row, NEW new, NEW e, Wrote(d, r, row, new, e),
           r.op \in {"book", "create_hotel", "update_hotel", "destroy_hotel",
                     "create_room", "update_room", "destroy_room", "sign_up"},
           r.op = "book" =>
               new \in ReservationRow /\ new.room \in Ids(d.rooms) /\ new.user \in Ids(d.users),
           r.op = "create_hotel" => new \in HotelRow,
           r.op = "update_hotel" => r.name \in Name,
           r.op = "create_room" => new \in RoomRow /\ new.hotel \in Ids(d.hotels),
           r.op = "update_room" => r.number \in Number,
           r.op = "sign_up" => new \in UserRow
    PROVE  ForeignKeysHold(e)
<1>1. CASE r.op = "book"
  <2>1. e = InsertReservation(d, new)
    BY <1>1 DEF Wrote
  <2> QED
    BY <1>1, <2>1, InsertReservationTables DEF ForeignKeysHold
<1>2. CASE r.op = "create_hotel"
  <2>1. e = InsertHotel(d, new)
    BY <1>2 DEF Wrote
  <2> QED
    BY <1>2, <2>1, InsertHotelTables DEF ForeignKeysHold, Ids
<1>3. CASE r.op = "update_hotel"
  <2> DEFINE f(h) == IF h.id = row.id THEN [h EXCEPT !.name = r.name] ELSE h
  <2>1. /\ e.hotels = {f(h) : h \in d.hotels} /\ e.rooms = d.rooms
        /\ e.reservations = d.reservations /\ e.users = d.users
    BY <1>3, UpdateHotelTables DEF Wrote
  <2>2. ASSUME NEW h \in d.hotels PROVE f(h).id = h.id
    BY DEF Database, HotelRow
  <2> HIDE DEF f
  <2>3. Ids(e.hotels) = Ids(d.hotels)
    BY <2>1, <2>2 DEF Ids
  <2> QED
    BY <2>1, <2>3 DEF ForeignKeysHold
<1>4. CASE r.op = "destroy_hotel"
  <2> DEFINE gone == Ids({q \in d.rooms : q.hotel = row.id})
  <2>1. e = DestroyHotel(d, row.id)
    BY <1>4 DEF Wrote
  <2>2. /\ e.rooms = {q \in d.rooms : q.id \notin gone}
        /\ e.reservations = {s \in d.reservations : s.room \notin gone}
        /\ e.hotels = {h \in d.hotels : h.id # row.id} /\ e.users = d.users
    BY <2>1, DestroyHotelRows, DestroyHotelTables
  <2>3. \A q \in d.rooms : q.hotel = row.id => q.id \in gone
    BY DEF Ids
  <2> HIDE DEF gone
  <2> QED
    BY <2>2, <2>3 DEF ForeignKeysHold, Ids
<1>5. CASE r.op = "create_room"
  <2>1. e = InsertRoom(d, new)
    BY <1>5 DEF Wrote
  <2> QED
    BY <1>5, <2>1, InsertRoomTables DEF ForeignKeysHold, Ids
<1>6. CASE r.op = "update_room"
  <2> DEFINE f(q) == IF q.id = row.id THEN [q EXCEPT !.number = r.number] ELSE q
  <2>1. /\ e.rooms = {f(q) : q \in d.rooms} /\ e.hotels = d.hotels
        /\ e.reservations = d.reservations /\ e.users = d.users
    BY <1>6, UpdateRoomTables DEF Wrote
  <2>2. ASSUME NEW q \in d.rooms PROVE f(q).id = q.id /\ f(q).hotel = q.hotel
    BY DEF Database, RoomRow
  <2> HIDE DEF f
  <2>3. Ids(e.rooms) = Ids(d.rooms)
    BY <2>1, <2>2 DEF Ids
  <2> QED
    BY <2>1, <2>2, <2>3 DEF ForeignKeysHold
<1>7. CASE r.op = "destroy_room"
  <2>1. e = DestroyRooms(d, {row.id})
    BY <1>7 DEF Wrote
  <2> QED
    BY <2>1, DestroyRoomsTables DEF ForeignKeysHold, Ids
<1>8. CASE r.op = "sign_up"
  <2>1. e = InsertUser(d, new)
    BY <1>8 DEF Wrote
  <2> QED
    BY <1>8, <2>1, InsertUserTables DEF ForeignKeysHold, Ids
<1> QED
  BY <1>1, <1>2, <1>3, <1>4, <1>5, <1>6, <1>7, <1>8

\* The write statements of a request, when it is at them: what they make of its snapshot
\* and the row they leave.
LEMMA WriteStatements ==
    ASSUME OInv, NEW w \in Worker, Serve(w), pc[w] = "write"
    PROVE  \E d, row : /\ Execute(w, d, row)
                       /\ Wrote(view[w], req[w], rec[w], row, d)
                       /\ req[w].op \in {"book", "create_hotel", "update_hotel", "destroy_hotel",
                                         "create_room", "update_room", "destroy_room", "sign_up"}
<1>1. CASE BookWrite(w)
  BY <1>1 DEF BookWrite, Wrote
<1>2. CASE HotelCreateWrite(w) \/ HotelUpdateWrite(w) \/ HotelDestroyWrite(w)
  BY <1>2 DEF HotelCreateWrite, HotelUpdateWrite, HotelDestroyWrite, Wrote
<1>3. CASE RoomCreateWrite(w) \/ RoomUpdateWrite(w) \/ RoomDestroyWrite(w)
  BY <1>3 DEF RoomCreateWrite, RoomUpdateWrite, RoomDestroyWrite, Wrote
<1>4. CASE SignUpWrite(w)
  BY <1>4 DEF SignUpWrite, Wrote
<1>5. \/ BookWrite(w) \/ SignUpWrite(w)
      \/ HotelCreateWrite(w) \/ HotelUpdateWrite(w) \/ HotelDestroyWrite(w)
      \/ RoomCreateWrite(w) \/ RoomUpdateWrite(w) \/ RoomDestroyWrite(w)
  BY DEF Serve, BookStep, BookCheck, BookRender, HotelStep, HotelCreateCheck, HotelUpdateCheck,
         HotelDestroyCheck, HotelRender, RoomStep, RoomCreateCheck, RoomUpdateCheck,
         RoomDestroyCheck, RoomRender, AccountStep, SignUpCheck, SignUpRender, LoginRender,
         CommitWrite, Finish
<1> QED
  BY <1>1, <1>2, <1>3, <1>4, <1>5

\* With the write lock free and the snapshot up to date, and the room of a booking there,
\* the statements run.
LEMMA WriteSucceeds ==
    ASSUME OInv, NEW w \in Worker, Serve(w), pc[w] = "write",
           writer = NoOne, w \notin stale,
           req[w].op = "book" => rec[w].id \in Ids(db.rooms)
    PROVE  pc'[w] = "commit"
<1>1. PICK d, row : /\ Execute(w, d, row)
                    /\ Wrote(view[w], req[w], rec[w], row, d)
                    /\ req[w].op \in {"book", "create_hotel", "update_hotel", "destroy_hotel",
                                      "create_room", "update_room", "destroy_room", "sign_up"}
  BY WriteStatements
<1>2. /\ IInv /\ Outcome(w) /\ view[w] = db /\ db \in Database /\ ForeignKeysHold(db)
      /\ req[w] \in Offered /\ pc \in [Worker -> Stage]
      /\ db.seq.hotels \in Nat /\ db.seq.rooms \in Nat /\ db.seq.users \in Nat
  BY DEF OInv, IInv, ServerInv, Sound, Snapshots, Loaded, TypeOK, StoreTypeOK, Database
<1>3. ASSUME req[w].op = "book"
      PROVE  row \in ReservationRow /\ row.room \in Ids(db.rooms) /\ row.user \in Ids(db.users)
  <2>1. row = Booking(db, req[w], rec[w])
    BY <1>1, <1>2, <1>3 DEF Wrote
  <2>2. row.room = rec[w].id /\ row.user = req[w].as
    BY <2>1 DEF Booking
  <2>3. row \in ReservationRow
    BY <1>2, <1>3, <2>1, BookingType DEF IInv
  <2>4. req[w].as \in Ids(db.users)
    BY <1>2, <1>3 DEF Outcome, Found
  <2> QED
    BY <1>3, <2>2, <2>3, <2>4
<1>4. req[w].op = "create_hotel" => row \in HotelRow
  BY <1>1, <1>2, HotelRequestType DEF Wrote, HotelRow, Id
<1>5. req[w].op = "create_room" => row \in RoomRow /\ row.hotel \in Ids(db.hotels)
  BY <1>1, <1>2, RoomRequestType DEF Wrote, RoomRow, Id, Outcome, Found
<1>6. req[w].op = "sign_up" => row \in UserRow
  BY <1>1, <1>2, SignUpRequestType DEF Wrote, Account, SignUpRequest, UserRow, Id
<1>7. /\ req[w].op = "update_hotel" => req[w].name \in Name
      /\ req[w].op = "update_room" => req[w].number \in Number
  BY <1>2, HotelRequestType, RoomRequestType
<1>8. ForeignKeysHold(d)
  BY <1>1, <1>2, <1>3, <1>4, <1>5, <1>6, <1>7, StatementsFit
<1> QED
  BY <1>1, <1>2, <1>8 DEF Execute, CanWrite

\* No write fails but for the lock, a snapshot out of date or a room that is gone: the
\* cascades reach all there is to reach, and no foreign key ever stops a destroy, an
\* update or a new row that was validated.
THEOREM FailuresExplained == Spec => FailsForAReason
<1>1. ASSUME OInv, IInv', [Next]_allVars, NEW w \in Worker,
             pc[w] = "write", pc'[w] = "answered"
      PROVE  \/ writer # NoOne
             \/ w \in stale
             \/ req[w].op = "book" /\ rec[w].id \notin Ids(db.rooms)
  <2>1. PICK u \in Worker : Accept(u) \/ Serve(u) \/ Die(u)
    BY <1>1 DEF Next, Midnight, allVars, vars, handlerVars
  <2>2. CASE u # w
    <3>1. IInv /\ Outcome(u)
      BY <1>1 DEF OInv
    <3>2. pc'[w] = pc[w]
      BY <1>1, <2>1, <2>2, <3>1, StepKinds, CommitOutcome DEF Alone
    <3> QED
      BY <1>1, <3>2
  <2>3. CASE u = w /\ Serve(w)
    BY <1>1, <2>3, WriteSucceeds
  <2>4. ~ Accept(w)
    BY <1>1
    DEF Accept, BookAccept, HotelAccept, RoomAccept, SignUpAccept, LoginAccept, Refuse, Load
  <2>5. CASE Die(w)
    BY <1>1, <2>5 DEF Die, Crash, Forget, OInv, IInv, ServerInv, TypeOK
  <2> QED
    BY <2>1, <2>2, <2>3, <2>4, <2>5
<1>2. OInv /\ IInv' /\ [Next]_allVars =>
        [\A w \in Worker : pc[w] = "write" /\ pc'[w] = "answered" =>
            \/ writer # NoOne
            \/ w \in stale
            \/ req[w].op = "book" /\ rec[w].id \notin Ids(db.rooms)]_allVars
  BY <1>1
<1> QED
  BY <1>2, OutcomeInvariance, Invariance, PTL DEF Spec, FailsForAReason

\* What destroy answered 204 for never comes back, nor does anything that referred to it.
THEOREM DestroyedStaysGone == Spec => []DestroyedForGood
<1>1. ASSUME OInv, NEW w \in Worker, pc[w] = "answered", resp[w] = 204
      PROVE  /\ req[w].op = "destroy_room" =>
                   /\ req[w].id \notin Ids(db.rooms)
                   /\ \A r \in db.reservations : r.room # req[w].id
             /\ req[w].op = "destroy_hotel" =>
                   /\ req[w].id \notin Ids(db.hotels)
                   /\ \A r \in db.rooms : r.hotel # req[w].id
  BY <1>1 DEF OInv, IInv, ServerInv, Sound, ForeignKeysHold, Outcome, Answered, RoomGone, HotelGone
<1>2. OInv => DestroyedForGood
  BY <1>1 DEF DestroyedForGood
<1> QED
  BY <1>2, OutcomeInvariance, PTL
-----------------------------------------------------------------------------
(* The API implements the ledger: a COMMIT is a step of the ledger or none,  *)
(* and every other step is none.                                             *)

\* A sound database is a ledger in order.
LEMMA LedgerInit == IInv => Ledger!Init
<1> SUFFICES ASSUME IInv PROVE Ledger!Init
  OBVIOUS
<1>1. db \in Database /\ Sound(db)
  BY DEF IInv, ServerInv, TypeOK, StoreTypeOK
<1>2. Ids(db.rooms) \subseteq 1..db.seq.rooms /\ Ids(db.users) \subseteq 1..db.seq.users
  BY <1>1 DEF Sound, PrimaryKeys, KeysUnique, Database, Ids, RoomRow, UserRow, Id
<1>3. \A s \in db.reservations :
        /\ s.room \in Ids(db.rooms) /\ s.user \in Ids(db.users)
        /\ s.id \in 1..db.seq.reservations
  BY <1>1
  DEF Sound, ForeignKeysHold, PrimaryKeys, KeysUnique, Database, ReservationRow, Id
<1>4. \A s, t \in db.reservations :
        s # t /\ s.room = t.room => Ledger!Slept(s) \cap Ledger!Slept(t) = {}
  BY <1>1 DEF Sound, NoSharedNight, Nights, Ledger!Slept
<1> QED
  BY <1>2, <1>3, <1>4 DEF Ledger!Init

\* The INSERT of a booking enters a stay on nights nobody else has.
LEMMA BookCommits ==
    ASSUME OInv, IInv', NEW w \in Worker, CommitWrite(w), req[w].op = "book"
    PROVE  Ledger!Next
<1> DEFINE stay == made[w]
<1>1. /\ pc[w] = "commit" /\ db' = view[w] /\ IInv /\ Outcome(w)
      /\ db \in Database /\ req[w] \in Offered
  BY DEF CommitWrite, Commit, OInv, IInv, ServerInv, TypeOK, StoreTypeOK, Loaded
<1>2. stay \in ReservationRow /\ stay.id = db.seq.reservations + 1
  BY <1>1, WrittenRows
<1>3. stay = Booking(db, req[w], rec[w]) /\ db' = InsertReservation(db, stay)
  BY <1>1 DEF Outcome, Written, Wrote
<1>4. /\ stay = [id        |-> db.seq.reservations + 1,
                 user      |-> stay.user,
                 room      |-> stay.room,
                 check_in  |-> stay.check_in,
                 check_out |-> stay.check_out]
      /\ stay.check_in = Day(req[w].check_in) /\ stay.check_out = Day(req[w].check_out)
  BY <1>3 DEF Booking
<1> HIDE DEF stay
<1>5. /\ db'.reservations = db.reservations \cup {stay}
      /\ db'.rooms = db.rooms /\ db'.users = db.users
      /\ db'.seq.reservations = db.seq.reservations + 1
      /\ db'.seq.rooms = db.seq.rooms /\ db'.seq.users = db.seq.users
  BY <1>1, <1>2, <1>3, InsertReservationTables
<1>6. stay.user \in Ids(db.users) /\ stay.room \in Ids(db.rooms)
  BY <1>5 DEF IInv, ServerInv, Sound, ForeignKeysHold
<1>7. stay.check_in < stay.check_out
  BY <1>5 DEF IInv, ServerInv, Sound, ProperStays
<1>8. \A s \in db.reservations : s # stay
  BY <1>1, <1>2 DEF IInv, ServerInv, Sound, PrimaryKeys, KeysUnique, Database, ReservationRow, Id
<1>9. \A s \in db.reservations :
        s.room = stay.room => Ledger!Slept(s) \cap Ledger!Slept(stay) = {}
  BY <1>5, <1>8 DEF IInv, ServerInv, Sound, NoSharedNight, Nights, Ledger!Slept
<1>10. stay.check_in \in DaysOffered /\ stay.check_out \in DaysOffered
  BY <1>1, <1>4 DEF DaysOffered
<1>11. Ledger!Book(stay.user, stay.room, stay.check_in, stay.check_out)
  BY <1>4, <1>5, <1>7, <1>9 DEF Ledger!Book, Ledger!Slept
<1> QED
  BY <1>6, <1>10, <1>11 DEF Ledger!Next

\* Every other COMMIT registers a guest, opens a room, closes rooms, or is none of the
\* ledger's business.
LEMMA OtherCommits ==
    ASSUME OInv, IInv', NEW w \in Worker, CommitWrite(w), req[w].op # "book"
    PROVE  [Ledger!Next]_(Ledger!books)
<1>1. /\ pc[w] = "commit" /\ db' = view[w] /\ IInv /\ Outcome(w)
      /\ db \in Database /\ Wrote(db, req[w], rec[w], made[w], db')
  BY DEF CommitWrite, Commit, OInv, IInv, ServerInv, TypeOK, StoreTypeOK, Outcome, Written
<1>2. CASE req[w].op = "create_hotel"
  <2>1. db' = InsertHotel(db, made[w]) /\ made[w] \in HotelRow
    BY <1>1, <1>2, WrittenRows DEF Wrote
  <2> QED
    BY <1>1, <2>1, InsertHotelTables DEF Ledger!books
<1>3. CASE req[w].op = "update_hotel"
  <2>1. db' = UpdateHotel(db, rec[w].id, req[w].name) /\ req[w].name \in Name
    BY <1>1, <1>3, WrittenRows DEF Wrote
  <2> QED
    BY <1>1, <2>1, UpdateHotelTables DEF Ledger!books
<1>4. CASE req[w].op = "update_room"
  <2>1. db' = UpdateRoom(db, rec[w].id, req[w].number) /\ req[w].number \in Number
    BY <1>1, <1>4, WrittenRows DEF Wrote
  <2> QED
    BY <1>1, <2>1, UpdateRoomTables, UpdateRoomRemembers DEF Ledger!books
<1>5. CASE req[w].op = "create_room"
  <2>1. /\ db' = InsertRoom(db, made[w]) /\ made[w] \in RoomRow
        /\ made[w].id = db.seq.rooms + 1
    BY <1>1, <1>5, WrittenRows DEF Wrote
  <2>2. /\ db'.rooms = db.rooms \cup {made[w]} /\ db'.seq.rooms = db.seq.rooms + 1
        /\ db'.reservations = db.reservations /\ db'.users = db.users
        /\ db'.seq.reservations = db.seq.reservations /\ db'.seq.users = db.seq.users
    BY <1>1, <2>1, InsertRoomTables
  <2>3. Ids(db'.rooms) = Ids(db.rooms) \cup {db.seq.rooms + 1}
    BY <2>1, <2>2 DEF Ids
  <2> QED
    BY <2>2, <2>3 DEF Ledger!Next, Ledger!Open
<1>6. CASE req[w].op = "sign_up"
  <2>1. /\ db' = InsertUser(db, made[w]) /\ made[w] \in UserRow
        /\ made[w].id = db.seq.users + 1
    BY <1>1, <1>6, WrittenRows DEF Wrote
  <2>2. /\ db'.users = db.users \cup {made[w]} /\ db'.seq.users = db.seq.users + 1
        /\ db'.reservations = db.reservations /\ db'.rooms = db.rooms
        /\ db'.seq.reservations = db.seq.reservations /\ db'.seq.rooms = db.seq.rooms
    BY <1>1, <2>1, InsertUserTables
  <2>3. Ids(db'.users) = Ids(db.users) \cup {db.seq.users + 1}
    BY <2>1, <2>2 DEF Ids
  <2> QED
    BY <2>2, <2>3 DEF Ledger!Next, Ledger!Register
<1>7. CASE req[w].op \in {"destroy_room", "destroy_hotel"}
  <2>1. PICK ids :
          /\ db'.rooms = {r \in db.rooms : r.id \notin ids}
          /\ db'.reservations = {s \in db.reservations : s.room \notin ids}
          /\ db'.users = db.users /\ db'.seq = db.seq
    <3>1. CASE req[w].op = "destroy_room"
      BY <1>1, <3>1, DestroyRoomsTables DEF Wrote
    <3>2. CASE req[w].op = "destroy_hotel"
      <4> DEFINE own == Ids({r \in db.rooms : r.hotel = rec[w].id})
      <4>1. db' = DestroyHotel(db, rec[w].id)
        BY <1>1, <3>2 DEF Wrote
      <4>2. /\ db'.rooms = {r \in db.rooms : r.id \notin own}
            /\ db'.reservations = {s \in db.reservations : s.room \notin own}
        BY <1>1, <4>1, DestroyHotelRows
      <4>3. db'.users = db.users /\ db'.seq = db.seq
        BY <1>1, <4>1, DestroyHotelTables
      <4> HIDE DEF own
      <4> QED
        BY <4>2, <4>3
    <3> QED
      BY <1>7, <3>1, <3>2
  <2> DEFINE gone == ids \cap Ids(db.rooms)
  <2>2. Ids(db'.rooms) = Ids(db.rooms) \ gone
    BY <2>1 DEF Ids
  <2>3. \A s \in db.reservations : s.room \in Ids(db.rooms)
    BY <1>1 DEF IInv, ServerInv, Sound, ForeignKeysHold
  <2>4. db'.reservations = {s \in db.reservations : s.room \notin gone}
    BY <2>1, <2>3
  <2>5. gone \in SUBSET Ids(db.rooms)
    OBVIOUS
  <2> HIDE DEF gone
  <2>6. Ledger!Close(gone)
    BY <2>1, <2>2, <2>4 DEF Ledger!Close
  <2> QED
    BY <2>5, <2>6 DEF Ledger!Next
<1> QED
  BY <1>1, <1>2, <1>3, <1>4, <1>5, <1>6, <1>7, WriterOps

\* Every step of the API is a step of the ledger or none.
LEMMA NextLedger == OInv /\ IInv' /\ [Next]_allVars => [Ledger!Next]_(Ledger!books)
<1> SUFFICES ASSUME OInv, IInv', [Next]_allVars PROVE [Ledger!Next]_(Ledger!books)
  OBVIOUS
<1>1. ASSUME UNCHANGED db PROVE UNCHANGED Ledger!books
  BY <1>1 DEF Ledger!books
<1>2. ASSUME NEW w \in Worker, Accept(w) \/ Serve(w) \/ Die(w)
      PROVE  [Ledger!Next]_(Ledger!books)
  <2>1. CASE CommitWrite(w)
    BY <2>1, BookCommits, OtherCommits
  <2>2. CASE Alone(w)
    BY <1>1, <2>2 DEF Alone
  <2> QED
    BY <1>2, <2>1, <2>2, StepKinds
<1>3. CASE UNCHANGED vars
  BY <1>1, <1>3 DEF vars, storeVars
<1> QED
  BY <1>2, <1>3 DEF Next, Midnight, allVars

\* What the threads do between their first SELECT and their COMMIT looks like one step
\* of the ledger or like nothing: the API implements the ledger of stays, rooms and
\* guests, whatever is interleaved, refused or cut short by a crash.
THEOREM ImplementsLedger == Spec => LedgerSpec
<1>1. Init => Ledger!Init
  BY InitIInv, LedgerInit
<1>2. OInv /\ IInv' /\ [Next]_allVars => [Ledger!Next]_(Ledger!books)
  BY NextLedger
<1> QED
  BY <1>1, <1>2, OutcomeInvariance, Invariance, PTL DEF Spec, LedgerSpec, Ledger!Spec
=============================================================================
