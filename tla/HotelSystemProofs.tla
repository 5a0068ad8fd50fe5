-------------------------- MODULE HotelSystemProofs --------------------------
(***************************************************************************)
(* Proofs, for every value of the constants, about HotelSystem.            *)
(***************************************************************************)
EXTENDS HotelSystemInvariant, TLAPS

-----------------------------------------------------------------------------
(* The write statements, table by table. *)

\* INSERT INTO hotels.
LEMMA InsertHotelTables ==
    ASSUME NEW d \in Database, NEW h \in HotelRow
    PROVE  /\ InsertHotel(d, h) \in Database
           /\ InsertHotel(d, h).hotels = d.hotels \cup {h}
           /\ InsertHotel(d, h).rooms = d.rooms
           /\ InsertHotel(d, h).reservations = d.reservations
           /\ InsertHotel(d, h).users = d.users
           /\ InsertHotel(d, h).seq.users = d.seq.users
           /\ InsertHotel(d, h).seq.hotels = h.id
           /\ InsertHotel(d, h).seq.rooms = d.seq.rooms
           /\ InsertHotel(d, h).seq.reservations = d.seq.reservations
BY DEF InsertHotel, Database, HotelRow, Id

\* INSERT INTO rooms.
LEMMA InsertRoomTables ==
    ASSUME NEW d \in Database, NEW r \in RoomRow
    PROVE  /\ InsertRoom(d, r) \in Database
           /\ InsertRoom(d, r).hotels = d.hotels
           /\ InsertRoom(d, r).rooms = d.rooms \cup {r}
           /\ InsertRoom(d, r).reservations = d.reservations
           /\ InsertRoom(d, r).users = d.users
           /\ InsertRoom(d, r).seq.users = d.seq.users
           /\ InsertRoom(d, r).seq.hotels = d.seq.hotels
           /\ InsertRoom(d, r).seq.rooms = r.id
           /\ InsertRoom(d, r).seq.reservations = d.seq.reservations
BY DEF InsertRoom, Database, RoomRow, Id

\* INSERT INTO reservations.
LEMMA InsertReservationTables ==
    ASSUME NEW d \in Database, NEW r \in ReservationRow
    PROVE  /\ InsertReservation(d, r) \in Database
           /\ InsertReservation(d, r).hotels = d.hotels
           /\ InsertReservation(d, r).rooms = d.rooms
           /\ InsertReservation(d, r).reservations = d.reservations \cup {r}
           /\ InsertReservation(d, r).users = d.users
           /\ InsertReservation(d, r).seq.users = d.seq.users
           /\ InsertReservation(d, r).seq.hotels = d.seq.hotels
           /\ InsertReservation(d, r).seq.rooms = d.seq.rooms
           /\ InsertReservation(d, r).seq.reservations = r.id
BY DEF InsertReservation, Database, ReservationRow, Id

\* INSERT INTO users.
LEMMA InsertUserTables ==
    ASSUME NEW d \in Database, NEW u \in UserRow
    PROVE  /\ InsertUser(d, u) \in Database
           /\ InsertUser(d, u).hotels = d.hotels
           /\ InsertUser(d, u).rooms = d.rooms
           /\ InsertUser(d, u).users = d.users \cup {u}
           /\ InsertUser(d, u).reservations = d.reservations
           /\ InsertUser(d, u).seq.hotels = d.seq.hotels
           /\ InsertUser(d, u).seq.rooms = d.seq.rooms
           /\ InsertUser(d, u).seq.users = u.id
           /\ InsertUser(d, u).seq.reservations = d.seq.reservations
BY DEF InsertUser, Database, UserRow, Id

\* UPDATE hotels SET name.
LEMMA UpdateHotelTables ==
    ASSUME NEW d \in Database, NEW id, NEW name \in Name
    PROVE  /\ UpdateHotel(d, id, name) \in Database
           /\ UpdateHotel(d, id, name).hotels =
                {IF h.id = id THEN [h EXCEPT !.name = name] ELSE h : h \in d.hotels}
           /\ UpdateHotel(d, id, name).rooms = d.rooms
           /\ UpdateHotel(d, id, name).reservations = d.reservations
           /\ UpdateHotel(d, id, name).users = d.users
           /\ UpdateHotel(d, id, name).seq = d.seq
BY DEF UpdateHotel, Database, HotelRow

\* UPDATE rooms SET number.
LEMMA UpdateRoomTables ==
    ASSUME NEW d \in Database, NEW id, NEW number \in Number
    PROVE  /\ UpdateRoom(d, id, number) \in Database
           /\ UpdateRoom(d, id, number).hotels = d.hotels
           /\ UpdateRoom(d, id, number).rooms =
                {IF r.id = id THEN [r EXCEPT !.number = number] ELSE r : r \in d.rooms}
           /\ UpdateRoom(d, id, number).reservations = d.reservations
           /\ UpdateRoom(d, id, number).users = d.users
           /\ UpdateRoom(d, id, number).seq = d.seq
BY DEF UpdateRoom, Database, RoomRow

\* Room#destroy.
LEMMA DestroyRoomsTables ==
    ASSUME NEW d \in Database, NEW ids
    PROVE  /\ DestroyRooms(d, ids) \in Database
           /\ DestroyRooms(d, ids).hotels = d.hotels
           /\ DestroyRooms(d, ids).rooms = {r \in d.rooms : r.id \notin ids}
           /\ DestroyRooms(d, ids).reservations =
                {r \in d.reservations : r.room \notin ids}
           /\ DestroyRooms(d, ids).users = d.users
           /\ DestroyRooms(d, ids).seq = d.seq
BY DEF DestroyRooms, Database

\* Hotel#destroy.
LEMMA DestroyHotelTables ==
    ASSUME NEW d \in Database, NEW id
    PROVE  /\ DestroyHotel(d, id) \in Database
           /\ DestroyHotel(d, id).hotels = {h \in d.hotels : h.id # id}
           /\ DestroyHotel(d, id).rooms \subseteq d.rooms
           /\ DestroyHotel(d, id).reservations \subseteq d.reservations
           /\ DestroyHotel(d, id).users = d.users
           /\ DestroyHotel(d, id).seq = d.seq
<1> DEFINE ids == Ids({r \in d.rooms : r.hotel = id})
           e == DestroyRooms(d, ids)
           f == [e EXCEPT !.hotels = {h \in @ : h.id # id}]
<1>1. /\ e \in Database
      /\ e.hotels = d.hotels
      /\ e.rooms \subseteq d.rooms
      /\ e.reservations \subseteq d.reservations
      /\ e.users = d.users
      /\ e.seq = d.seq
  BY DestroyRoomsTables
<1> HIDE DEF e
<1>2. /\ f \in Database
      /\ f.hotels = {h \in e.hotels : h.id # id}
      /\ f.rooms = e.rooms
      /\ f.reservations = e.reservations
      /\ f.users = e.users
      /\ f.seq = e.seq
  BY <1>1 DEF Database
<1>3. DestroyHotel(d, id) = f
  BY DEF DestroyHotel, e
<1> HIDE DEF f
<1> QED
  BY <1>1, <1>2, <1>3
-----------------------------------------------------------------------------
(* The write statements keep a sound database sound, given what the        *)
(* validations found.  The foreign keys are SQLite's own business: a       *)
(* statement that breaks them fails, so they are a hypothesis here.        *)

\* The overlap test is the right one: two proper stays share a night exactly when
\* 'check_in < ? AND check_out > ?' says they overlap.
LEMMA OverlapIsSharedNight ==
    ASSUME NEW a \in ReservationRow, NEW b \in ReservationRow,
           a.check_in < a.check_out, b.check_in < b.check_out
    PROVE  Overlaps(a, b.check_in, b.check_out) <=> Nights(a) \cap Nights(b) # {}
<1>0. /\ a.check_in \in Nat /\ a.check_out \in Nat
      /\ b.check_in \in Nat /\ b.check_out \in Nat
  BY DEF ReservationRow
<1>1. ASSUME Overlaps(a, b.check_in, b.check_out)
      PROVE  Nights(a) \cap Nights(b) # {}
  <2>1. CASE a.check_in <= b.check_in
    <3>1. b.check_in \in Nights(a) /\ b.check_in \in Nights(b)
      BY <1>0, <1>1, <2>1 DEF Overlaps, Nights
    <3> QED
      BY <3>1
  <2>2. CASE b.check_in < a.check_in
    <3>1. a.check_in \in Nights(a) /\ a.check_in \in Nights(b)
      BY <1>0, <1>1, <2>2 DEF Overlaps, Nights
    <3> QED
      BY <3>1
  <2> QED
    BY <1>0, <2>1, <2>2
<1>2. ASSUME NEW n \in Nights(a) \cap Nights(b)
      PROVE  Overlaps(a, b.check_in, b.check_out)
  BY <1>0 DEF Overlaps, Nights
<1> QED
  BY <1>1, <1>2

\* A booking that passed check_dates and check_room_availability.
LEMMA BookingSound ==
    ASSUME NEW d \in Database, Sound(d), NEW r \in ReservationRow,
           r.id = d.seq.reservations + 1,
           Ancient < r.check_in, r.check_in < r.check_out,
           Available(d, r.room, r.check_in, r.check_out),
           ForeignKeysHold(InsertReservation(d, r))
    PROVE  Sound(InsertReservation(d, r))
<1> DEFINE e == InsertReservation(d, r)
<1>1. /\ e.hotels = d.hotels /\ e.rooms = d.rooms /\ e.users = d.users
      /\ e.reservations = d.reservations \cup {r}
      /\ e.seq.hotels = d.seq.hotels /\ e.seq.rooms = d.seq.rooms
      /\ e.seq.users = d.seq.users /\ e.seq.reservations = r.id
  BY InsertReservationTables
<1> HIDE DEF e
<1>2. PrimaryKeys(e)
  BY <1>1 DEF Sound, PrimaryKeys, KeysUnique, Database, ReservationRow, Id
<1>3. LabelsUnique(e)
  BY <1>1 DEF Sound, LabelsUnique
<1>4. ProperStays(e)
  BY <1>1 DEF Sound, ProperStays
<1>5. ASSUME NEW a \in d.reservations, a.room = r.room
      PROVE  Nights(a) \cap Nights(r) = {}
  <2>1. a \in ReservationRow /\ a.check_in < a.check_out
    BY DEF Database, Sound, ProperStays
  <2>2. ~ Overlaps(a, r.check_in, r.check_out)
    BY <1>5 DEF Available
  <2> QED
    BY <2>1, <2>2, OverlapIsSharedNight
<1>6. NoSharedNight(e)
  BY <1>1, <1>5 DEF Sound, NoSharedNight
<1> QED
  BY <1>2, <1>3, <1>4, <1>6 DEF Sound, e

\* A hotel with a free name.
LEMMA InsertHotelSound ==
    ASSUME NEW d \in Database, Sound(d), NEW h \in HotelRow,
           h.id = d.seq.hotels + 1, NameFree(d, h.name, 0),
           ForeignKeysHold(InsertHotel(d, h))
    PROVE  Sound(InsertHotel(d, h))
<1> DEFINE e == InsertHotel(d, h)
<1>1. /\ e.hotels = d.hotels \cup {h}
      /\ e.rooms = d.rooms /\ e.users = d.users /\ e.reservations = d.reservations
      /\ e.seq.hotels = h.id /\ e.seq.users = d.seq.users
      /\ e.seq.rooms = d.seq.rooms /\ e.seq.reservations = d.seq.reservations
  BY InsertHotelTables
<1> HIDE DEF e
<1>2. PrimaryKeys(e)
  BY <1>1 DEF Sound, PrimaryKeys, KeysUnique, Database, HotelRow, Id
<1>3. \A a \in d.hotels : a.name # h.name
  BY DEF NameFree, Database, HotelRow, Id
<1>4. LabelsUnique(e)
  BY <1>1, <1>3 DEF Sound, LabelsUnique
<1>5. ProperStays(e) /\ NoSharedNight(e)
  BY <1>1 DEF Sound, ProperStays, NoSharedNight
<1> QED
  BY <1>2, <1>4, <1>5 DEF Sound, e

\* A room with a free number.
LEMMA InsertRoomSound ==
    ASSUME NEW d \in Database, Sound(d), NEW r \in RoomRow,
           r.id = d.seq.rooms + 1, NumberFree(d, r.number, 0),
           ForeignKeysHold(InsertRoom(d, r))
    PROVE  Sound(InsertRoom(d, r))
<1> DEFINE e == InsertRoom(d, r)
<1>1. /\ e.rooms = d.rooms \cup {r}
      /\ e.hotels = d.hotels /\ e.users = d.users /\ e.reservations = d.reservations
      /\ e.seq.rooms = r.id /\ e.seq.users = d.seq.users
      /\ e.seq.hotels = d.seq.hotels /\ e.seq.reservations = d.seq.reservations
  BY InsertRoomTables
<1> HIDE DEF e
<1>2. PrimaryKeys(e)
  BY <1>1 DEF Sound, PrimaryKeys, KeysUnique, Database, RoomRow, Id
<1>3. \A a \in d.rooms : a.number # r.number
  BY DEF NumberFree, Database, RoomRow, Id
<1>4. LabelsUnique(e)
  BY <1>1, <1>3 DEF Sound, LabelsUnique
<1>5. ProperStays(e) /\ NoSharedNight(e)
  BY <1>1 DEF Sound, ProperStays, NoSharedNight
<1> QED
  BY <1>2, <1>4, <1>5 DEF Sound, e

\* A user with a free name.
LEMMA InsertUserSound ==
    ASSUME NEW d \in Database, Sound(d), NEW u \in UserRow,
           u.id = d.seq.users + 1, UsernameFree(d, u.username),
           ForeignKeysHold(InsertUser(d, u))
    PROVE  Sound(InsertUser(d, u))
<1> DEFINE e == InsertUser(d, u)
<1>1. /\ e.users = d.users \cup {u}
      /\ e.hotels = d.hotels /\ e.rooms = d.rooms /\ e.reservations = d.reservations
      /\ e.seq.users = u.id /\ e.seq.hotels = d.seq.hotels
      /\ e.seq.rooms = d.seq.rooms /\ e.seq.reservations = d.seq.reservations
  BY InsertUserTables
<1> HIDE DEF e
<1>2. PrimaryKeys(e)
  BY <1>1 DEF Sound, PrimaryKeys, KeysUnique, Database, UserRow, Id
<1>3. LabelsUnique(e)
  BY <1>1 DEF Sound, LabelsUnique, UsernameFree
<1>4. ProperStays(e) /\ NoSharedNight(e)
  BY <1>1 DEF Sound, ProperStays, NoSharedNight
<1> QED
  BY <1>2, <1>3, <1>4 DEF Sound, e

\* A hotel that takes a name nobody else has.
LEMMA UpdateHotelSound ==
    ASSUME NEW d \in Database, Sound(d), NEW id, NEW name \in Name,
           NameFree(d, name, id),
           ForeignKeysHold(UpdateHotel(d, id, name))
    PROVE  Sound(UpdateHotel(d, id, name))
<1> DEFINE e == UpdateHotel(d, id, name)
           f(h) == IF h.id = id THEN [h EXCEPT !.name = name] ELSE h
<1>1. /\ e.hotels = {f(h) : h \in d.hotels}
      /\ e.rooms = d.rooms /\ e.users = d.users
      /\ e.reservations = d.reservations /\ e.seq = d.seq
  BY UpdateHotelTables
<1> HIDE DEF e
<1>2. ASSUME NEW h \in d.hotels
      PROVE  /\ f(h).id = h.id
             /\ f(h).name = IF h.id = id THEN name ELSE h.name
  BY DEF Database, HotelRow
<1> HIDE DEF f
<1>3. PrimaryKeys(e)
  BY <1>1, <1>2 DEF Sound, PrimaryKeys, KeysUnique
<1>4. ASSUME NEW a \in d.hotels, NEW b \in d.hotels, f(a).name = f(b).name
      PROVE  a = b
  <2>1. CASE a.id = id /\ b.id = id
    BY <2>1 DEF Sound, PrimaryKeys, KeysUnique
  <2>2. CASE a.id # id /\ b.id # id
    BY <2>2, <1>2, <1>4 DEF Sound, LabelsUnique
  <2>3. CASE (a.id = id) # (b.id = id)
    BY <2>3, <1>2, <1>4 DEF NameFree
  <2> QED
    BY <2>1, <2>2, <2>3
<1>5. LabelsUnique(e)
  BY <1>1, <1>4 DEF Sound, LabelsUnique
<1>6. ProperStays(e) /\ NoSharedNight(e)
  BY <1>1 DEF Sound, ProperStays, NoSharedNight
<1> QED
  BY <1>3, <1>5, <1>6 DEF Sound, e

\* A room that takes a number nobody else has.
LEMMA UpdateRoomSound ==
    ASSUME NEW d \in Database, Sound(d), NEW id, NEW number \in Number,
           NumberFree(d, number, id),
           ForeignKeysHold(UpdateRoom(d, id, number))
    PROVE  Sound(UpdateRoom(d, id, number))
<1> DEFINE e == UpdateRoom(d, id, number)
           f(r) == IF r.id = id THEN [r EXCEPT !.number = number] ELSE r
<1>1. /\ e.rooms = {f(r) : r \in d.rooms}
      /\ e.hotels = d.hotels /\ e.users = d.users
      /\ e.reservations = d.reservations /\ e.seq = d.seq
  BY UpdateRoomTables
<1> HIDE DEF e
<1>2. ASSUME NEW r \in d.rooms
      PROVE  /\ f(r).id = r.id
             /\ f(r).number = IF r.id = id THEN number ELSE r.number
  BY DEF Database, RoomRow
<1> HIDE DEF f
<1>3. PrimaryKeys(e)
  BY <1>1, <1>2 DEF Sound, PrimaryKeys, KeysUnique
<1>4. ASSUME NEW a \in d.rooms, NEW b \in d.rooms, f(a).number = f(b).number
      PROVE  a = b
  <2>1. CASE a.id = id /\ b.id = id
    BY <2>1 DEF Sound, PrimaryKeys, KeysUnique
  <2>2. CASE a.id # id /\ b.id # id
    BY <2>2, <1>2, <1>4 DEF Sound, LabelsUnique
  <2>3. CASE (a.id = id) # (b.id = id)
    BY <2>3, <1>2, <1>4 DEF NumberFree
  <2> QED
    BY <2>1, <2>2, <2>3
<1>5. LabelsUnique(e)
  BY <1>1, <1>4 DEF Sound, LabelsUnique
<1>6. ProperStays(e) /\ NoSharedNight(e)
  BY <1>1 DEF Sound, ProperStays, NoSharedNight
<1> QED
  BY <1>3, <1>5, <1>6 DEF Sound, e

\* Taking rows away.
LEMMA RemovalSound ==
    ASSUME NEW d \in Database, Sound(d), NEW e \in Database,
           e.hotels \subseteq d.hotels, e.rooms \subseteq d.rooms,
           e.users \subseteq d.users, e.reservations \subseteq d.reservations,
           e.seq = d.seq,
           ForeignKeysHold(e)
    PROVE  Sound(e)
<1>1. PrimaryKeys(e)
  BY DEF Sound, PrimaryKeys, KeysUnique
<1>2. LabelsUnique(e)
  BY DEF Sound, LabelsUnique
<1>3. ProperStays(e) /\ NoSharedNight(e)
  BY DEF Sound, ProperStays, NoSharedNight
<1> QED
  BY <1>1, <1>2, <1>3 DEF Sound
-----------------------------------------------------------------------------
(* The steps of a handler, each from ServerInv(T) to ServerInv(T)'. *)

\* A step outside any transaction that leaves the store alone.
LEMMA QuietStep ==
    ASSUME NEW T \in SUBSET Worker, ServerInv(T), TypeOK', Loaded(T)', UNCHANGED storeVars,
           NEW w \in T, NEW s \in Stage \ {"write", "commit"},
           pc[w] \notin {"write", "commit"},
           pc' = [pc EXCEPT ![w] = s],
           \A v \in T : v # w => req'[v] = req[v] /\ rec'[v] = rec[v]
    PROVE  ServerInv(T)'
<1>0. /\ db' = db /\ view' = view /\ stale' = stale /\ writer' = writer
      /\ \A v \in T : pc'[v] = IF v = w THEN s ELSE pc[v]
  BY DEF storeVars, ServerInv, TypeOK
<1>1. LockHeld(T)'
  BY <1>0 DEF ServerInv, LockHeld
<1>2. Snapshots(T)'
  BY <1>0 DEF ServerInv, Snapshots, InTransaction
<1>3. Checked(T)'
  <2> SUFFICES ASSUME NEW v \in T, pc'[v] = "write"
               PROVE  /\ req[v].op = "book" => BookChecked(v)'
                      /\ req[v].op = "create_hotel" => NameFree(view[v], req[v].name, 0)
                      /\ req[v].op = "update_hotel" => NameFree(view[v], req[v].name, rec[v].id)
                      /\ req[v].op = "create_room" => NumberFree(view[v], req[v].number, 0)
                      /\ req[v].op = "update_room" => NumberFree(view[v], req[v].number, rec[v].id)
                      /\ req[v].op = "sign_up" => UsernameFree(view[v], req[v].username)
                      /\ req'[v] = req[v] /\ rec'[v] = rec[v]
    BY <1>0 DEF Checked
  <2>1. pc[v] = "write" /\ req'[v] = req[v] /\ rec'[v] = rec[v]
    BY <1>0
  <2> QED
    BY <1>0, <2>1 DEF ServerInv, Checked, BookChecked
<1>4. Pending(T)' /\ Sound(db)'
  BY <1>0 DEF ServerInv, Pending
<1> QED
  BY <1>1, <1>2, <1>3, <1>4 DEF ServerInv

\* A before_action, or an error in one, answers a new request.
LEMMA RefuseStep ==
    ASSUME NEW T \in SUBSET Worker, ServerInv(T), UNCHANGED today,
           NEW w \in T, NEW r \in Offered, NEW s \in Status,
           Refuse(w, r, s)
    PROVE  ServerInv(T)'
<1>1. TypeOK'
  BY DEF ServerInv, TypeOK, StoreTypeOK, Refuse, storeVars, Stage
<1>2. Loaded(T)'
  BY DEF ServerInv, TypeOK, Loaded, Refuse
<1> QED
  BY <1>1, <1>2, QuietStep DEF ServerInv, TypeOK, Refuse, Stage

\* A new request passes its before_actions with the row it asked for.
LEMMA LoadStep ==
    ASSUME NEW T \in SUBSET Worker, ServerInv(T), UNCHANGED today,
           NEW w \in T, NEW r \in Offered,
           NEW row \in HotelRow \cup RoomRow \cup UserRow \cup {NoRow},
           r.op = "book" => r.as \in Id /\ row \in RoomRow,
           r.op \in {"update_room", "destroy_room"} => row \in RoomRow,
           r.op \in {"update_hotel", "destroy_hotel"} => row \in HotelRow,
           Load(w, r, row)
    PROVE  ServerInv(T)'
<1>1. TypeOK'
  BY DEF ServerInv, TypeOK, StoreTypeOK, Load, storeVars, Stage
<1>2. Loaded(T)'
  BY DEF ServerInv, TypeOK, Loaded, Load
<1> QED
  BY <1>1, <1>2, QuietStep DEF ServerInv, TypeOK, Load, Stage

\* Parameters or validations turn the request down.
LEMMA RejectStep ==
    ASSUME NEW T \in SUBSET Worker, ServerInv(T), UNCHANGED today,
           NEW w \in T, pc[w] = "check", NEW s \in Status,
           Reject(w, s)
    PROVE  ServerInv(T)'
<1>1. TypeOK'
  BY DEF ServerInv, TypeOK, StoreTypeOK, Reject, storeVars, Stage
<1>2. Loaded(T)'
  BY DEF ServerInv, TypeOK, Loaded, Reject
<1> QED
  BY <1>1, <1>2, QuietStep DEF ServerInv, TypeOK, Reject, Stage

\* An update with nothing to change.
LEMMA SkipWriteStep ==
    ASSUME NEW T \in SUBSET Worker, ServerInv(T), UNCHANGED today,
           NEW w \in T, pc[w] = "check", SkipWrite(w)
    PROVE  ServerInv(T)'
<1>1. TypeOK'
  BY DEF ServerInv, TypeOK, StoreTypeOK, SkipWrite, storeVars, Stage
<1>2. Loaded(T)'
  BY DEF ServerInv, TypeOK, Loaded, SkipWrite
<1> QED
  BY <1>1, <1>2, QuietStep DEF ServerInv, TypeOK, SkipWrite, Stage

\* The answer is rendered.
LEMMA RenderStep ==
    ASSUME NEW T \in SUBSET Worker, ServerInv(T), UNCHANGED today,
           NEW w \in T, pc[w] \in {"check", "render"},
           NEW s \in Status, Render(w, s)
    PROVE  ServerInv(T)'
<1>1. TypeOK'
  BY DEF ServerInv, TypeOK, StoreTypeOK, Render, storeVars, Stage
<1>2. Loaded(T)'
  BY DEF ServerInv, TypeOK, Loaded, Render
<1> QED
  BY <1>1, <1>2, QuietStep DEF ServerInv, TypeOK, Render, Stage

\* The thread returns to the pool.
LEMMA FinishStep ==
    ASSUME NEW T \in SUBSET Worker, ServerInv(T), UNCHANGED today, NEW w \in T, Finish(w)
    PROVE  ServerInv(T)'
<1>1. TypeOK'
  BY DEF ServerInv, TypeOK, StoreTypeOK, Finish, Forget, storeVars, Stage, Status
<1>2. Loaded(T)'
  BY DEF ServerInv, TypeOK, Loaded, Finish, Forget
<1> QED
  BY <1>1, <1>2, QuietStep DEF ServerInv, TypeOK, Finish, Forget, Stage

\* A transaction starts and its validations pass in its snapshot.
LEMMA ProceedStep ==
    ASSUME NEW T \in SUBSET Worker, ServerInv(T), UNCHANGED today,
           NEW w \in T, pc[w] = "check", Proceed(w),
           req[w].op = "book" =>
              /\ Ancient < Day(req[w].check_in)
              /\ Day(req[w].check_in) < Day(req[w].check_out)
              /\ Available(db, rec[w].id, Day(req[w].check_in), Day(req[w].check_out)),
           req[w].op = "create_hotel" => NameFree(db, req[w].name, 0),
           req[w].op = "update_hotel" => NameFree(db, req[w].name, rec[w].id),
           req[w].op = "create_room" => NumberFree(db, req[w].number, 0),
           req[w].op = "update_room" => NumberFree(db, req[w].number, rec[w].id),
           req[w].op = "sign_up" => UsernameFree(db, req[w].username)
    PROVE  ServerInv(T)'
<1>0. /\ db' = db /\ stale' = stale /\ writer' = writer
      /\ req' = req /\ rec' = rec /\ made' = made /\ resp' = resp
      /\ pc' = [pc EXCEPT ![w] = "write"]
      /\ view' = [view EXCEPT ![w] = db]
      /\ db # NoSnapshot
      /\ \A v \in T : pc'[v] = IF v = w THEN "write" ELSE pc[v]
      /\ \A v \in T : view'[v] = IF v = w THEN db ELSE view[v]
  BY SnapshotAssumption DEF Proceed, BeginRead, ServerInv, TypeOK, StoreTypeOK
<1>1. TypeOK'
  BY <1>0 DEF ServerInv, TypeOK, StoreTypeOK, Stage
<1>2. Loaded(T)'
  BY <1>0 DEF ServerInv, Loaded
<1>3. LockHeld(T)'
  BY <1>0 DEF ServerInv, LockHeld
<1>4. Snapshots(T)'
  BY <1>0 DEF ServerInv, Snapshots, InTransaction
<1>5. Checked(T)'
  BY <1>0 DEF ServerInv, Checked, BookChecked
<1>6. Pending(T)' /\ Sound(db)'
  BY <1>0 DEF ServerInv, Pending
<1> QED
  BY <1>1, <1>2, <1>3, <1>4, <1>5, <1>6 DEF ServerInv

\* A rollback leaves the other transactions as they are.
LEMMA RollbackStep ==
    ASSUME NEW T \in SUBSET Worker, ServerInv(T),
           NEW w \in T, NEW s \in Stage \ {"write", "commit"},
           Rollback(w), TypeOK', Loaded(T)',
           pc' = [pc EXCEPT ![w] = s],
           \A v \in T : v # w => req'[v] = req[v] /\ rec'[v] = rec[v]
    PROVE  ServerInv(T)'
<1>0. /\ db' = db /\ stale' = stale \ {w}
      /\ writer' = (IF writer = w THEN NoOne ELSE writer)
      /\ \A v \in T : pc'[v] = IF v = w THEN s ELSE pc[v]
      /\ \A v \in T : view'[v] = IF v = w THEN NoSnapshot ELSE view[v]
  BY DEF Rollback, ServerInv, TypeOK, StoreTypeOK
<1>1. LockHeld(T)'
  BY <1>0, WorkerAssumption DEF ServerInv, LockHeld
<1>2. Snapshots(T)'
  BY <1>0 DEF ServerInv, Snapshots, InTransaction
<1>3. Checked(T)'
  <2> SUFFICES ASSUME NEW v \in T, pc'[v] = "write"
               PROVE  /\ req[v].op = "book" => BookChecked(v)'
                      /\ req[v].op = "create_hotel" => NameFree(view'[v], req[v].name, 0)
                      /\ req[v].op = "update_hotel" => NameFree(view'[v], req[v].name, rec[v].id)
                      /\ req[v].op = "create_room" => NumberFree(view'[v], req[v].number, 0)
                      /\ req[v].op = "update_room" => NumberFree(view'[v], req[v].number, rec[v].id)
                      /\ req[v].op = "sign_up" => UsernameFree(view'[v], req[v].username)
                      /\ req'[v] = req[v] /\ rec'[v] = rec[v]
    BY DEF Checked
  <2>1. pc[v] = "write" /\ view'[v] = view[v] /\ req'[v] = req[v] /\ rec'[v] = rec[v]
    BY <1>0
  <2> QED
    BY <2>1 DEF ServerInv, Checked, BookChecked
<1>4. Pending(T)' /\ Sound(db)'
  BY <1>0 DEF ServerInv, Pending
<1> QED
  BY <1>1, <1>2, <1>3, <1>4 DEF ServerInv

\* SQLite refuses the write.
LEMMA FailStep ==
    ASSUME NEW T \in SUBSET Worker, ServerInv(T), UNCHANGED today,
           NEW w \in T, pc[w] = "write", Fail(w)
    PROVE  ServerInv(T)'
<1>1. TypeOK'
  BY DEF ServerInv, TypeOK, StoreTypeOK, Fail, Rollback, Stage, Status
<1>2. Loaded(T)'
  BY DEF ServerInv, TypeOK, Loaded, Fail
<1> QED
  BY <1>1, <1>2, RollbackStep DEF ServerInv, TypeOK, Fail, Stage

\* The process dies.
LEMMA CrashStep ==
    ASSUME NEW T \in SUBSET Worker, ServerInv(T), UNCHANGED today, NEW w \in T, Crash(w)
    PROVE  ServerInv(T)'
<1>1. TypeOK'
  BY DEF ServerInv, TypeOK, StoreTypeOK, Crash, Forget, Rollback, Stage, Status
<1>2. Loaded(T)'
  BY DEF ServerInv, TypeOK, Loaded, Crash, Forget
<1> QED
  BY <1>1, <1>2, RollbackStep DEF ServerInv, TypeOK, Crash, Forget, Stage

\* The write statements of a transaction whose snapshot is the committed database
\* turn it into a sound one, or fail.
LEMMA ExecuteStep ==
    ASSUME NEW T \in SUBSET Worker, ServerInv(T), UNCHANGED today,
           NEW w \in T, pc[w] = "write",
           NEW d \in Database,
           NEW row \in HotelRow \cup RoomRow \cup UserRow \cup ReservationRow \cup {NoRow},
           CanWrite(w) /\ ForeignKeysHold(d) => Sound(d),
           Execute(w, d, row)
    PROVE  ServerInv(T)'
<1>1. CASE Fail(w)
  BY <1>1, FailStep
<1>2. CASE CanWrite(w) /\ ForeignKeysHold(d) /\ ~ Fail(w)
  <2>0. /\ db' = db /\ stale' = stale /\ writer' = w
        /\ writer = NoOne /\ w \notin stale
        /\ req' = req /\ rec' = rec /\ resp' = resp
        /\ made' = [made EXCEPT ![w] = row]
        /\ pc' = [pc EXCEPT ![w] = "commit"]
        /\ view' = [view EXCEPT ![w] = d]
        /\ d # NoSnapshot
        /\ \A v \in T : pc'[v] = IF v = w THEN "commit" ELSE pc[v]
        /\ \A v \in T : view'[v] = IF v = w THEN d ELSE view[v]
    BY <1>2, SnapshotAssumption
    DEF Execute, CanWrite, Write, ServerInv, TypeOK, StoreTypeOK
  <2>1. TypeOK'
    BY <2>0 DEF ServerInv, TypeOK, StoreTypeOK, Stage
  <2>2. Loaded(T)'
    BY <2>0 DEF ServerInv, Loaded
  <2>3. LockHeld(T)'
    BY <2>0, WorkerAssumption DEF ServerInv, LockHeld
  <2>4. Snapshots(T)'
    BY <2>0 DEF ServerInv, Snapshots, InTransaction
  <2>5. Checked(T)'
    BY <2>0 DEF ServerInv, Checked, BookChecked
  <2>6. Pending(T)' /\ Sound(db)'
    BY <2>0, <1>2 DEF ServerInv, Pending
  <2> QED
    BY <2>1, <2>2, <2>3, <2>4, <2>5, <2>6 DEF ServerInv
<1> QED
  BY <1>1, <1>2 DEF Execute

\* COMMIT, whatever becomes of an upload after it: what was pending is the database, and
\* every snapshot it differs from is out of date.
LEMMA CommitStep ==
    ASSUME NEW T \in SUBSET Worker, ServerInv(T),
           UNCHANGED today, NEW w \in T, CommitWrite(w)
    PROVE  ServerInv(T)'
<1> PICK after \in {"render", "answered"}, beside \in BOOLEAN :
      /\ Commit(w, beside)
      /\ pc[w] = "commit" /\ pc' = [pc EXCEPT ![w] = after]
      /\ resp' = resp \/ resp' = [resp EXCEPT ![w] = 500]
      /\ req' = req /\ rec' = rec /\ made' = made
  <2>1. (made[w] # NoRow \/ Pictured(w)) \in BOOLEAN
    OBVIOUS
  <2> QED
    BY <2>1 DEF CommitWrite
<1>0. /\ pc[w] = "commit" /\ writer = w /\ view[w] # NoSnapshot
      /\ db' = view[w] /\ writer' = NoOne
      /\ stale' = (IF view[w] = db /\ ~ beside THEN stale
                   ELSE {v \in Worker : InTransaction(v)}) \ {w}
      /\ view' = [view EXCEPT ![w] = NoSnapshot]
      /\ \A v \in T : pc'[v] = IF v = w THEN after ELSE pc[v]
      /\ \A v \in T : view'[v] = IF v = w THEN NoSnapshot ELSE view[v]
  BY DEF Commit, ServerInv, TypeOK, StoreTypeOK, LockHeld, Snapshots, InTransaction
<1>1. TypeOK'
  BY <1>0 DEF ServerInv, TypeOK, StoreTypeOK, Stage, Status
<1>2. Loaded(T)'
  BY <1>0 DEF ServerInv, Loaded
<1>3. LockHeld(T)'
  BY <1>0, WorkerAssumption DEF ServerInv, LockHeld
<1>4. Snapshots(T)'
  <2> SUFFICES ASSUME NEW v \in T
               PROVE  /\ InTransaction(v)' <=> pc'[v] \in {"write", "commit"}
                      /\ v \in stale' => pc'[v] = "write"
                      /\ pc'[v] = "write" /\ v \notin stale' => view'[v] = db'
    BY DEF Snapshots
  <2>1. CASE v = w
    BY <1>0, <2>1 DEF InTransaction
  <2>2. CASE v # w
    <3>1. pc'[v] = pc[v] /\ view'[v] = view[v] /\ pc[v] # "commit"
      BY <1>0, <2>2 DEF ServerInv, LockHeld
    <3>2. InTransaction(v)' <=> pc'[v] \in {"write", "commit"}
      BY <3>1 DEF ServerInv, Snapshots, InTransaction
    <3>3. CASE view[w] = db /\ ~ beside
      BY <1>0, <2>2, <3>1, <3>2, <3>3 DEF ServerInv, Snapshots
    <3>4. CASE ~ (view[w] = db /\ ~ beside)
      BY <1>0, <2>2, <3>1, <3>2, <3>4 DEF ServerInv, Snapshots, InTransaction
    <3> QED
      BY <3>3, <3>4
  <2> QED
    BY <2>1, <2>2
<1>5. Checked(T)'
  BY <1>0 DEF ServerInv, Checked, BookChecked
<1>6. Pending(T)'
  BY <1>0 DEF ServerInv, Pending, LockHeld
<1>7. Sound(db)'
  <2>1. Sound(view[w])
    BY <1>0 DEF ServerInv, Pending
  <2> QED
    BY <1>0, <2>1
<1> QED
  BY <1>1, <1>2, <1>3, <1>4, <1>5, <1>6, <1>7 DEF ServerInv
-----------------------------------------------------------------------------
(* Reservations. *)

\* Only a booking request has the op book.
LEMMA BookRequestType ==
    ASSUME NEW r \in Offered, r.op = "book"
    PROVE  r \in BookRequest
BY OfferedAssumption DEF BookRequest, HotelRequest, RoomRequest, SignUpRequest, LoginRequest

\* The days a booking is cast to.
LEMMA DayType ==
    ASSUME NEW t \in DateText
    PROVE  Day(t) \in Nat
BY DEF DateText, Day, Id, Ancient

\* ReservationsController's before_actions.
LEMMA BookAcceptStep ==
    ASSUME NEW T \in SUBSET Worker, ServerInv(T), UNCHANGED today,
           NEW w \in T, BookAccept(w)
    PROVE  ServerInv(T)'
<1> PICK r \in Offered :
      /\ r.op = "book"
      /\ \/ BookFilters(r) # Pass /\ Refuse(w, r, BookFilters(r))
         \/ /\ BookFilters(r) = Pass
            /\ \E room \in db.rooms : room.id = r.room /\ Load(w, r, room)
  BY DEF BookAccept
<1>1. BookFilters(r) \in Status
  BY DEF BookFilters, AuthStatus, ParseDates, ParseError, Pass, Status
<1>2. CASE BookFilters(r) # Pass /\ Refuse(w, r, BookFilters(r))
  BY <1>1, <1>2, RefuseStep
<1>3. ASSUME BookFilters(r) = Pass,
             NEW room \in db.rooms, Load(w, r, room)
      PROVE  ServerInv(T)'
  <2>1. r.as \in Id
    BY <1>3 DEF BookFilters, AuthStatus, Pass, Ids, ServerInv, TypeOK, StoreTypeOK, Database,
                UserRow
  <2>2. room \in RoomRow
    BY DEF ServerInv, TypeOK, StoreTypeOK, Database
  <2> QED
    BY <1>3, <2>1, <2>2, LoadStep
<1> QED
  BY <1>2, <1>3

\* Reservation's validations.
LEMMA BookCheckStep ==
    ASSUME NEW T \in SUBSET Worker, ServerInv(T), NEW w \in T, BookCheck(w)
    PROVE  ServerInv(T)'
<1>1. CASE Reject(w, 422)
  BY <1>1, RejectStep DEF BookCheck, Status
<1>2. CASE BookValid(db, req[w], rec[w]) /\ Proceed(w)
  <2>1. req[w] \in Offered /\ pc[w] = "check" /\ req[w].op = "book"
    BY DEF BookCheck, ServerInv, Loaded
  <2>2. req[w] \in BookRequest
    BY <2>1, BookRequestType
  <2>3. Day(req[w].check_in) \in Nat /\ Day(req[w].check_out) \in Nat
    BY <2>2, DayType DEF BookRequest
  <2>4. /\ Ancient < Day(req[w].check_in)
        /\ Day(req[w].check_in) < Day(req[w].check_out)
    BY <1>2, <2>3 DEF BookValid, CheckDates, Ancient, ServerInv, TypeOK, Id
  <2>5. Available(db, rec[w].id, Day(req[w].check_in), Day(req[w].check_out))
    BY <1>2 DEF BookValid
  <2>6. UNCHANGED today
    BY DEF BookCheck
  <2> QED
    BY <1>2, <2>1, <2>4, <2>5, <2>6, ProceedStep
<1> QED
  BY <1>1, <1>2 DEF BookCheck

\* The row of a booking.
LEMMA BookingType ==
    ASSUME NEW T \in SUBSET Worker, ServerInv(T),
           NEW w \in T, pc[w] = "write", req[w].op = "book"
    PROVE  /\ view[w] \in Database
           /\ Booking(view[w], req[w], rec[w]) \in ReservationRow
<1>1. view[w] \in Database
  BY DEF ServerInv, TypeOK, StoreTypeOK, Snapshots, InTransaction
<1>2. req[w] \in BookRequest /\ req[w].as \in Id /\ rec[w] \in RoomRow
  BY BookRequestType DEF ServerInv, Loaded
<1>3. Day(req[w].check_in) \in Nat /\ Day(req[w].check_out) \in Nat
  BY <1>2, DayType DEF BookRequest
<1>4. view[w].seq.reservations \in Nat
  BY <1>1 DEF Database
<1> QED
  BY <1>1, <1>2, <1>3, <1>4 DEF Booking, ReservationRow, RoomRow, Id

\* INSERT INTO reservations under the write lock: what was checked still holds.
LEMMA BookWriteStep ==
    ASSUME NEW T \in SUBSET Worker, ServerInv(T), NEW w \in T, BookWrite(w)
    PROVE  ServerInv(T)'
<1> DEFINE new == Booking(view[w], req[w], rec[w])
           d   == InsertReservation(view[w], new)
<1>1. pc[w] = "write" /\ req[w].op = "book" /\ UNCHANGED today /\ Execute(w, d, new)
  BY DEF BookWrite
<1>2. view[w] \in Database /\ new \in ReservationRow
  BY <1>1, BookingType
<1>3. /\ new.id = view[w].seq.reservations + 1
      /\ new.room = rec[w].id
      /\ new.check_in = Day(req[w].check_in)
      /\ new.check_out = Day(req[w].check_out)
  BY DEF Booking
<1> HIDE DEF new
<1>4. d \in Database
  BY <1>2, InsertReservationTables
<1>5. ASSUME CanWrite(w), ForeignKeysHold(d)
      PROVE  Sound(d)
  <2>1. view[w] = db /\ Sound(view[w])
    BY <1>1, <1>5 DEF CanWrite, ServerInv, Snapshots
  <2>2. BookChecked(w)
    BY <1>1 DEF ServerInv, Checked
  <2> QED
    BY <1>2, <1>3, <1>5, <2>1, <2>2, BookingSound DEF BookChecked
<1> HIDE DEF d
<1> QED
  BY <1>1, <1>2, <1>4, <1>5, ExecuteStep

\* Every step of a booking.
LEMMA BookStepStep ==
    ASSUME NEW T \in SUBSET Worker, ServerInv(T), NEW w \in T, BookStep(w)
    PROVE  ServerInv(T)'
<1>1. CASE BookRender(w)
  <2>1. (IF rec[w].hotel \in Ids(db.hotels) THEN 201 ELSE 500) \in Status
    BY DEF Status
  <2> QED
    BY <1>1, <2>1, RenderStep DEF BookRender
<1> QED
  BY <1>1, BookCheckStep, BookWriteStep DEF BookStep
-----------------------------------------------------------------------------
(* Hotels. *)

\* A request about a hotel carries a name, unless it destroys.
LEMMA HotelRequestType ==
    ASSUME NEW r \in Offered, r.op \in {"create_hotel", "update_hotel"}
    PROVE  r.name \in Name
BY OfferedAssumption DEF BookRequest, HotelRequest, RoomRequest, SignUpRequest, LoginRequest

\* HotelsController's before_actions.
LEMMA HotelAcceptStep ==
    ASSUME NEW T \in SUBSET Worker, ServerInv(T),
           UNCHANGED today, NEW w \in T, HotelAccept(w)
    PROVE  ServerInv(T)'
<1> PICK r \in Offered :
      /\ r.op \in {"create_hotel", "update_hotel", "destroy_hotel"}
      /\ \/ HotelFilters(r) # Pass /\ Refuse(w, r, HotelFilters(r))
         \/ r.op = "create_hotel" /\ Load(w, r, NoRow)
         \/ \E hotel \in db.hotels : Load(w, r, hotel)
  BY DEF HotelAccept
<1>1. HotelFilters(r) \in Status
  BY DEF HotelFilters, AdminStatus, AuthStatus, Pass, Status
<1>2. CASE HotelFilters(r) # Pass /\ Refuse(w, r, HotelFilters(r))
  BY <1>1, <1>2, RefuseStep
<1>3. CASE r.op = "create_hotel" /\ Load(w, r, NoRow)
  BY <1>3, LoadStep
<1>4. ASSUME NEW hotel \in db.hotels, Load(w, r, hotel)
      PROVE  ServerInv(T)'
  <2>1. hotel \in HotelRow
    BY DEF ServerInv, TypeOK, StoreTypeOK, Database
  <2> QED
    BY <1>4, <2>1, LoadStep
<1> QED
  BY <1>2, <1>3, <1>4

\* Hotel's validations, and the snapshot destroy starts with.
LEMMA HotelCheckStep ==
    ASSUME NEW T \in SUBSET Worker, ServerInv(T), UNCHANGED today, NEW w \in T,
           HotelCreateCheck(w) \/ HotelUpdateCheck(w) \/ HotelDestroyCheck(w)
    PROVE  ServerInv(T)'
<1>1. 400 \in Status /\ 422 \in Status
  BY DEF Status
<1>2. CASE HotelCreateCheck(w)
  BY <1>1, <1>2, RejectStep, ProceedStep DEF HotelCreateCheck
<1>3. CASE HotelUpdateCheck(w)
  BY <1>1, <1>3, RejectStep, ProceedStep, SkipWriteStep DEF HotelUpdateCheck
<1>4. CASE HotelDestroyCheck(w)
  BY <1>4, ProceedStep DEF HotelDestroyCheck
<1> QED
  BY <1>2, <1>3, <1>4

\* INSERT INTO hotels under the write lock.
LEMMA HotelCreateWriteStep ==
    ASSUME NEW T \in SUBSET Worker, ServerInv(T),
           UNCHANGED today, NEW w \in T, HotelCreateWrite(w)
    PROVE  ServerInv(T)'
<1> DEFINE new == [id |-> view[w].seq.hotels + 1, name |-> req[w].name]
           d   == InsertHotel(view[w], new)
<1>1. pc[w] = "write" /\ req[w].op = "create_hotel" /\ Execute(w, d, new)
  BY DEF HotelCreateWrite
<1>2. view[w] \in Database /\ req[w].name \in Name
  BY <1>1, HotelRequestType
  DEF ServerInv, TypeOK, StoreTypeOK, Loaded, Snapshots, InTransaction
<1>3. new \in HotelRow /\ new.id = view[w].seq.hotels + 1 /\ new.name = req[w].name
  BY <1>2 DEF HotelRow, Database, Id
<1> HIDE DEF new
<1>4. d \in Database
  BY <1>2, <1>3, InsertHotelTables
<1>5. ASSUME CanWrite(w), ForeignKeysHold(d)
      PROVE  Sound(d)
  <2>1. Sound(view[w]) /\ NameFree(view[w], new.name, 0)
    BY <1>1, <1>3, <1>5 DEF CanWrite, ServerInv, Snapshots, Checked
  <2> QED
    BY <1>2, <1>3, <1>5, <2>1, InsertHotelSound
<1> HIDE DEF d
<1> QED
  BY <1>1, <1>3, <1>4, <1>5, ExecuteStep

\* UPDATE hotels under the write lock.
LEMMA HotelUpdateWriteStep ==
    ASSUME NEW T \in SUBSET Worker, ServerInv(T),
           UNCHANGED today, NEW w \in T, HotelUpdateWrite(w)
    PROVE  ServerInv(T)'
<1> DEFINE d   == UpdateHotel(view[w], rec[w].id, req[w].name)
           row == IF rec[w].id \in Ids(view[w].hotels)
                  THEN [rec[w] EXCEPT !.name = req[w].name] ELSE NoRow
<1>1. pc[w] = "write" /\ req[w].op = "update_hotel" /\ Execute(w, d, row)
  BY DEF HotelUpdateWrite
<1>2. view[w] \in Database /\ req[w].name \in Name /\ rec[w] \in HotelRow
  BY <1>1, HotelRequestType
  DEF ServerInv, TypeOK, StoreTypeOK, Loaded, Snapshots, InTransaction
<1>3. row \in HotelRow \cup {NoRow}
  BY <1>2 DEF HotelRow
<1>4. d \in Database
  BY <1>2, UpdateHotelTables
<1>5. ASSUME CanWrite(w), ForeignKeysHold(d)
      PROVE  Sound(d)
  <2>1. Sound(view[w]) /\ NameFree(view[w], req[w].name, rec[w].id)
    BY <1>1, <1>5 DEF CanWrite, ServerInv, Snapshots, Checked
  <2> QED
    BY <1>2, <1>5, <2>1, UpdateHotelSound
<1> HIDE DEF d, row
<1> QED
  BY <1>1, <1>3, <1>4, <1>5, ExecuteStep

\* The cascade of Hotel#destroy under the write lock.
LEMMA HotelDestroyWriteStep ==
    ASSUME NEW T \in SUBSET Worker, ServerInv(T),
           UNCHANGED today, NEW w \in T, HotelDestroyWrite(w)
    PROVE  ServerInv(T)'
<1> DEFINE d == DestroyHotel(view[w], rec[w].id)
<1>1. pc[w] = "write" /\ req[w].op = "destroy_hotel" /\ Execute(w, d, NoRow)
  BY DEF HotelDestroyWrite
<1>2. view[w] \in Database
  BY <1>1 DEF ServerInv, TypeOK, StoreTypeOK, Snapshots, InTransaction
<1>3. /\ d \in Database
      /\ d.hotels \subseteq view[w].hotels /\ d.rooms \subseteq view[w].rooms
      /\ d.reservations \subseteq view[w].reservations /\ d.users \subseteq view[w].users
      /\ d.seq = view[w].seq
  BY <1>2, DestroyHotelTables
<1>4. ASSUME CanWrite(w), ForeignKeysHold(d)
      PROVE  Sound(d)
  <2>1. Sound(view[w])
    BY <1>1, <1>4 DEF CanWrite, ServerInv, Snapshots
  <2> HIDE DEF d
  <2> QED
    BY <1>2, <1>3, <1>4, <2>1, RemovalSound
<1> HIDE DEF d
<1> QED
  BY <1>1, <1>3, <1>4, ExecuteStep

\* Every step of a hotel request.
LEMMA HotelStepStep ==
    ASSUME NEW T \in SUBSET Worker, ServerInv(T), NEW w \in T, HotelStep(w)
    PROVE  ServerInv(T)'
<1>1. CASE HotelRender(w)
  <2>1. req[w].op \in DOMAIN HotelStatus => HotelStatus[req[w].op] \in Status
    BY DEF HotelStatus, Status
  <2> QED
    BY <1>1, <2>1, RenderStep DEF HotelRender, HotelStep
<1> QED
  BY <1>1, HotelCheckStep, HotelCreateWriteStep, HotelUpdateWriteStep,
     HotelDestroyWriteStep
  DEF HotelStep
-----------------------------------------------------------------------------
(* Rooms. *)

\* A request about a room carries a number, unless it destroys.
LEMMA RoomRequestType ==
    ASSUME NEW r \in Offered, r.op \in {"create_room", "update_room"}
    PROVE  r.number \in Number /\ (r.op = "create_room" => r.hotel \in Id)
BY OfferedAssumption DEF BookRequest, HotelRequest, RoomRequest, SignUpRequest, LoginRequest

\* RoomsController's before_actions.
LEMMA RoomAcceptStep ==
    ASSUME NEW T \in SUBSET Worker, ServerInv(T),
           UNCHANGED today, NEW w \in T, RoomAccept(w)
    PROVE  ServerInv(T)'
<1> PICK r \in Offered :
      /\ r.op \in {"create_room", "update_room", "destroy_room"}
      /\ \/ RoomFilters(r) # Pass /\ Refuse(w, r, RoomFilters(r))
         \/ r.op = "create_room" /\ Load(w, r, NoRow)
         \/ \E room \in db.rooms : Load(w, r, room)
  BY DEF RoomAccept
<1>1. RoomFilters(r) \in Status
  BY DEF RoomFilters, AdminStatus, AuthStatus, Pass, Status
<1>2. CASE RoomFilters(r) # Pass /\ Refuse(w, r, RoomFilters(r))
  BY <1>1, <1>2, RefuseStep
<1>3. CASE r.op = "create_room" /\ Load(w, r, NoRow)
  BY <1>3, LoadStep
<1>4. ASSUME NEW room \in db.rooms, Load(w, r, room)
      PROVE  ServerInv(T)'
  <2>1. room \in RoomRow
    BY DEF ServerInv, TypeOK, StoreTypeOK, Database
  <2> QED
    BY <1>4, <2>1, LoadStep
<1> QED
  BY <1>2, <1>3, <1>4

\* Room's validations, and the snapshot destroy starts with.
LEMMA RoomCheckStep ==
    ASSUME NEW T \in SUBSET Worker, ServerInv(T), UNCHANGED today, NEW w \in T,
           RoomCreateCheck(w) \/ RoomUpdateCheck(w) \/ RoomDestroyCheck(w)
    PROVE  ServerInv(T)'
<1>1. 400 \in Status /\ 422 \in Status
  BY DEF Status
<1>2. CASE RoomCreateCheck(w)
  BY <1>1, <1>2, RejectStep, ProceedStep DEF RoomCreateCheck, RoomValid
<1>3. CASE RoomUpdateCheck(w)
  BY <1>1, <1>3, RejectStep, ProceedStep, SkipWriteStep DEF RoomUpdateCheck
<1>4. CASE RoomDestroyCheck(w)
  BY <1>4, ProceedStep DEF RoomDestroyCheck
<1> QED
  BY <1>2, <1>3, <1>4

\* INSERT INTO rooms under the write lock.
LEMMA RoomCreateWriteStep ==
    ASSUME NEW T \in SUBSET Worker, ServerInv(T),
           UNCHANGED today, NEW w \in T, RoomCreateWrite(w)
    PROVE  ServerInv(T)'
<1> DEFINE new == [id     |-> view[w].seq.rooms + 1,
                   number |-> req[w].number,
                   hotel  |-> req[w].hotel]
           d   == InsertRoom(view[w], new)
<1>1. pc[w] = "write" /\ req[w].op = "create_room" /\ Execute(w, d, new)
  BY DEF RoomCreateWrite
<1>2. view[w] \in Database /\ req[w].number \in Number /\ req[w].hotel \in Id
  BY <1>1, RoomRequestType
  DEF ServerInv, TypeOK, StoreTypeOK, Loaded, Snapshots, InTransaction
<1>3. new \in RoomRow /\ new.id = view[w].seq.rooms + 1 /\ new.number = req[w].number
  BY <1>2 DEF RoomRow, Database, Id
<1> HIDE DEF new
<1>4. d \in Database
  BY <1>2, <1>3, InsertRoomTables
<1>5. ASSUME CanWrite(w), ForeignKeysHold(d)
      PROVE  Sound(d)
  <2>1. Sound(view[w]) /\ NumberFree(view[w], new.number, 0)
    BY <1>1, <1>3, <1>5 DEF CanWrite, ServerInv, Snapshots, Checked
  <2> QED
    BY <1>2, <1>3, <1>5, <2>1, InsertRoomSound
<1> HIDE DEF d
<1> QED
  BY <1>1, <1>3, <1>4, <1>5, ExecuteStep

\* UPDATE rooms under the write lock.
LEMMA RoomUpdateWriteStep ==
    ASSUME NEW T \in SUBSET Worker, ServerInv(T),
           UNCHANGED today, NEW w \in T, RoomUpdateWrite(w)
    PROVE  ServerInv(T)'
<1> DEFINE d   == UpdateRoom(view[w], rec[w].id, req[w].number)
           row == IF rec[w].id \in Ids(view[w].rooms)
                  THEN [rec[w] EXCEPT !.number = req[w].number] ELSE NoRow
<1>1. pc[w] = "write" /\ req[w].op = "update_room" /\ Execute(w, d, row)
  BY DEF RoomUpdateWrite
<1>2. view[w] \in Database /\ req[w].number \in Number /\ rec[w] \in RoomRow
  BY <1>1, RoomRequestType
  DEF ServerInv, TypeOK, StoreTypeOK, Loaded, Snapshots, InTransaction
<1>3. row \in RoomRow \cup {NoRow}
  BY <1>2 DEF RoomRow
<1>4. d \in Database
  BY <1>2, UpdateRoomTables
<1>5. ASSUME CanWrite(w), ForeignKeysHold(d)
      PROVE  Sound(d)
  <2>1. Sound(view[w]) /\ NumberFree(view[w], req[w].number, rec[w].id)
    BY <1>1, <1>5 DEF CanWrite, ServerInv, Snapshots, Checked
  <2> QED
    BY <1>2, <1>5, <2>1, UpdateRoomSound
<1> HIDE DEF d, row
<1> QED
  BY <1>1, <1>3, <1>4, <1>5, ExecuteStep

\* The cascade of Room#destroy under the write lock.
LEMMA RoomDestroyWriteStep ==
    ASSUME NEW T \in SUBSET Worker, ServerInv(T),
           UNCHANGED today, NEW w \in T, RoomDestroyWrite(w)
    PROVE  ServerInv(T)'
<1> DEFINE d == DestroyRooms(view[w], {rec[w].id})
<1>1. pc[w] = "write" /\ req[w].op = "destroy_room" /\ Execute(w, d, NoRow)
  BY DEF RoomDestroyWrite
<1>2. view[w] \in Database
  BY <1>1 DEF ServerInv, TypeOK, StoreTypeOK, Snapshots, InTransaction
<1>3. /\ d \in Database
      /\ d.hotels \subseteq view[w].hotels /\ d.rooms \subseteq view[w].rooms
      /\ d.reservations \subseteq view[w].reservations /\ d.users \subseteq view[w].users
      /\ d.seq = view[w].seq
  BY <1>2, DestroyRoomsTables
<1>4. ASSUME CanWrite(w), ForeignKeysHold(d)
      PROVE  Sound(d)
  <2>1. Sound(view[w])
    BY <1>1, <1>4 DEF CanWrite, ServerInv, Snapshots
  <2> HIDE DEF d
  <2> QED
    BY <1>2, <1>3, <1>4, <2>1, RemovalSound
<1> HIDE DEF d
<1> QED
  BY <1>1, <1>3, <1>4, ExecuteStep

\* Every step of a room request.
LEMMA RoomStepStep ==
    ASSUME NEW T \in SUBSET Worker, ServerInv(T), NEW w \in T, RoomStep(w)
    PROVE  ServerInv(T)'
<1>1. CASE RoomRender(w)
  <2>1. req[w].op \in DOMAIN RoomStatus => RoomStatus[req[w].op] \in Status
    BY DEF RoomStatus, Status
  <2> QED
    BY <1>1, <2>1, RenderStep DEF RoomRender, RoomStep
<1> QED
  BY <1>1, RoomCheckStep, RoomCreateWriteStep, RoomUpdateWriteStep,
     RoomDestroyWriteStep
  DEF RoomStep
-----------------------------------------------------------------------------
(* Accounts. *)

\* A sign-up carries the columns of its row.
LEMMA SignUpRequestType ==
    ASSUME NEW r \in Offered, r.op = "sign_up"
    PROVE  r \in SignUpRequest
BY OfferedAssumption DEF BookRequest, HotelRequest, RoomRequest, SignUpRequest, LoginRequest

\* A sign-up or a login arrives.
LEMMA AccountAcceptStep ==
    ASSUME NEW T \in SUBSET Worker, ServerInv(T),
           UNCHANGED today, NEW w \in T, SignUpAccept(w) \/ LoginAccept(w)
    PROVE  ServerInv(T)'
<1>1. 400 \in Status /\ 401 \in Status /\ 500 \in Status
  BY DEF Status
<1>2. CASE SignUpAccept(w)
  BY <1>1, <1>2, RefuseStep, LoadStep DEF SignUpAccept
<1>3. CASE LoginAccept(w)
  <2> PICK r \in Offered :
        /\ r.op = "login"
        /\ Refuse(w, r, 401) \/ \E u \in db.users : Load(w, r, u)
    BY <1>3 DEF LoginAccept
  <2>1. ASSUME NEW u \in db.users, Load(w, r, u)
        PROVE  ServerInv(T)'
    <3>1. u \in UserRow
      BY DEF ServerInv, TypeOK, StoreTypeOK, Database
    <3> QED
      BY <2>1, <3>1, LoadStep
  <2> QED
    BY <1>1, <2>1, RefuseStep
<1> QED
  BY <1>2, <1>3

\* INSERT INTO users under the write lock.
LEMMA SignUpWriteStep ==
    ASSUME NEW T \in SUBSET Worker, ServerInv(T),
           UNCHANGED today, NEW w \in T, SignUpWrite(w)
    PROVE  ServerInv(T)'
<1> DEFINE new == Account(view[w], req[w])
           d   == InsertUser(view[w], new)
<1>1. pc[w] = "write" /\ req[w].op = "sign_up" /\ Execute(w, d, new)
  BY DEF SignUpWrite
<1>2. view[w] \in Database /\ req[w] \in SignUpRequest
  BY <1>1, SignUpRequestType
  DEF ServerInv, TypeOK, StoreTypeOK, Loaded, Snapshots, InTransaction
<1>3. /\ new \in UserRow
      /\ new.id = view[w].seq.users + 1 /\ new.username = req[w].username
  BY <1>2 DEF Account, SignUpRequest, UserRow, Database, Id
<1> HIDE DEF new
<1>4. d \in Database
  BY <1>2, <1>3, InsertUserTables
<1>5. ASSUME CanWrite(w), ForeignKeysHold(d)
      PROVE  Sound(d)
  <2>1. Sound(view[w]) /\ UsernameFree(view[w], new.username)
    BY <1>1, <1>3, <1>5 DEF CanWrite, ServerInv, Snapshots, Checked
  <2> QED
    BY <1>2, <1>3, <1>5, <2>1, InsertUserSound
<1> HIDE DEF d
<1> QED
  BY <1>1, <1>3, <1>4, <1>5, ExecuteStep

\* Every step of a sign-up or a login.
LEMMA AccountStepStep ==
    ASSUME NEW T \in SUBSET Worker, ServerInv(T), NEW w \in T, AccountStep(w)
    PROVE  ServerInv(T)'
<1>1. 200 \in Status /\ 201 \in Status /\ 422 \in Status
  BY DEF Status
<1>2. CASE SignUpCheck(w)
  BY <1>1, <1>2, RejectStep, ProceedStep DEF SignUpCheck, AccountStep
<1>3. CASE SignUpWrite(w)
  BY <1>3, SignUpWriteStep DEF AccountStep
<1>4. CASE SignUpRender(w)
  BY <1>1, <1>4, RenderStep DEF SignUpRender, AccountStep
<1>5. CASE LoginRender(w)
  BY <1>1, <1>5, RenderStep DEF LoginRender, AccountStep
<1> QED
  BY <1>2, <1>3, <1>4, <1>5 DEF AccountStep
-----------------------------------------------------------------------------
(* The system. *)

\* The server starts in the invariant.
LEMMA InitServer ==
    ASSUME NEW T \in SUBSET Worker, Init
    PROVE  ServerInv(T)
<1>1. TypeOK
  BY InitialAssumption, DayAssumption
  DEF Init, HandlerInit, TypeOK, StoreTypeOK, Stage, Status
<1>2. Loaded(T) /\ Checked(T) /\ Pending(T)
  BY DEF Init, HandlerInit, Loaded, Checked, Pending
<1>3. LockHeld(T) /\ Snapshots(T)
  BY WorkerAssumption DEF Init, HandlerInit, LockHeld, Snapshots, InTransaction
<1>4. Sound(db)
  BY InitialAssumption DEF Init
<1> QED
  BY <1>1, <1>2, <1>3, <1>4 DEF ServerInv

\* A thread makes a step.
LEMMA ThreadStep ==
    ASSUME NEW T \in SUBSET Worker, ServerInv(T), NEW w \in T,
           Accept(w) \/ Serve(w) \/ Die(w)
    PROVE  ServerInv(T)'
<1>1. CASE Accept(w)
  BY <1>1, BookAcceptStep, HotelAcceptStep, RoomAcceptStep, AccountAcceptStep
  DEF Accept
<1>2. CASE Serve(w)
  BY <1>2, BookStepStep, HotelStepStep, RoomStepStep, AccountStepStep, CommitStep,
     FinishStep
  DEF Serve
<1>3. CASE Die(w)
  BY <1>3, CrashStep DEF Die
<1> QED
  BY <1>1, <1>2, <1>3

\* Nothing but the day changes.
LEMMA DayStep ==
    ASSUME NEW T \in SUBSET Worker, ServerInv(T), UNCHANGED vars, today' \in Id
    PROVE  ServerInv(T)'
<1>0. UNCHANGED <<db, view, stale, writer, pc, req, rec, made, resp>>
  BY DEF vars, storeVars, handlerVars
<1>1. TypeOK'
  BY <1>0 DEF ServerInv, TypeOK, StoreTypeOK
<1>2. Loaded(T)' /\ LockHeld(T)' /\ Snapshots(T)' /\ Pending(T)' /\ Sound(db)'
  BY <1>0 DEF ServerInv, Loaded, LockHeld, Snapshots, InTransaction, Pending
<1>3. Checked(T)'
  BY <1>0 DEF ServerInv, Checked, BookChecked
<1> QED
  BY <1>1, <1>2, <1>3 DEF ServerInv

\* A day passes.
LEMMA MidnightStep ==
    ASSUME NEW T \in SUBSET Worker, ServerInv(T), Midnight
    PROVE  ServerInv(T)'
<1>1. today' \in Id /\ UNCHANGED vars
  BY DEF Midnight, ServerInv, TypeOK, Id
<1> QED
  BY <1>1, DayStep

\* The invariant holds when the server starts.
LEMMA InitIInv == Init => IInv
<1>1. Worker \in SUBSET Worker
  OBVIOUS
<1> QED
  BY <1>1, InitServer DEF IInv

\* No step leaves the invariant.
LEMMA NextIInv == IInv /\ [Next]_allVars => IInv'
<1> SUFFICES ASSUME ServerInv(Worker), [Next]_allVars PROVE ServerInv(Worker)'
  BY DEF IInv
<1>0. Worker \in SUBSET Worker
  OBVIOUS
<1>1. ASSUME NEW w \in Worker, Accept(w) \/ Serve(w) \/ Die(w) PROVE ServerInv(Worker)'
  BY <1>0, <1>1, ThreadStep
<1>2. CASE Midnight
  BY <1>0, <1>2, MidnightStep
<1>3. CASE UNCHANGED allVars
  <2>1. UNCHANGED vars /\ today' \in Id
    BY <1>3 DEF allVars, ServerInv, TypeOK
  <2> QED
    BY <1>0, <2>1, DayStep
<1> QED
  BY <1>1, <1>2, <1>3 DEF Next

\* The lock, the snapshots and the checks hold throughout, for any number of
\* threads, rows, requests and days.
THEOREM Invariance == Spec => []IInv
BY InitIInv, NextIInv, PTL DEF Spec

\* Every variable keeps its type.
THEOREM TypeCorrect == Spec => []TypeOK
<1>1. IInv => TypeOK
  BY DEF IInv, ServerInv
<1> QED
  BY <1>1, Invariance, PTL

\* No two reservations of a room ever share a night.
THEOREM NeverDoubleBooked == Spec => []NoDoubleBooking
<1>1. IInv => NoDoubleBooking
  BY DEF IInv, ServerInv, Sound, NoDoubleBooking
<1> QED
  BY <1>1, Invariance, PTL

\* Every reservation is for at least one night of this age.
THEOREM StaysStayProper == Spec => []StaysAreProper
<1>1. IInv => StaysAreProper
  BY DEF IInv, ServerInv, Sound, StaysAreProper
<1> QED
  BY <1>1, Invariance, PTL

\* Names and numbers stay unique without a unique index.
THEOREM CatalogStaysUnique == Spec => []CatalogUnique
<1>1. IInv => CatalogUnique
  BY DEF IInv, ServerInv, Sound, CatalogUnique
<1> QED
  BY <1>1, Invariance, PTL

\* All that the validations and the keys promise of the tables holds at once, without
\* a constraint of the schema behind the validations.
THEOREM AlwaysSound == Spec => []SoundThroughout
<1>1. IInv => SoundThroughout
  BY DEF IInv, ServerInv, SoundThroughout
<1> QED
  BY <1>1, Invariance, PTL
=============================================================================
