----------------------------- MODULE SeedsProofs ------------------------------
(***************************************************************************)
(* Proofs about Seeds: db/seeds.rb beside any number of threads.           *)
(***************************************************************************)
EXTENDS SeedsInvariant, HotelSystemProofs, SequenceTheorems, WellFoundedInduction

-----------------------------------------------------------------------------
(* The least and the largest. *)

\* Min of a set of numbers is its least one.
LEMMA MinIsLeast ==
    ASSUME NEW S \in SUBSET Nat, S # {}
    PROVE  Min(S) \in S /\ \A y \in S : Min(S) <= y
<1> DEFINE less == {ss \in Nat \X Nat : ss[1] < ss[2]}
<1>1. IsWellFoundedOn(less, Nat)
  BY NatLessThanWellFounded DEF OpToRel
<1>2. \A x, y \in Nat : <<y, x>> \in less <=> y < x
  OBVIOUS
<1> HIDE DEF less
<1>3. \E x \in S : \A y \in S : ~ (<<y, x>> \in less)
  BY <1>1, WFMin, Zenon
<1>4. PICK x \in S : \A y \in S : ~ (<<y, x>> \in less)
  BY <1>3
<1>5. ASSUME NEW y \in S PROVE x <= y
  <2>1. x \in Nat /\ y \in Nat
    OBVIOUS
  <2>2. ~ (y < x)
    BY <1>2, <1>4, <2>1
  <2> QED
    BY <2>1, <2>2
<1> QED
  BY <1>5 DEF Min

\* The first of the records that are left is the one after those made.
LEMMA FirstLeft ==
    ASSUME NEW m \in Nat, NEW n \in Nat, (m + 1)..n # {}
    PROVE  /\ m + 1 <= n
           /\ Min((m + 1)..n) = m + 1
           /\ ((m + 1)..n) \ {Min((m + 1)..n)} = (m + 2)..n
<1>1. (m + 1)..n \in SUBSET Nat /\ m + 1 <= n /\ m + 1 \in (m + 1)..n
  OBVIOUS
<1>2. /\ Min((m + 1)..n) \in (m + 1)..n
      /\ \A y \in (m + 1)..n : Min((m + 1)..n) <= y
  BY <1>1, MinIsLeast
<1>3. Min((m + 1)..n) = m + 1
  BY <1>1, <1>2
<1> QED
  BY <1>1, <1>3

\* The largest id of a table whose ids stay below a bound.
LEMMA LargestId ==
    ASSUME NEW n \in Nat, NEW S \in SUBSET (0..n)
    PROVE  Largest(S) \in Nat /\ \A y \in S : y <= Largest(S)
<1> DEFINE U == S \cup {0}
           gaps == {n - y : y \in U}
<1>1. U \in SUBSET Nat /\ \A y \in U : y \in 0..n
  OBVIOUS
<1>2. gaps \in SUBSET Nat /\ gaps # {}
  <2>1. \A y \in U : n - y \in Nat
    BY <1>1
  <2> QED
    BY <2>1
<1>3. PICK g \in gaps : \A h \in gaps : g <= h
  <2> HIDE DEF gaps
  <2> QED
    BY <1>2, MinIsLeast
<1>4. PICK m \in U : g = n - m
  OBVIOUS
<1>5. ASSUME NEW y \in U PROVE m >= y
  <2>1. n - m <= n - y
    BY <1>3, <1>4
  <2> QED
    BY <1>1, <2>1
<1> HIDE DEF U
<1>6. Max(U) \in U /\ \A y \in U : Max(U) >= y
  BY <1>5 DEF Max
<1>7. Largest(S) \in U /\ \A y \in U : Largest(S) >= y
  BY <1>6 DEF Largest, U
<1>8. ASSUME NEW y \in S PROVE y <= Largest(S)
  <2>1. y \in U
    BY DEF U
  <2> QED
    BY <1>1, <1>7, <2>1
<1> QED
  BY <1>1, <1>7, <1>8

-----------------------------------------------------------------------------
(* Steps of the server, as the seeds see them. *)

\* What a step of one connection may do to the store.
StoreEffect(w) ==
    \/ UNCHANGED storeVars
    \/ BeginRead(w)
    \/ \E d : CanWrite(w) /\ Write(w, d)
    \/ pc[w] = "commit" /\ \E beside \in BOOLEAN : Commit(w, beside)
    \/ Rollback(w)

\* A write statement upgrades the transaction, or ends it.
LEMMA ExecuteEffect ==
    ASSUME NEW w, NEW d, NEW row, Execute(w, d, row)
    PROVE  StoreEffect(w)
BY DEF Execute, Fail, StoreEffect

\* The steps of the request threads.
LEMMA ThreadEffect ==
    ASSUME NEW w, Accept(w) \/ Serve(w) \/ Die(w)
    PROVE  StoreEffect(w)
<1>1. CASE Accept(w)
  BY <1>1 DEF Accept, BookAccept, HotelAccept, RoomAccept, SignUpAccept, LoginAccept,
              Refuse, Load, StoreEffect
<1>2. CASE BookStep(w)
  BY <1>2, ExecuteEffect DEF BookStep, BookCheck, BookWrite, BookRender, Proceed, Reject,
              Render, StoreEffect
<1>3. CASE HotelStep(w)
  <2>1. CASE HotelCreateCheck(w) \/ HotelUpdateCheck(w) \/ HotelDestroyCheck(w)
    BY <2>1 DEF HotelCreateCheck, HotelUpdateCheck, HotelDestroyCheck, Proceed, Reject,
                SkipWrite, StoreEffect
  <2>2. CASE HotelCreateWrite(w) \/ HotelUpdateWrite(w) \/ HotelDestroyWrite(w)
    BY <2>2, ExecuteEffect DEF HotelCreateWrite, HotelUpdateWrite, HotelDestroyWrite
  <2> QED
    BY <1>3, <2>1, <2>2 DEF HotelStep, HotelRender, Render, StoreEffect
<1>4. CASE RoomStep(w)
  <2>1. CASE RoomCreateCheck(w) \/ RoomUpdateCheck(w) \/ RoomDestroyCheck(w)
    BY <2>1 DEF RoomCreateCheck, RoomUpdateCheck, RoomDestroyCheck, Proceed, Reject,
                SkipWrite, StoreEffect
  <2>2. CASE RoomCreateWrite(w) \/ RoomUpdateWrite(w) \/ RoomDestroyWrite(w)
    BY <2>2, ExecuteEffect DEF RoomCreateWrite, RoomUpdateWrite, RoomDestroyWrite
  <2> QED
    BY <1>4, <2>1, <2>2 DEF RoomStep, RoomRender, Render, StoreEffect
<1>5. CASE AccountStep(w)
  BY <1>5, ExecuteEffect DEF AccountStep, SignUpCheck, SignUpWrite, SignUpRender,
              LoginRender, Proceed, Reject, Render, StoreEffect
<1>6. CASE CommitWrite(w) \/ Finish(w)
  <2>1. (made[w] # NoRow \/ Pictured(w)) \in BOOLEAN
    OBVIOUS
  <2> QED
    BY <1>6, <2>1 DEF CommitWrite, Finish, StoreEffect
<1>7. CASE Die(w)
  BY <1>7 DEF Die, Crash, StoreEffect
<1> QED
  BY <1>1, <1>2, <1>3, <1>4, <1>5, <1>6, <1>7 DEF Serve

\* A step of a thread leaves the transaction of the seeds alone, and what it commits
\* supersedes their snapshot.  While the seeds are the writer nobody commits.
LEMMA EffectOnSeeds ==
    ASSUME SeedsInv, NEW w \in Threads, StoreEffect(w)
    PROVE  /\ view'[Seeder] = view[Seeder]
           /\ writer' = Seeder <=> writer = Seeder
           /\ writer = Seeder => db' = db /\ stale' \subseteq stale
           /\ Seeder \in stale => Seeder \in stale'
           /\ Seeder \in stale' => Seeder \in stale \/ InTransaction(Seeder)
           /\ InTransaction(Seeder) /\ Seeder \notin stale' => db' = db
<1>0. /\ Seeder \in Worker /\ w \in Worker /\ w # Seeder /\ NoOne # Seeder
      /\ view \in [Worker -> Database \cup {NoSnapshot}]
      /\ stale \subseteq Worker
      /\ pc[w] = "commit" => writer = w
      /\ Seeder \in stale => InTransaction(Seeder)
  BY SeederAssumption, WorkerAssumption
  DEF Threads, SeedsInv, OwnTransaction, ServerInv, TypeOK, StoreTypeOK, LockHeld
<1>1. CASE UNCHANGED storeVars
  BY <1>1 DEF storeVars
<1>2. CASE BeginRead(w)
  BY <1>0, <1>2 DEF BeginRead
<1>3. ASSUME NEW d, CanWrite(w), Write(w, d)
      PROVE  /\ view'[Seeder] = view[Seeder] /\ writer' = w /\ writer = NoOne
             /\ db' = db /\ stale' = stale
  BY <1>0, <1>3 DEF CanWrite, Write
<1>4. ASSUME pc[w] = "commit", NEW beside \in BOOLEAN, Commit(w, beside)
      PROVE  /\ view'[Seeder] = view[Seeder] /\ writer = w /\ writer' = NoOne
             /\ Seeder \in stale => Seeder \in stale'
             /\ Seeder \in stale' => Seeder \in stale \/ InTransaction(Seeder)
             /\ InTransaction(Seeder) /\ Seeder \notin stale' => db' = db
  BY <1>0, <1>4 DEF Commit, InTransaction
<1>5. CASE Rollback(w)
  BY <1>0, <1>5 DEF Rollback
<1> QED
  BY <1>0, <1>1, <1>2, <1>3, <1>4, <1>5 DEF StoreEffect

-----------------------------------------------------------------------------
(* Steps of the seeds, as the server sees them. *)

\* What the seeds do to the store keeps the invariant of the threads, as long as it
\* leaves their transactions alone and tells them of what it commits.
LEMMA ServerKept ==
    ASSUME SeedsInv, UNCHANGED <<handlerVars, today>>,
           StoreTypeOK', Sound(db)',
           \A v \in Threads :
              /\ view'[v] = view[v]
              /\ writer' = v <=> writer = v
              /\ v \in stale' => pc[v] = "write"
              /\ pc[v] = "write" /\ v \notin stale' => v \notin stale /\ db' = db
    PROVE  ServerInv(Threads)'
<1>0. /\ pc' = pc /\ req' = req /\ rec' = rec /\ made' = made /\ resp' = resp
      /\ today' = today
  BY DEF handlerVars
<1>1. TypeOK'
  BY <1>0 DEF SeedsInv, ServerInv, TypeOK
<1>2. Loaded(Threads)'
  BY <1>0 DEF SeedsInv, ServerInv, Loaded
<1>3. LockHeld(Threads)'
  BY <1>0 DEF SeedsInv, ServerInv, LockHeld
<1>4. Snapshots(Threads)'
  BY <1>0 DEF SeedsInv, ServerInv, Snapshots, InTransaction
<1>5. Checked(Threads)'
  BY <1>0 DEF SeedsInv, ServerInv, Checked, BookChecked
<1>6. Pending(Threads)'
  BY <1>0 DEF SeedsInv, ServerInv, Pending
<1> QED
  BY <1>1, <1>2, <1>3, <1>4, <1>5, <1>6 DEF ServerInv

\* The seeds leave a transaction, or are in none.
LEMMA RollbackKept ==
    ASSUME SeedsInv, UNCHANGED <<handlerVars, today>>, Rollback(Seeder)
    PROVE  ServerInv(Threads)'
<1>0. /\ Seeder \in Worker /\ Seeder \notin Threads /\ Threads \subseteq Worker
      /\ NoOne \notin Worker
      /\ StoreTypeOK /\ LockHeld(Threads) /\ Snapshots(Threads) /\ Sound(db)
  BY SeederAssumption, WorkerAssumption DEF Threads, SeedsInv, ServerInv, TypeOK
<1>1. StoreTypeOK' /\ db' = db
  BY <1>0 DEF Rollback, StoreTypeOK
<1>2. ASSUME NEW v \in Threads
      PROVE  /\ view'[v] = view[v]
             /\ writer' = v <=> writer = v
             /\ v \in stale' <=> v \in stale
  BY <1>0 DEF Rollback, StoreTypeOK
<1>3. \A v \in Threads : v \in stale => pc[v] = "write"
  BY <1>0 DEF Snapshots
<1> QED
  BY <1>0, <1>1, <1>2, <1>3, ServerKept

\* A snapshot is taken, or written to.
LEMMA ReadWriteKept ==
    ASSUME SeedsInv, UNCHANGED <<handlerVars, today>>,
           \/ BeginRead(Seeder)
           \/ \E d \in Database : CanWrite(Seeder) /\ Write(Seeder, d)
    PROVE  ServerInv(Threads)'
<1>0. /\ Seeder \in Worker /\ Seeder \notin Threads /\ Threads \subseteq Worker
      /\ NoOne \notin Worker
      /\ StoreTypeOK /\ LockHeld(Threads) /\ Snapshots(Threads) /\ Sound(db)
  BY SeederAssumption, WorkerAssumption DEF Threads, SeedsInv, ServerInv, TypeOK
<1>1. StoreTypeOK' /\ db' = db /\ stale' = stale
  BY <1>0 DEF BeginRead, Write, StoreTypeOK
<1>2. ASSUME NEW v \in Threads
      PROVE  view'[v] = view[v] /\ (writer' = v <=> writer = v)
  BY <1>0 DEF BeginRead, CanWrite, Write, StoreTypeOK
<1>3. \A v \in Threads : v \in stale => pc[v] = "write"
  BY <1>0 DEF Snapshots
<1> QED
  BY <1>0, <1>1, <1>2, <1>3, ServerKept

\* The seeds commit, in a transaction or outside one: every snapshot that is not of what
\* they commit is superseded.
LEMMA CommitKept ==
    ASSUME SeedsInv, UNCHANGED <<handlerVars, today>>,
           StoreTypeOK', Sound(db)', writer' = NoOne,
           \A v \in Threads : writer # v /\ view'[v] = view[v],
           \A v \in Threads : v \in stale' => v \in stale \/ InTransaction(v),
           \A v \in Threads : v \notin stale' /\ InTransaction(v) => v \notin stale /\ db' = db
    PROVE  ServerInv(Threads)'
<1>0. NoOne \notin Threads /\ LockHeld(Threads) /\ Snapshots(Threads)
  BY WorkerAssumption DEF Threads, SeedsInv, ServerInv
<1>1. ASSUME NEW v \in Threads
      PROVE  /\ v \in stale' => pc[v] = "write"
             /\ pc[v] = "write" /\ v \notin stale' => v \notin stale /\ db' = db
             /\ writer' = v <=> writer = v
  BY <1>0 DEF LockHeld, Snapshots
<1> QED
  BY <1>1, ServerKept
-----------------------------------------------------------------------------
(* What the statements of the script make of a database. *)

\* The lines and their tables.
LEMMA ClearLines == \A l \in DOMAIN Clears : Clears[l] \in Tables /\ ClearedAt[Clears[l]] = l
BY DEF Clears, Tables, ClearedAt

LEMMA ResetLines == \A l \in DOMAIN Resets : Resets[l] \in Tables /\ ResetAt[Resets[l]] = l
BY DEF Resets, Tables, ResetAt

LEMMA FillLines == \A l \in DOMAIN Fills : Fills[l] \in Tables /\ FilledAt[Fills[l]] = l
BY DEF Fills, Tables, FilledAt

\* Each statement is of one kind.
LEMMA LineKinds ==
    /\ DOMAIN Clears = {4, 5, 6, 7}
    /\ DOMAIN Resets = {10, 11, 12, 13}
    /\ DOMAIN Fills = {16, 33, 41, 51}
BY DEF Clears, Resets, Fills

\* Destroying a record takes rows away, its own among them.
LEMMA DestroyedTables ==
    ASSUME NEW d \in Database, NEW table \in Tables, NEW id
    PROVE  LET e == Destroyed(d, table, id)
           IN  /\ e \in Database
               /\ e.hotels \subseteq d.hotels /\ e.rooms \subseteq d.rooms
               /\ e.users \subseteq d.users /\ e.reservations \subseteq d.reservations
               /\ e.seq = d.seq
               /\ \A row \in e[table] : row.id # id
<1>1. CASE table = "users"
  <2>1. Destroyed(d, table, id) = DestroyUser(d, id)
    BY <1>1 DEF Destroyed
  <2> DEFINE e == DestroyUser(d, id)
  <2>2. /\ e.hotels = d.hotels /\ e.rooms = d.rooms /\ e.seq = d.seq
        /\ e.users = {u \in d.users : u.id # id}
        /\ e.reservations = {r \in d.reservations : r.user # id}
    BY DEF DestroyUser, Database
  <2>3. e \in Database
    BY DEF DestroyUser, Database
  <2> HIDE DEF e
  <2>4. \A row \in e[table] : row.id # id
    BY <1>1, <2>2
  <2> QED
    BY <2>1, <2>2, <2>3, <2>4 DEF e
<1>2. CASE table = "hotels"
  <2>1. Destroyed(d, table, id) = DestroyHotel(d, id)
    BY <1>2 DEF Destroyed
  <2> QED
    BY <1>2, <2>1, DestroyHotelTables
<1>3. CASE table = "rooms"
  <2>1. Destroyed(d, table, id) = DestroyRooms(d, {id})
    BY <1>3 DEF Destroyed
  <2> QED
    BY <1>3, <2>1, DestroyRoomsTables
<1>4. CASE table = "reservations"
  <2>1. Destroyed(d, table, id) = [d EXCEPT !.reservations = {r \in @ : r.id # id}]
    BY <1>4 DEF Destroyed
  <2> QED
    BY <1>4, <2>1 DEF Database
<1> QED
  BY <1>1, <1>2, <1>3, <1>4 DEF Tables

\* Which record comes next.
LEMMA NextRecord ==
    ASSUME SeedsInv, line \in DOMAIN Fills, stage # "load", left # {}
    PROVE  /\ Min(left) \in 1..Records[Fills[line]]
           /\ Fills[line] # "reservations" =>
                 /\ Min(left) = Len(held[Fills[line]]) + 1
                 /\ left \ {Min(left)} = (Len(held[Fills[line]]) + 2)..Records[Fills[line]]
           /\ left \ {Min(left)} \subseteq left
<1> DEFINE t == Fills[line]
<1>1. t \in Tables /\ Filling(t)
  BY FillLines DEF Filling
<1>2. CASE t = "reservations"
  <2>1. left \subseteq 1..2 /\ Records[t] = 2
    BY <1>1, <1>2 DEF SeedsInv, ArraysFilled, Records
  <2>2. left \in SUBSET Nat
    BY <2>1
  <2>3. Min(left) \in left
    BY <2>2, MinIsLeast
  <2> QED
    BY <1>2, <2>1, <2>3
<1>3. CASE t # "reservations"
  <2>1. t \in {"users", "hotels", "rooms"}
    BY <1>1, <1>3 DEF Tables
  <2>2. /\ Len(held[t]) \in Nat /\ Records[t] \in Nat
        /\ left = (Len(held[t]) + 1)..Records[t]
    BY <1>1, <2>1 DEF SeedsInv, ArraysFilled, Records
  <2> HIDE DEF t
  <2>3. /\ Len(held[t]) + 1 <= Records[t]
        /\ Min(left) = Len(held[t]) + 1
        /\ left \ {Min(left)} = (Len(held[t]) + 2)..Records[t]
    BY <2>2, FirstLeft
  <2> QED
    BY <2>2, <2>3 DEF t
<1> QED
  BY <1>2, <1>3

\* Each record is a row with the next id.
LEMMA SeedRows ==
    ASSUME SeedsInv, line \in DOMAIN Fills, stage # "load", left # {},
           NEW d \in Database
    PROVE  /\ Fills[line] = "users" => UserSeed(d, Min(left)) \in UserRow
           /\ Fills[line] = "hotels" => HotelSeed(d, Min(left)) \in HotelRow
           /\ Fills[line] = "rooms" => RoomSeed(d, Min(left)) \in RoomRow
           /\ Fills[line] = "reservations" =>
                 /\ StaySeed(d, Min(left)) \in ReservationRow
                 /\ StaySeed(d, Min(left)).check_in < StaySeed(d, Min(left)).check_out
<1> DEFINE i == Min(left)
<1>0. /\ i \in 1..Records[Fills[line]]
      /\ d.seq \in [hotels: Nat, rooms: Nat, users: Nat, reservations: Nat]
      /\ held \in [users : Seq(Id), hotels : Seq(Id), rooms : Seq(Id)]
      /\ day \in Nat
  BY NextRecord DEF Database, SeedsInv, ArraysFilled, Staged
<1> HIDE DEF i
<1>1. CASE Fills[line] = "users"
  <2>1. UserSeeds[i] \in Username /\ SeedPassword \in Password
    BY <1>0, <1>1, SeedsAssumption DEF Records
  <2>2. UserSeed(d, i) \in UserRow
    BY <1>0, <2>1 DEF UserSeed, UserRow, Id
  <2> QED
    BY <1>1, <2>2 DEF i
<1>2. CASE Fills[line] = "hotels"
  <2>1. HotelSeeds[i] \in Name
    BY <1>0, <1>2, SeedsAssumption DEF Records
  <2>2. HotelSeed(d, i) \in HotelRow
    BY <1>0, <2>1 DEF HotelSeed, HotelRow, Id
  <2> QED
    BY <1>2, <2>2 DEF i
<1>3. CASE Fills[line] = "rooms"
  <2>1. RoomSeeds[i] \in Number /\ i \in {1, 2, 3, 4}
    BY <1>0, <1>3, SeedsAssumption DEF Records
  <2>2. Filled("hotels")
    BY <1>3, FillLines DEF Filled, FilledAt
  <2>3. Len(held.hotels) = 2
    BY <2>2 DEF SeedsInv, ArraysFilled, Records
  <2>4. (i + 1) \div 2 \in {1, 2}
    BY <2>1
  <2>5. held.hotels[(i + 1) \div 2] \in Id
    BY <1>0, <2>3, <2>4
  <2>6. RoomSeed(d, i) \in RoomRow
    BY <1>0, <2>1, <2>5 DEF RoomSeed, RoomRow, Id
  <2> QED
    BY <1>3, <2>6 DEF i
<1>4. CASE Fills[line] = "reservations"
  <2>1. i \in {1, 2}
    BY <1>0, <1>4 DEF Records
  <2>2. Filled("users") /\ Filled("rooms")
    BY <1>4, FillLines DEF Filled, FilledAt
  <2>3. Len(held.users) = 3 /\ Len(held.rooms) = 4
    BY <2>2 DEF SeedsInv, ArraysFilled, Records
  <2>4. i + 1 \in 1..3 /\ 2 * i - 1 \in 1..4
    BY <2>1
  <2>5. held.users \in Seq(Id) /\ held.rooms \in Seq(Id)
    BY <1>0
  <2>6. held.users[i + 1] \in Id /\ held.rooms[2 * i - 1] \in Id
    BY <2>3, <2>4, <2>5
  <2>7. /\ day + i - 1 \in Nat /\ day + i + 2 \in Nat /\ day + i - 1 < day + i + 2
        /\ d.seq.reservations + 1 \in Id
    BY <1>0, <2>1 DEF Id
  <2>8. StaySeed(d, i) \in ReservationRow
    BY <2>6, <2>7 DEF StaySeed, ReservationRow
  <2>9. StaySeed(d, i).check_in < StaySeed(d, i).check_out
    BY <2>7 DEF StaySeed
  <2> QED
    BY <1>4, <2>8, <2>9 DEF i
<1> QED
  BY <1>1, <1>2, <1>3, <1>4, FillLines DEF Tables

\* A record that passed its validations goes in soundly.
LEMMA InsertedSound ==
    ASSUME SeedsInv, line \in DOMAIN Fills, stage # "load", left # {},
           NEW d \in Database
    PROVE  LET e == Inserted(d, Fills[line], Min(left))
           IN  /\ e \in Database
               /\ e.seq[Fills[line]] = d.seq[Fills[line]] + 1
               /\ Sound(d) /\ SeedChecked(d, Fills[line], Min(left)) /\ ForeignKeysHold(e)
                    => Sound(e)
<1> DEFINE i == Min(left)
<1>1. CASE Fills[line] = "users"
  <2> DEFINE row == UserSeed(d, i)
  <2>1. row \in UserRow
    BY <1>1, SeedRows
  <2>2. row.id = d.seq.users + 1 /\ row.username = UserSeeds[i]
    BY DEF UserSeed
  <2>3. Inserted(d, Fills[line], i) = InsertUser(d, row)
    BY <1>1 DEF Inserted
  <2>4. SeedChecked(d, Fills[line], i) => UsernameFree(d, UserSeeds[i])
    BY <1>1 DEF SeedChecked
  <2> HIDE DEF row, i
  <2>5. InsertUser(d, row) \in Database /\ InsertUser(d, row).seq.users = row.id
    BY <2>1, InsertUserTables
  <2>6. Sound(d) /\ UsernameFree(d, UserSeeds[i]) /\ ForeignKeysHold(InsertUser(d, row))
          => Sound(InsertUser(d, row))
    BY <2>1, <2>2, InsertUserSound
  <2> QED
    BY <1>1, <2>2, <2>3, <2>4, <2>5, <2>6 DEF i
<1>2. CASE Fills[line] = "hotels"
  <2> DEFINE row == HotelSeed(d, i)
  <2>1. row \in HotelRow
    BY <1>2, SeedRows
  <2>2. row.id = d.seq.hotels + 1 /\ row.name = HotelSeeds[i]
    BY DEF HotelSeed
  <2>3. Inserted(d, Fills[line], i) = InsertHotel(d, row)
    BY <1>2 DEF Inserted
  <2>4. SeedChecked(d, Fills[line], i) => NameFree(d, HotelSeeds[i], 0)
    BY <1>2 DEF SeedChecked
  <2> HIDE DEF row, i
  <2>5. InsertHotel(d, row) \in Database /\ InsertHotel(d, row).seq.hotels = row.id
    BY <2>1, InsertHotelTables
  <2>6. Sound(d) /\ NameFree(d, HotelSeeds[i], 0) /\ ForeignKeysHold(InsertHotel(d, row))
          => Sound(InsertHotel(d, row))
    BY <2>1, <2>2, InsertHotelSound
  <2> QED
    BY <1>2, <2>2, <2>3, <2>4, <2>5, <2>6 DEF i
<1>3. CASE Fills[line] = "rooms"
  <2> DEFINE row == RoomSeed(d, i)
  <2>1. row \in RoomRow
    BY <1>3, SeedRows
  <2>2. row.id = d.seq.rooms + 1 /\ row.number = RoomSeeds[i]
    BY DEF RoomSeed
  <2>3. Inserted(d, Fills[line], i) = InsertRoom(d, row)
    BY <1>3 DEF Inserted
  <2>4. SeedChecked(d, Fills[line], i) => NumberFree(d, RoomSeeds[i], 0)
    BY <1>3 DEF SeedChecked
  <2> HIDE DEF row, i
  <2>5. InsertRoom(d, row) \in Database /\ InsertRoom(d, row).seq.rooms = row.id
    BY <2>1, InsertRoomTables
  <2>6. Sound(d) /\ NumberFree(d, RoomSeeds[i], 0) /\ ForeignKeysHold(InsertRoom(d, row))
          => Sound(InsertRoom(d, row))
    BY <2>1, <2>2, InsertRoomSound
  <2> QED
    BY <1>3, <2>2, <2>3, <2>4, <2>5, <2>6 DEF i
<1>4. CASE Fills[line] = "reservations"
  <2> DEFINE row == StaySeed(d, i)
  <2>1. row \in ReservationRow /\ row.check_in < row.check_out
    BY <1>4, SeedRows
  <2>2. row.id = d.seq.reservations + 1
    BY DEF StaySeed
  <2>3. Inserted(d, Fills[line], i) = InsertReservation(d, row)
    BY <1>4 DEF Inserted
  <2>4. SeedChecked(d, Fills[line], i) =>
           /\ Ancient < row.check_in
           /\ Available(d, row.room, row.check_in, row.check_out)
    BY <1>4 DEF SeedChecked
  <2> HIDE DEF row, i
  <2>5. /\ InsertReservation(d, row) \in Database
        /\ InsertReservation(d, row).seq.reservations = row.id
    BY <2>1, InsertReservationTables
  <2>6. (/\ Sound(d) /\ Ancient < row.check_in
         /\ Available(d, row.room, row.check_in, row.check_out)
         /\ ForeignKeysHold(InsertReservation(d, row)))
            => Sound(InsertReservation(d, row))
    BY <2>1, <2>2, BookingSound
  <2> QED
    BY <1>4, <2>2, <2>3, <2>4, <2>5, <2>6 DEF i
<1> QED
  BY <1>1, <1>2, <1>3, <1>4, FillLines DEF Tables

\* What validates a record is true of the snapshot whatever day it becomes.
LEMMA ValidIsChecked ==
    ASSUME SeedsInv, line \in DOMAIN Fills, stage # "load", left # {},
           SeedValid(db, Fills[line], Min(left))
    PROVE  SeedChecked(db, Fills[line], Min(left))
<1> DEFINE i == Min(left)
<1>1. CASE Fills[line] = "users"
  BY <1>1 DEF SeedValid, SeedChecked
<1>2. CASE Fills[line] = "hotels"
  BY <1>2 DEF SeedValid, SeedChecked
<1>3. CASE Fills[line] = "rooms"
  BY <1>3 DEF SeedValid, SeedChecked
<1>4. CASE Fills[line] = "reservations"
  <2> DEFINE row == StaySeed(db, i)
  <2>1. db \in Database /\ today \in Nat /\ today > 0
    BY DEF SeedsInv, ServerInv, TypeOK, StoreTypeOK, Id
  <2>2. row \in ReservationRow
    BY <1>4, <2>1, SeedRows
  <2>3. /\ CheckDates(row.check_in, row.check_out, today)
        /\ Available(db, row.room, row.check_in, row.check_out)
    BY <1>4 DEF SeedValid
  <2> HIDE DEF row
  <2>4. Ancient < row.check_in
    BY <2>1, <2>2, <2>3 DEF CheckDates, Ancient, ReservationRow
  <2> QED
    BY <1>4, <2>3, <2>4 DEF SeedChecked, row
<1> QED
  BY <1>1, <1>2, <1>3, <1>4, FillLines DEF Tables

\* The record under way, destroyed or made, leaves a sound database.
LEMMA ChangedSound ==
    ASSUME SeedsInv, line \in DOMAIN Clears \cup DOMAIN Fills, stage # "load", left # {},
           NEW d \in Database
    PROVE  /\ Changed(d) \in Database
           /\ (/\ Sound(d) /\ ForeignKeysHold(Changed(d))
               /\ line \in DOMAIN Fills => SeedChecked(d, Fills[line], Min(left)))
                 => Sound(Changed(d))
<1>1. CASE line \in DOMAIN Clears
  <2> DEFINE e == Destroyed(d, Clears[line], Min(left))
  <2>1. Changed(d) = e
    BY <1>1 DEF Changed
  <2>2. /\ e \in Database
        /\ e.hotels \subseteq d.hotels /\ e.rooms \subseteq d.rooms
        /\ e.users \subseteq d.users /\ e.reservations \subseteq d.reservations
        /\ e.seq = d.seq
    BY <1>1, ClearLines, DestroyedTables
  <2> HIDE DEF e
  <2> QED
    BY <2>1, <2>2, RemovalSound
<1>2. CASE line \notin DOMAIN Clears
  <2>1. line \in DOMAIN Fills /\ Changed(d) = Inserted(d, Fills[line], Min(left))
    BY <1>2 DEF Changed
  <2> QED
    BY <2>1, InsertedSound
<1> QED
  BY <1>1, <1>2

\* Ids may start over after the largest id that is left.
LEMMA StartedOverSound ==
    ASSUME NEW d \in Database, Sound(d), NEW table \in Tables
    PROVE  /\ StartedOver(d, table) \in Database
           /\ Sound(StartedOver(d, table))
           /\ \A t \in Tables : StartedOver(d, table)[t] = d[t]
           /\ \A t \in Tables : StartedOver(d, table).seq[t] =
                  IF t = table THEN Largest(Ids(d[table])) ELSE d.seq[t]
<1> DEFINE n == Largest(Ids(d[table]))
           e == StartedOver(d, table)
<1>1. d.seq[table] \in Nat /\ KeysUnique(d[table], d.seq[table])
  BY DEF Tables, Sound, PrimaryKeys, Database
<1>2. \A row \in d[table] : row.id \in Nat
  BY DEF Tables, Database, HotelRow, RoomRow, UserRow, ReservationRow, Id
<1>3. Ids(d[table]) \in SUBSET (0..d.seq[table])
  BY <1>1, <1>2 DEF Ids, KeysUnique
<1>4. n \in Nat /\ \A y \in Ids(d[table]) : y <= n
  BY <1>1, <1>3, LargestId
<1>5. KeysUnique(d[table], n)
  BY <1>1, <1>4 DEF KeysUnique, Ids
<1> HIDE DEF n
<1>6. e = [d EXCEPT !.seq[table] = n]
  BY DEF StartedOver, n
<1> HIDE DEF e
<1>7. /\ e \in Database
      /\ e.hotels = d.hotels /\ e.rooms = d.rooms
      /\ e.users = d.users /\ e.reservations = d.reservations
      /\ \A t \in Tables : e.seq[t] = IF t = table THEN n ELSE d.seq[t]
  BY <1>4, <1>6 DEF Database, Tables
<1>8. \A t \in Tables : e[t] = d[t]
  BY <1>7 DEF Tables
<1>9. PrimaryKeys(e)
  BY <1>5, <1>7 DEF Tables, Sound, PrimaryKeys
<1>10. ForeignKeysHold(e) /\ LabelsUnique(e) /\ ProperStays(e) /\ NoSharedNight(e)
  BY <1>7 DEF Sound, ForeignKeysHold, LabelsUnique, ProperStays, NoSharedNight
<1> QED
  BY <1>7, <1>8, <1>9, <1>10 DEF Sound, e, n
-----------------------------------------------------------------------------
(* The steps of the script. *)

\* The statements run in the order of their lines.
LEMMA NextLine ==
    ASSUME NEW l \in Statement
    PROVE  /\ Following[l] \in Statement \cup {58}
           /\ l < Following[l]
           /\ \A t \in Tables :
                 /\ l < ClearedAt[t] => Following[l] <= ClearedAt[t]
                 /\ l <= ResetAt[t] /\ ResetAt[t] < Following[l] => l = ResetAt[t]
                 /\ l < FilledAt[t] => Following[l] <= FilledAt[t]
<1>1. /\ Following[4] = 5 /\ Following[5] = 6 /\ Following[6] = 7 /\ Following[7] = 10
      /\ Following[10] = 11 /\ Following[11] = 12 /\ Following[12] = 13
      /\ Following[13] = 16 /\ Following[16] = 27 /\ Following[27] = 29
      /\ Following[29] = 33 /\ Following[33] = 41 /\ Following[41] = 51
      /\ Following[51] = 58
  BY DEF Following, Statement
<1>2. Following[l] \in Statement \cup {58} /\ l < Following[l]
  BY <1>1 DEF Statement
<1>3. ASSUME NEW t \in Tables
      PROVE  /\ l < ClearedAt[t] => Following[l] <= ClearedAt[t]
             /\ l <= ResetAt[t] /\ ResetAt[t] < Following[l] => l = ResetAt[t]
             /\ l < FilledAt[t] => Following[l] <= FilledAt[t]
  <2>1. CASE t = "users"
    BY <1>1, <2>1 DEF Statement, ClearedAt, ResetAt, FilledAt
  <2>2. CASE t = "hotels"
    BY <1>1, <2>2 DEF Statement, ClearedAt, ResetAt, FilledAt
  <2>3. CASE t = "rooms"
    BY <1>1, <2>3 DEF Statement, ClearedAt, ResetAt, FilledAt
  <2>4. CASE t = "reservations"
    BY <1>1, <2>4 DEF Statement, ClearedAt, ResetAt, FilledAt
  <2> QED
    BY <2>1, <2>2, <2>3, <2>4 DEF Tables
<1> QED
  BY <1>2, <1>3

\* No statement has two of the three tasks, and no other line has one.
LEMMA TaskLines ==
    /\ DOMAIN Clears \subseteq Statement /\ DOMAIN Fills \subseteq Statement
    /\ DOMAIN Resets \subseteq Statement /\ {27, 29} \subseteq Statement
    /\ DOMAIN Clears \cap DOMAIN Fills = {} /\ DOMAIN Resets \cap DOMAIN Fills = {}
    /\ DOMAIN Resets \cap DOMAIN Clears = {} /\ {27, 29} \cap DOMAIN Fills = {}
    /\ {27, 29} \cap DOMAIN Clears = {}
    /\ \A t \in Tables : FilledAt[t] \in DOMAIN Fills /\ Fills[FilledAt[t]] = t
    /\ 0 \notin Statement /\ 58 \notin Statement
BY LineKinds DEF Statement, Tables, FilledAt, Fills

\* The script stands at a statement while it runs.
LEMMA AtStatement ==
    ASSUME SeedsInv
    PROVE  /\ Running <=> line \in Statement
           /\ stage # "load" => Running
BY TaskLines DEF SeedsInv, Staged, Running

\* The process ends.
LEMMA StopStep == ASSUME SeedsInv, Stop PROVE SeedsInv'
<1>0. /\ line' = 0 /\ stage' = "load" /\ left' = {} /\ held' = Nothing /\ day' = 0
      /\ runs' = runs /\ alone' = alone
      /\ Rollback(Seeder) /\ UNCHANGED <<handlerVars, today>>
  BY DEF Stop, Forgotten
<1>1. ServerInv(Threads)'
  BY <1>0, RollbackKept
<1>2. Staged'
  BY <1>0 DEF SeedsInv, Staged
<1>3. ArraysFilled'
  BY <1>0 DEF ArraysFilled, Nothing, NotYet, Filling, Filled, FilledAt
<1>4. OwnTransaction'
  <2>1. /\ Seeder \in Worker /\ NoOne # Seeder
        /\ view \in [Worker -> Database \cup {NoSnapshot}]
    BY SeederAssumption, WorkerAssumption DEF SeedsInv, ServerInv, TypeOK, StoreTypeOK
  <2>2. view'[Seeder] = NoSnapshot /\ writer' # Seeder /\ Seeder \notin stale'
    BY <1>0, <2>1 DEF Rollback
  <2> QED
    BY <1>0, <2>2 DEF OwnTransaction, InTransaction
<1> QED
  BY <1>1, <1>2, <1>3, <1>4 DEF SeedsInv

\* rails db:seed.
LEMMA StartStep == ASSUME SeedsInv, Start PROVE SeedsInv'
<1>0. /\ ~ Running /\ runs < MaxRuns
      /\ line' = 4 /\ stage' = "load" /\ left' = {} /\ held' = Nothing /\ day' = 0
      /\ runs' = runs + 1 /\ alone' = TRUE
      /\ UNCHANGED vars /\ today' = today
      /\ db' = db /\ view' = view /\ stale' = stale /\ writer' = writer
  BY DEF Start, Forgotten, vars, storeVars
<1>1. ServerInv(Threads)'
  <2>1. Threads \in SUBSET Worker /\ today' \in Id
    BY <1>0 DEF Threads, SeedsInv, ServerInv, TypeOK
  <2> QED
    BY <1>0, <2>1, DayStep DEF SeedsInv
<1>2. Staged'
  BY <1>0, SeedsAssumption DEF SeedsInv, Staged, Statement
<1>3. ArraysFilled'
  BY <1>0 DEF ArraysFilled, Nothing, NotYet, Filling, Filled, FilledAt
<1>4. OwnTransaction'
  <2>1. stage = "load"
    BY <1>0, AtStatement
  <2> QED
    BY <1>0, <2>1 DEF SeedsInv, OwnTransaction, InTransaction
<1> QED
  BY <1>1, <1>2, <1>3, <1>4 DEF SeedsInv

\* On to the next line.
LEMMA AdvanceScript ==
    ASSUME SeedsInv, Running, Advance,
           stage = "load" \/ left = {}, line \in DOMAIN Fills => left = {} /\ stage # "load"
    PROVE  Staged' /\ ArraysFilled'
<1>0. /\ line' = Following[line] /\ stage' = "load"
      /\ left' = left /\ held' = held /\ day' = day /\ runs' = runs /\ alone' = alone
      /\ line \in Statement
  BY AtStatement DEF Advance
<1>1. /\ line' \in Statement \cup {58} /\ line < line'
      /\ \A t \in Tables : line < FilledAt[t] => line' <= FilledAt[t]
  BY <1>0, NextLine
<1>2. Staged'
  BY <1>0, <1>1 DEF SeedsInv, Staged
<1>3. line \in Int /\ line' \in Int
  BY <1>0, <1>1 DEF Statement
<1>4. ASSUME NEW t \in {"users", "hotels", "rooms"}
      PROVE  /\ NotYet(t)' => held[t] = <<>>
             /\ ~ Filling(t)'
             /\ Filled(t)' => Len(held[t]) = Records[t]
  <2>1. t \in Tables /\ FilledAt[t] \in Int /\ Records[t] \in Nat
    BY DEF Tables, FilledAt, Records
  <2>2. held[t] \in Seq(Id) /\ Len(held[t]) \in Nat
    <3>1. held[t] \in Seq(Id)
      BY DEF SeedsInv, ArraysFilled
    <3> QED
      BY <3>1
  <2>3. /\ NotYet(t) => held[t] = <<>>
        /\ Filling(t) => Len(held[t]) <= Records[t] /\ left = (Len(held[t]) + 1)..Records[t]
        /\ Filled(t) => Len(held[t]) = Records[t]
    BY DEF SeedsInv, ArraysFilled
  <2>4. NotYet(t)' => NotYet(t)
    BY <1>0, <1>1, <1>3, <2>1 DEF NotYet
  <2>5. CASE Filled(t)'
    <3>1. FilledAt[t] <= line
      BY <1>1, <1>3, <2>1, <2>5 DEF Filled
    <3>2. CASE line = FilledAt[t]
      <4>1. line \in DOMAIN Fills
        BY <2>1, <3>2, TaskLines
      <4>2. Filling(t) /\ left = {}
        BY <3>2, <4>1 DEF Filling
      <4>3. Len(held[t]) = Records[t]
        BY <2>1, <2>2, <2>3, <4>2
      <4> QED
        BY <1>0, <2>3, <2>4, <4>3 DEF Filling
    <3>3. CASE line # FilledAt[t]
      <4>1. Filled(t)
        BY <1>3, <2>1, <3>1, <3>3 DEF Filled
      <4> QED
        BY <1>0, <2>3, <2>4, <4>1 DEF Filling
    <3> QED
      BY <3>2, <3>3
  <2> QED
    BY <1>0, <2>3, <2>4, <2>5 DEF Filling
<1>5. ArraysFilled'
  BY <1>0, <1>4 DEF SeedsInv, ArraysFilled, Filling
<1> QED
  BY <1>2, <1>5

\* A statement loads the records it is about.
LEMMA LoadStatement == ASSUME SeedsInv, LoadAll \/ LoadSeeds PROVE SeedsInv'
<1>0. /\ stage = "load" /\ stage' = "next" /\ line' = line /\ held' = held
      /\ runs' = runs /\ alone' = alone
      /\ UNCHANGED vars /\ today' = today
      /\ db' = db /\ view' = view /\ stale' = stale /\ writer' = writer
      /\ line \in DOMAIN Clears \cup DOMAIN Fills
  BY DEF LoadAll, LoadSeeds, vars, storeVars
<1>1. ServerInv(Threads)'
  <2>1. Threads \in SUBSET Worker /\ today' \in Id
    BY <1>0 DEF Threads, SeedsInv, ServerInv, TypeOK
  <2> QED
    BY <1>0, <2>1, DayStep DEF SeedsInv
<1>2. OwnTransaction'
  BY <1>0 DEF SeedsInv, OwnTransaction, InTransaction
<1>3. CASE LoadAll
  <2>0. /\ line \in DOMAIN Clears /\ left' = Ids(db[Clears[line]]) /\ day' = day
    BY <1>3 DEF LoadAll
  <2>1. \A t \in Tables : \A row \in db[t] : row.id \in Id
    BY DEF Tables, SeedsInv, ServerInv, TypeOK, StoreTypeOK, Database, HotelRow, RoomRow,
           UserRow, ReservationRow
  <2>2. left' \in SUBSET Id
    BY <2>0, <2>1, ClearLines DEF Ids
  <2>3. Staged'
    BY <1>0, <2>0, <2>2 DEF SeedsInv, Staged
  <2>4. ASSUME NEW t \in Tables
        PROVE  ~ Filling(t)' /\ (NotYet(t)' <=> NotYet(t)) /\ (Filled(t)' <=> Filled(t))
    BY <1>0, <2>0, TaskLines DEF Filling, NotYet, Filled
  <2>5. ArraysFilled'
    BY <1>0, <2>4 DEF SeedsInv, ArraysFilled, Tables
  <2> QED
    BY <1>1, <1>2, <2>3, <2>5 DEF SeedsInv
<1>4. CASE LoadSeeds
  <2>0. /\ line \in DOMAIN Fills
        /\ left' = CASE line = 16 -> 1..3 [] line = 33 -> 1..2 [] line = 41 -> 1..4
                     [] line = 51 -> 1..2
        /\ day' = IF line = 51 THEN today ELSE day
    BY <1>4 DEF LoadSeeds
  <2>1. left' = 1..Records[Fills[line]]
    <3>1. /\ Fills[16] = "users" /\ Fills[33] = "hotels" /\ Fills[41] = "rooms"
          /\ Fills[51] = "reservations" /\ line \in {16, 33, 41, 51}
      BY <2>0, LineKinds DEF Fills
    <3>2. CASE line = 16
      BY <2>0, <3>1, <3>2 DEF Records
    <3>3. CASE line = 33
      BY <2>0, <3>1, <3>3 DEF Records
    <3>4. CASE line = 41
      BY <2>0, <3>1, <3>4 DEF Records
    <3>5. CASE line = 51
      BY <2>0, <3>1, <3>5 DEF Records
    <3> QED
      BY <3>1, <3>2, <3>3, <3>4, <3>5
  <2>2. left' \in SUBSET Id /\ day' \in Nat
    <3>1. Records[Fills[line]] \in Nat
      BY <2>0, FillLines DEF Tables, Records
    <3>2. left' \in SUBSET Id
      BY <2>1, <3>1 DEF Id
    <3>3. day \in Nat /\ today \in Nat
      BY DEF SeedsInv, Staged, ServerInv, TypeOK, Id
    <3> QED
      BY <2>0, <3>2, <3>3
  <2>3. Staged'
    BY <1>0, <2>0, <2>2 DEF SeedsInv, Staged
  <2>4. ASSUME NEW t \in {"users", "hotels", "rooms"}
        PROVE  /\ NotYet(t)' => held[t] = <<>>
               /\ Filling(t)' => /\ Len(held[t]) <= Records[t]
                                 /\ left' = (Len(held[t]) + 1)..Records[t]
               /\ Filled(t)' => Len(held[t]) = Records[t]
    <3>1. NotYet(t)' => NotYet(t)
      BY <1>0 DEF NotYet
    <3>2. Filled(t)' => Filled(t)
      BY <1>0 DEF Filled
    <3>3. Filling(t)' => NotYet(t) /\ t = Fills[line]
      BY <1>0, TaskLines DEF Filling, NotYet, Tables
    <3>4. NotYet(t) => held[t] = <<>>
      BY DEF SeedsInv, ArraysFilled
    <3>5. Filling(t)' => held[t] = <<>> /\ Len(held[t]) = 0 /\ left' = 1..Records[t]
      BY <2>1, <3>3, <3>4
    <3>6. Records[t] \in Nat
      BY DEF Records
    <3> QED
      BY <3>1, <3>2, <3>4, <3>5, <3>6 DEF SeedsInv, ArraysFilled
  <2>5. Filling("reservations")' => left' \subseteq 1..2
    BY <1>0, <2>1, TaskLines DEF Filling, Tables, Records
  <2>6. ArraysFilled'
    BY <1>0, <2>4, <2>5 DEF SeedsInv, ArraysFilled
  <2> QED
    BY <1>1, <1>2, <2>3, <2>6 DEF SeedsInv
<1> QED
  BY <1>3, <1>4

\* A statement outside a transaction.
LEMMA AutocommitStep ==
    ASSUME SeedsInv, Running, stage = "load", NEW d \in Database, Sound(d), Autocommit(d)
    PROVE  /\ ServerInv(Threads)'
           /\ stage' = "load" => OwnTransaction'
<1>0. /\ writer = NoOne /\ db' = d /\ view' = view /\ writer' = writer
      /\ stale' = {w \in Worker : InTransaction(w)}
      /\ UNCHANGED <<handlerVars, today>>
      /\ NoOne \notin Worker /\ Seeder \in Worker /\ Threads \subseteq Worker
      /\ ~ InTransaction(Seeder)
  BY SeederAssumption, WorkerAssumption
  DEF Autocommit, Threads, SeedsInv, OwnTransaction
<1>1. StoreTypeOK'
  BY <1>0 DEF SeedsInv, ServerInv, TypeOK, StoreTypeOK
<1>2. ServerInv(Threads)'
  BY <1>0, <1>1, CommitKept
<1>3. stage' = "load" => OwnTransaction'
  BY <1>0 DEF OwnTransaction, InTransaction
<1> QED
  BY <1>2, <1>3

\* The ids of a table start over, or the process gives up.
LEMMA ResetStep == ASSUME SeedsInv, ResetSequence PROVE SeedsInv'
<1>1. CASE Stop
  BY <1>1, StopStep
<1>2. CASE Autocommit(StartedOver(db, Resets[line])) /\ Advance
  <2>1. line \in DOMAIN Resets
    BY DEF ResetSequence
  <2>2. Running /\ stage = "load" /\ line \notin DOMAIN Fills
    BY <2>1, TaskLines, AtStatement DEF SeedsInv, Staged
  <2>3. Staged' /\ ArraysFilled'
    BY <1>2, <2>2, AdvanceScript
  <2>4. Resets[line] \in Tables /\ db \in Database /\ Sound(db)
    BY <2>1, ResetLines DEF SeedsInv, ServerInv, TypeOK, StoreTypeOK
  <2>5. /\ StartedOver(db, Resets[line]) \in Database
        /\ Sound(StartedOver(db, Resets[line]))
    BY <2>4, StartedOverSound
  <2> QED
    BY <1>2, <2>2, <2>3, <2>5, AutocommitStep DEF SeedsInv, Advance
<1> QED
  BY <1>1, <1>2 DEF ResetSequence

\* A picture is attached, or is not there.
LEMMA AttachStep == ASSUME SeedsInv, AttachImage PROVE SeedsInv'
<1>1. CASE Stop
  BY <1>1, StopStep
<1>2. CASE Autocommit(db) /\ Advance
  <2>1. line \in {27, 29}
    BY DEF AttachImage
  <2>2. Running /\ stage = "load" /\ line \notin DOMAIN Fills
    BY <2>1, TaskLines, AtStatement DEF SeedsInv, Staged
  <2>3. Staged' /\ ArraysFilled'
    BY <1>2, <2>2, AdvanceScript
  <2>4. db \in Database /\ Sound(db)
    BY DEF SeedsInv, ServerInv, TypeOK, StoreTypeOK
  <2> QED
    BY <1>2, <2>2, <2>3, <2>4, AutocommitStep DEF SeedsInv, Advance
<1> QED
  BY <1>1, <1>2 DEF AttachImage

\* A statement is through.
LEMMA NextStatementStep == ASSUME SeedsInv, NextStatement PROVE SeedsInv'
<1>0. /\ stage = "next" /\ left = {} /\ Advance /\ stage' = "load"
      /\ UNCHANGED vars /\ today' = today
      /\ db' = db /\ view' = view /\ stale' = stale /\ writer' = writer
  BY DEF NextStatement, Advance, vars, storeVars
<1>1. ServerInv(Threads)'
  <2>1. Threads \in SUBSET Worker /\ today' \in Id
    BY <1>0 DEF Threads, SeedsInv, ServerInv, TypeOK
  <2> QED
    BY <1>0, <2>1, DayStep DEF SeedsInv
<1>2. Staged' /\ ArraysFilled'
  BY <1>0, AtStatement, AdvanceScript
<1>3. OwnTransaction'
  BY <1>0 DEF SeedsInv, OwnTransaction, InTransaction
<1> QED
  BY <1>1, <1>2, <1>3 DEF SeedsInv

\* A record stays the next one while its transaction is open.
LEMMA SameRecord ==
    ASSUME SeedsInv, line' = line, left' = left, held' = held, day' = day, runs' = runs,
           alone' \in BOOLEAN, stage # "load", left # {},
           stage' \in {"next", "write", "commit"}
    PROVE  Staged' /\ ArraysFilled'
<1>1. Staged'
  BY DEF SeedsInv, Staged
<1>2. ArraysFilled'
  BY DEF SeedsInv, ArraysFilled, NotYet, Filling, Filled
<1> QED
  BY <1>1, <1>2

\* BEGIN and the validations.
LEMMA BeginStep == ASSUME SeedsInv, BeginRecord PROVE SeedsInv'
<1>1. CASE Stop
  BY <1>1, StopStep
<1>2. CASE ~ Stop
  <2>0. /\ stage = "next" /\ left # {}
        /\ line \in DOMAIN Fills => SeedValid(db, Fills[line], Min(left))
        /\ BeginRead(Seeder)
        /\ stage' = "write"
        /\ line' = line /\ left' = left /\ held' = held /\ day' = day /\ runs' = runs
        /\ alone' = alone
        /\ UNCHANGED <<handlerVars, today>>
    BY <1>2 DEF BeginRecord
  <2>1. Staged' /\ ArraysFilled'
    BY <2>0, SameRecord DEF SeedsInv, Staged
  <2>2. ServerInv(Threads)'
    BY <2>0, ReadWriteKept
  <2>3. line \in DOMAIN Fills => SeedChecked(db, Fills[line], Min(left))
    BY <2>0, ValidIsChecked
  <2>4. SeedChecked(db, Fills[line], Min(left))' = SeedChecked(db', Fills[line], Min(left))
    BY <2>0 DEF SeedChecked, StaySeed
  <2>5. /\ view'[Seeder] = db /\ db' = db /\ writer' = writer /\ stale' = stale
        /\ db # NoSnapshot
    BY <2>0, SeederAssumption, SnapshotAssumption
    DEF BeginRead, SeedsInv, ServerInv, TypeOK, StoreTypeOK
  <2>6. OwnTransaction'
    BY <2>0, <2>3, <2>4, <2>5 DEF SeedsInv, OwnTransaction, InTransaction
  <2> QED
    BY <2>1, <2>2, <2>6 DEF SeedsInv
<1> QED
  BY <1>1, <1>2

\* The statements of the record, if the snapshot can be written to.
LEMMA WriteStep == ASSUME SeedsInv, WriteRecord PROVE SeedsInv'
<1>1. CASE Stop
  BY <1>1, StopStep
<1>2. CASE ~ Stop
  <2> DEFINE d == Changed(view[Seeder])
  <2>0. /\ stage = "write" /\ CanWrite(Seeder) /\ ForeignKeysHold(d) /\ Write(Seeder, d)
        /\ stage' = "commit"
        /\ line' = line /\ left' = left /\ held' = held /\ day' = day /\ runs' = runs
        /\ alone' = alone
        /\ UNCHANGED <<handlerVars, today>>
    BY <1>2 DEF WriteRecord
  <2>1. left # {} /\ line \in DOMAIN Clears \cup DOMAIN Fills
    BY <2>0 DEF SeedsInv, Staged
  <2>2. Staged' /\ ArraysFilled'
    BY <2>0, <2>1, SameRecord DEF SeedsInv, Staged
  <2>3. /\ view[Seeder] = db /\ db \in Database /\ Sound(db)
        /\ line \in DOMAIN Fills => SeedChecked(db, Fills[line], Min(left))
    BY <2>0 DEF CanWrite, SeedsInv, OwnTransaction, ServerInv, TypeOK, StoreTypeOK
  <2>4. d = Changed(db) /\ d \in Database /\ Sound(d)
    BY <2>0, <2>1, <2>3, ChangedSound
  <2>5. Changed(db)' = Changed(db)
    BY <2>0 DEF Write, Changed, Inserted, Destroyed, UserSeed, HotelSeed, RoomSeed, StaySeed
  <2> HIDE DEF d
  <2>6. ServerInv(Threads)'
    BY <2>0, <2>4, ReadWriteKept
  <2>7. /\ view'[Seeder] = d /\ writer' = Seeder /\ stale' = stale /\ Seeder \notin stale
        /\ d # NoSnapshot
    BY <2>0, <2>4, SeederAssumption, SnapshotAssumption
    DEF CanWrite, Write, SeedsInv, ServerInv, TypeOK, StoreTypeOK
  <2>8. OwnTransaction'
    BY <2>0, <2>4, <2>5, <2>7 DEF OwnTransaction, InTransaction
  <2> QED
    BY <2>2, <2>6, <2>8 DEF SeedsInv
<1> QED
  BY <1>1, <1>2

\* The arrays after a record has been committed.
LEMMA KeptArrays ==
    ASSUME SeedsInv, stage = "commit", line \in DOMAIN Fills
    PROVE  LET t == Fills[line]
               h == Kept(view[Seeder], t)
           IN  /\ h \in [users : Seq(Id), hotels : Seq(Id), rooms : Seq(Id)]
               /\ t # "reservations" =>
                     /\ h[t] = Append(held[t], db.seq[t] + 1)
                     /\ Len(h[t]) = Len(held[t]) + 1
               /\ \A s \in Tables \ {"reservations", t} : h[s] = held[s]
<1> DEFINE t == Fills[line]
           h == Kept(view[Seeder], t)
           n == view[Seeder].seq[t]
<1>0. /\ held \in [users : Seq(Id), hotels : Seq(Id), rooms : Seq(Id)]
      /\ t \in Tables /\ stage # "load" /\ left # {}
      /\ db \in Database /\ view[Seeder] = Changed(db)
  BY FillLines
  DEF SeedsInv, Staged, ArraysFilled, OwnTransaction, ServerInv, TypeOK, StoreTypeOK
<1>1. Changed(db) = Inserted(db, t, Min(left))
  BY TaskLines DEF Changed
<1>2. n = db.seq[t] + 1
  BY <1>0, <1>1, InsertedSound
<1>3. n \in Id
  BY <1>0, <1>2 DEF Database, Tables, Id
<1>4. h = IF t = "reservations" THEN held ELSE [held EXCEPT ![t] = Append(held[t], n)]
  BY DEF Kept
<1> HIDE DEF h, n
<1>5. CASE t = "reservations"
  BY <1>0, <1>4, <1>5 DEF h
<1>6. CASE t # "reservations"
  <2>1. t \in {"users", "hotels", "rooms"}
    BY <1>0, <1>6 DEF Tables
  <2> HIDE DEF t
  <2>2. held[t] \in Seq(Id)
    BY <1>0, <2>1
  <2>3. Append(held[t], n) \in Seq(Id) /\ Len(Append(held[t], n)) = Len(held[t]) + 1
    BY <1>3, <2>2
  <2>4. h = [held EXCEPT ![t] = Append(held[t], n)]
    BY <1>4, <1>6
  <2>5. /\ h \in [users : Seq(Id), hotels : Seq(Id), rooms : Seq(Id)]
        /\ h[t] = Append(held[t], n)
        /\ \A s \in Tables \ {"reservations", t} : h[s] = held[s]
    BY <1>0, <2>1, <2>3, <2>4 DEF Tables
  <2> QED
    BY <1>2, <1>6, <2>3, <2>5 DEF h, t
<1> QED
  BY <1>5, <1>6

\* COMMIT of a record.
LEMMA CommitRecordStep == ASSUME SeedsInv, CommitRecord PROVE SeedsInv'
<1>0. /\ stage = "commit" /\ Commit(Seeder, FALSE) /\ stage' = "next"
      /\ held' = IF line \in DOMAIN Fills THEN Kept(view[Seeder], Fills[line]) ELSE held
      /\ left' = left \ {Min(left)}
      /\ line' = line /\ day' = day /\ runs' = runs /\ alone' = alone
      /\ UNCHANGED <<handlerVars, today>>
  BY DEF CommitRecord
<1>1. /\ writer = Seeder /\ view[Seeder] = Changed(db) /\ Sound(view[Seeder])
      /\ view[Seeder] \in Database /\ left # {} /\ line \in DOMAIN Clears \cup DOMAIN Fills
  BY <1>0, SeederAssumption
  DEF SeedsInv, OwnTransaction, InTransaction, Staged, ServerInv, TypeOK, StoreTypeOK
<1>2. /\ Seeder \in Worker /\ Seeder \notin Threads /\ NoOne # Seeder /\ Threads \subseteq Worker
      /\ StoreTypeOK
  BY SeederAssumption, WorkerAssumption DEF Threads, SeedsInv, ServerInv, TypeOK
<1>3. ServerInv(Threads)'
  <2>1. StoreTypeOK' /\ Sound(db)' /\ writer' = NoOne
    BY <1>0, <1>1, <1>2 DEF Commit, StoreTypeOK
  <2>2. ASSUME NEW v \in Threads
        PROVE  /\ writer # v /\ view'[v] = view[v]
               /\ v \in stale' => v \in stale \/ InTransaction(v)
               /\ v \notin stale' /\ InTransaction(v) => v \notin stale /\ db' = db
    BY <1>0, <1>1, <1>2 DEF Commit, StoreTypeOK
  <2> QED
    BY <1>0, <2>1, <2>2, CommitKept
<1>4. OwnTransaction'
  <2>1. view'[Seeder] = NoSnapshot /\ writer' = NoOne /\ Seeder \notin stale'
    BY <1>0, <1>2 DEF Commit, StoreTypeOK
  <2> QED
    BY <1>0, <1>2, <2>1 DEF OwnTransaction, InTransaction
<1>5. Staged'
  BY <1>0, <1>1 DEF SeedsInv, Staged
<1>6. CASE line \in DOMAIN Clears
  <2>1. line \notin DOMAIN Fills /\ held' = held
    BY <1>0, <1>6, TaskLines
  <2>2. ASSUME NEW t \in Tables
        PROVE  ~ Filling(t)' /\ (NotYet(t)' <=> NotYet(t)) /\ (Filled(t)' <=> Filled(t))
    BY <1>0, <2>1, TaskLines DEF Filling, NotYet, Filled
  <2>3. ArraysFilled'
    BY <2>1, <2>2 DEF SeedsInv, ArraysFilled, Tables
  <2> QED
    BY <1>3, <1>4, <1>5, <2>3 DEF SeedsInv
<1>7. CASE line \in DOMAIN Fills
  <2> DEFINE f == Fills[line]
  <2>1. /\ held' \in [users : Seq(Id), hotels : Seq(Id), rooms : Seq(Id)]
        /\ f # "reservations" => Len(held'[f]) = Len(held[f]) + 1
        /\ \A s \in Tables \ {"reservations", f} : held'[s] = held[s]
    BY <1>0, <1>7, KeptArrays
  <2>2. /\ f \in Tables /\ FilledAt[f] = line
        /\ Min(left) \in 1..Records[f] /\ left' \subseteq left
        /\ f # "reservations" =>
              /\ Min(left) = Len(held[f]) + 1
              /\ left' = (Len(held[f]) + 2)..Records[f]
    BY <1>0, <1>1, <1>7, FillLines, NextRecord
  <2>3. ASSUME NEW t \in {"users", "hotels", "rooms"}
        PROVE  /\ NotYet(t)' => held'[t] = <<>>
               /\ Filling(t)' => /\ Len(held'[t]) <= Records[t]
                                 /\ left' = (Len(held'[t]) + 1)..Records[t]
               /\ Filled(t)' => Len(held'[t]) = Records[t]
    <3>1. CASE t = f
      <4>1. ~ NotYet(t)' /\ ~ Filled(t)'
        BY <1>0, <2>2, <3>1, LineKinds, <1>7 DEF NotYet, Filled
      <4>2. /\ Len(held'[t]) = Len(held[t]) + 1 /\ Len(held[t]) + 1 \in 1..Records[t]
            /\ left' = (Len(held[t]) + 2)..Records[t]
        BY <2>1, <2>2, <3>1
      <4>3. Records[t] \in Nat /\ Len(held[t]) \in Nat
        <5>1. held[t] \in Seq(Id)
          BY DEF SeedsInv, ArraysFilled
        <5> QED
          BY <5>1 DEF Records
      <4> QED
        BY <4>1, <4>2, <4>3
    <3>2. CASE t # f
      <4>1. held'[t] = held[t] /\ t \in Tables
        BY <2>1, <3>2 DEF Tables
      <4>2. line # FilledAt[t]
        BY <2>2, <3>2, <4>1, TaskLines
      <4>3. ~ Filling(t)' /\ (NotYet(t)' => NotYet(t)) /\ (Filled(t)' => Filled(t))
        BY <1>0, <4>2 DEF NotYet, Filling, Filled
      <4> QED
        BY <4>1, <4>3 DEF SeedsInv, ArraysFilled
    <3> QED
      BY <3>1, <3>2
  <2>4. Filling("reservations")' => left' \subseteq 1..2
    BY <1>0, <2>2 DEF SeedsInv, ArraysFilled, Filling
  <2>5. ArraysFilled'
    BY <2>1, <2>3, <2>4 DEF ArraysFilled
  <2> QED
    BY <1>3, <1>4, <1>5, <2>5 DEF SeedsInv
<1> QED
  BY <1>1, <1>6, <1>7
-----------------------------------------------------------------------------
(* The seeds and the server. *)

\* Steps that touch neither the seeds nor their transaction.
LEMMA BesideSeeds ==
    ASSUME SeedsInv, ServerInv(Threads)',
           UNCHANGED <<line, stage, left, held, day, runs>>, alone' \in BOOLEAN,
           view'[Seeder] = view[Seeder],
           writer' = Seeder <=> writer = Seeder,
           writer = Seeder => db' = db /\ stale' \subseteq stale,
           Seeder \in stale' => Seeder \in stale \/ InTransaction(Seeder),
           InTransaction(Seeder) /\ Seeder \notin stale' => Seeder \notin stale /\ db' = db
    PROVE  SeedsInv'
<1>1. Staged'
  BY DEF SeedsInv, Staged
<1>2. ArraysFilled'
  BY DEF SeedsInv, ArraysFilled, NotYet, Filling, Filled
<1>3. OwnTransaction /\ (stage = "commit" => writer = Seeder)
  BY DEF SeedsInv, OwnTransaction
<1>4. SeedChecked(view[Seeder], Fills[line], Min(left))'
        <=> SeedChecked(view[Seeder], Fills[line], Min(left))
  BY DEF SeedChecked, StaySeed
<1>5. ASSUME stage = "commit" PROVE Changed(db)' = Changed(db)
  <2>1. db' = db
    BY <1>3, <1>5
  <2> QED
    BY <2>1 DEF Changed, Inserted, Destroyed, UserSeed, HotelSeed, RoomSeed, StaySeed
<1>6. /\ InTransaction(Seeder)' <=> stage' \in {"write", "commit"}
      /\ writer' = Seeder <=> stage' = "commit"
      /\ stage' = "write" /\ Seeder \notin stale' => view'[Seeder] = db'
      /\ Seeder \in stale' => stage' = "write"
  BY <1>3 DEF OwnTransaction, InTransaction
<1>7. stage' = "write" /\ line' \in DOMAIN Fills
          => SeedChecked(view[Seeder], Fills[line], Min(left))'
  BY <1>3, <1>4 DEF OwnTransaction
<1>8. stage' = "commit" => view'[Seeder] = Changed(db)' /\ Sound(view'[Seeder])
  BY <1>3, <1>5 DEF OwnTransaction
<1>9. OwnTransaction'
  BY <1>6, <1>7, <1>8 DEF OwnTransaction
<1> QED
  BY <1>1, <1>2, <1>9 DEF SeedsInv

\* A step of a thread.
LEMMA BesideThread ==
    ASSUME SeedsInv, NEW w \in Threads, Beside(Accept(w) \/ Serve(w) \/ Die(w))
    PROVE  SeedsInv'
<1>0. /\ Accept(w) \/ Serve(w) \/ Die(w)
      /\ UNCHANGED <<line, stage, left, held, day, runs>>
      /\ alone' = (alone /\ db' = db)
  BY DEF Beside
<1>1. StoreEffect(w)
  BY <1>0, ThreadEffect
<1>2. ServerInv(Threads)'
  <2>1. Threads \in SUBSET Worker
    BY DEF Threads
  <2> QED
    BY <1>0, <2>1, ThreadStep DEF SeedsInv
<1>3. alone' \in BOOLEAN
  BY <1>0
<1>4. Seeder \in stale => InTransaction(Seeder)
  BY DEF SeedsInv, OwnTransaction
<1> QED
  BY <1>0, <1>1, <1>2, <1>3, <1>4, EffectOnSeeds, BesideSeeds

\* A day passes, or nothing happens.
LEMMA BesideDay ==
    ASSUME SeedsInv, UNCHANGED vars, today' \in Id,
           UNCHANGED <<line, stage, left, held, day, runs>>, alone' \in BOOLEAN
    PROVE  SeedsInv'
<1>0. db' = db /\ view' = view /\ stale' = stale /\ writer' = writer
  BY DEF vars, storeVars
<1>1. ServerInv(Threads)'
  <2>1. Threads \in SUBSET Worker
    BY DEF Threads
  <2> QED
    BY <2>1, DayStep DEF SeedsInv
<1>2. Seeder \in stale => InTransaction(Seeder)
  BY DEF SeedsInv, OwnTransaction
<1> QED
  BY <1>0, <1>1, <1>2, BesideSeeds

\* Nobody has run the seeds yet.
LEMMA InitSeeds == SeedsInit => SeedsInv
<1> SUFFICES ASSUME SeedsInit PROVE SeedsInv
  OBVIOUS
<1>1. ServerInv(Threads)
  <2>1. Threads \in SUBSET Worker
    BY DEF Threads
  <2> QED
    BY <2>1, InitServer DEF SeedsInit
<1>2. Staged
  BY SeedsAssumption DEF SeedsInit, Staged
<1>3. ArraysFilled
  BY DEF SeedsInit, ArraysFilled, Nothing, NotYet, Filling, Filled, FilledAt
<1>4. OwnTransaction
  BY SeederAssumption, WorkerAssumption
  DEF SeedsInit, Init, HandlerInit, OwnTransaction, InTransaction
<1> QED
  BY <1>1, <1>2, <1>3, <1>4 DEF SeedsInv

\* No step leaves the invariant.
LEMMA NextSeeds == SeedsInv /\ [SeedsNext]_allSeedVars => SeedsInv'
<1> SUFFICES ASSUME SeedsInv, [SeedsNext]_allSeedVars PROVE SeedsInv'
  OBVIOUS
<1>1. CASE Start
  BY <1>1, StartStep
<1>2. CASE SeedStep
  BY <1>2, LoadStatement, BeginStep, WriteStep, CommitRecordStep, NextStatementStep,
     ResetStep, AttachStep
  DEF SeedStep
<1>3. CASE SeederDies
  BY <1>3, StopStep DEF SeederDies
<1>4. ASSUME NEW w \in Threads, Beside(Accept(w) \/ Serve(w) \/ Die(w)) PROVE SeedsInv'
  BY <1>4, BesideThread
<1>5. CASE Beside(Midnight)
  <2>1. /\ UNCHANGED vars /\ today' \in Id
        /\ UNCHANGED <<line, stage, left, held, day, runs>> /\ alone' \in BOOLEAN
    BY <1>5 DEF Beside, Midnight, SeedsInv, ServerInv, TypeOK, Id
  <2> QED
    BY <2>1, BesideDay
<1>6. CASE UNCHANGED allSeedVars
  <2>1. /\ UNCHANGED vars /\ today' \in Id
        /\ UNCHANGED <<line, stage, left, held, day, runs>> /\ alone' \in BOOLEAN
    BY <1>6 DEF allSeedVars, allVars, seedVars, SeedsInv, Staged, ServerInv, TypeOK
  <2> QED
    BY <2>1, BesideDay
<1> QED
  BY <1>1, <1>2, <1>3, <1>4, <1>5, <1>6 DEF SeedsNext, Threads

\* The transactions of the script and those of the threads respect each other.
THEOREM SeedsInvariance == SeedsSpec => []SeedsInv
BY InitSeeds, NextSeeds, PTL DEF SeedsSpec

\* The variables of the seeds and of the server keep their types: what the script makes
\* of its arrays is always an id.
THEOREM SeedsTyped == SeedsSpec => []SeedsTypeOK
<1>1. ASSUME SeedsInv PROVE SeedsTypeOK
  <2>1. TypeOK /\ left \subseteq Id
    BY <1>1 DEF SeedsInv, ServerInv, Staged
  <2>2. /\ line \in {0, 58} \cup Statement /\ stage \in {"load", "next", "write", "commit"}
        /\ day \in Nat /\ runs \in 0..MaxRuns /\ alone \in BOOLEAN
    BY <1>1 DEF SeedsInv, Staged
  <2>3. ASSUME NEW table \in DOMAIN held, NEW i \in DOMAIN held[table]
        PROVE  held[table][i] \in Id
    <3>1. /\ held \in [users : Seq(Id), hotels : Seq(Id), rooms : Seq(Id)]
          /\ table \in {"users", "hotels", "rooms"}
      BY <1>1 DEF SeedsInv, ArraysFilled
    <3>2. held[table] \in Seq(Id)
      BY <3>1
    <3> QED
      BY <3>2, <2>3
  <2>4. Running \/ view[Seeder] = NoSnapshot
    BY <1>1, AtStatement DEF SeedsInv, OwnTransaction, InTransaction
  <2> QED
    BY <2>1, <2>2, <2>3, <2>4 DEF SeedsTypeOK
<1> QED
  BY <1>1, SeedsInvariance, PTL

\* Clearing the tables, starting their ids over and filling them leaves the database
\* sound at every moment, for any number of threads at work beside the script, wherever
\* it stops and however often it is run again.
THEOREM SeedingStaysSound == SeedsSpec => []SoundThroughout
<1>1. SeedsInv => SoundThroughout
  BY DEF SeedsInv, ServerInv, SoundThroughout
<1> QED
  BY <1>1, SeedsInvariance, PTL
-----------------------------------------------------------------------------
(* What the seeds leave when nobody disturbs them. *)

\* The lines in numbers.
LEMMA TableLines ==
    ASSUME NEW t \in Tables
    PROVE  /\ ClearedAt[t] \in 4..7 /\ ResetAt[t] \in 10..13 /\ FilledAt[t] \in 16..51
           /\ ClearedAt[t] \in DOMAIN Clears /\ Clears[ClearedAt[t]] = t
           /\ ResetAt[t] \in DOMAIN Resets /\ Resets[ResetAt[t]] = t
           /\ FilledAt[t] \in DOMAIN Fills /\ Fills[FilledAt[t]] = t
           /\ Records[t] \in Nat
BY DEF Tables, ClearedAt, ResetAt, FilledAt, Records, Clears, Resets, Fills

\* The tables of a database.
LEMMA TableTypes ==
    ASSUME NEW d \in Database, NEW t \in Tables
    PROVE  d.seq[t] \in Nat /\ \A row \in d[t] : row.id \in Id
BY DEF Database, Tables, HotelRow, RoomRow, UserRow, ReservationRow

\* A table that a step leaves alone, while the script stays where it is.
LEMMA SameTable ==
    ASSUME NEW t \in Tables, Emptied(t), Rebuilt(t),
           db'[t] = db[t], db'.seq[t] = db.seq[t],
           line' = line, held'[t] = held[t] \/ t = "reservations", day' = day \/ t # "reservations",
           line \in {ClearedAt[t], FilledAt[t]} =>
               left' = left /\ (stage' = "load" <=> stage = "load")
    PROVE  Emptied(t)' /\ Rebuilt(t)'
<1>1. Emptied(t)'
  BY DEF Emptied
<1>2. (NotYet(t)' <=> NotYet(t)) /\ (Filling(t)' <=> Filling(t)) /\ (Filled(t)' <=> Filled(t))
  BY DEF NotYet, Filling, Filled
<1>3. {SeedRow(t, i) : i \in 1..db.seq[t]}' = {SeedRow(t, i) : i \in 1..db.seq[t]}
  <2>1. CASE day' = day
    BY <2>1 DEF SeedRow
  <2>2. CASE t # "reservations"
    BY <2>2 DEF SeedRow, Tables
  <2> QED
    BY <2>1, <2>2
<1>4. Filling(t) => left' = left
  BY DEF Filling
<1>5. Rebuilt(t)'
  BY <1>2, <1>3, <1>4 DEF Rebuilt
<1> QED
  BY <1>1, <1>5

\* A table when the script moves on, unless the line behind it started its ids over.
LEMMA NextTable ==
    ASSUME SeedsInv, NEW t \in Tables, Emptied(t), Rebuilt(t), Running, Advance,
           db'[t] = db[t], db'.seq[t] = db.seq[t],
           line # ResetAt[t],
           line \in DOMAIN Clears \cup DOMAIN Fills => stage # "load" /\ left = {}
    PROVE  Emptied(t)' /\ Rebuilt(t)'
<1>0. /\ line' = Following[line] /\ stage' = "load"
      /\ left' = left /\ held' = held /\ day' = day
      /\ line \in Statement
  BY AtStatement DEF Advance
<1>1. /\ line' \in Int /\ line \in Int /\ line < line'
      /\ line < ClearedAt[t] => line' <= ClearedAt[t]
      /\ line <= ResetAt[t] /\ ResetAt[t] < line' => line = ResetAt[t]
      /\ line < FilledAt[t] => line' <= FilledAt[t]
  BY <1>0, NextLine DEF Statement
<1>2. /\ ClearedAt[t] \in Int /\ ResetAt[t] \in Int /\ FilledAt[t] \in Int
      /\ Records[t] \in Nat /\ db.seq[t] \in Nat
  BY TableLines, TableTypes DEF SeedsInv, ServerInv, TypeOK, StoreTypeOK
<1>3. ASSUME ClearedAt[t] < line', line' <= ResetAt[t]
      PROVE  db[t] = {}
  <2>1. CASE ClearedAt[t] < line
    BY <1>1, <1>2, <1>3, <2>1 DEF Emptied
  <2>2. CASE line = ClearedAt[t]
    <3>1. stage # "load" /\ left = {}
      BY <2>2, TableLines
    <3> QED
      BY <2>2, <3>1 DEF Emptied, Ids
  <2> QED
    BY <1>1, <1>2, <1>3, <2>1, <2>2
<1>4. Emptied(t)'
  BY <1>0, <1>3 DEF Emptied
<1>5. ASSUME ResetAt[t] < line'
      PROVE  /\ db[t] = {SeedRow(t, i) : i \in 1..db.seq[t]}
             /\ NotYet(t)' => db.seq[t] = 0
             /\ Filled(t)' => db.seq[t] = Records[t]
             /\ t # "reservations" => held[t] = [i \in 1..db.seq[t] |-> i]
  <2>1. ResetAt[t] < line
    BY <1>1, <1>2, <1>5
  <2>2. NotYet(t)' => NotYet(t)
    BY <1>0, <1>1, <1>2 DEF NotYet
  <2>3. Filled(t)' => Filled(t) \/ line = FilledAt[t]
    BY <1>1, <1>2 DEF Filled
  <2>4. ASSUME line = FilledAt[t] PROVE db.seq[t] = Records[t]
    <3>1. stage # "load" /\ left = {}
      BY <2>4, TableLines
    <3>2. db.seq[t] <= Records[t] /\ (db.seq[t] + 1)..Records[t] = {}
      BY <2>1, <2>4, <3>1 DEF Rebuilt, Filling
    <3> QED
      BY <1>2, <3>2
  <2> QED
    BY <2>1, <2>2, <2>3, <2>4 DEF Rebuilt
<1>6. {SeedRow(t, i) : i \in 1..db.seq[t]}' = {SeedRow(t, i) : i \in 1..db.seq[t]}
  BY <1>0 DEF SeedRow
<1>7. Rebuilt(t)'
  BY <1>0, <1>5, <1>6 DEF Rebuilt, Filling
<1> QED
  BY <1>4, <1>7

\* destroy_all has loaded the whole table; create! has made nothing yet.
LEMMA WholeLoad ==
    ASSUME SeedsInv, NEW t \in Tables, Emptied(t), Rebuilt(t), LoadAll \/ LoadSeeds
    PROVE  Emptied(t)' /\ Rebuilt(t)'
<1>0. /\ stage = "load" /\ stage' = "next" /\ line' = line /\ held' = held /\ db' = db
      /\ line \in DOMAIN Clears \cup DOMAIN Fills
  BY DEF LoadAll, LoadSeeds, vars, storeVars
<1>1. /\ ClearedAt[t] \in 4..7 /\ ResetAt[t] \in 10..13 /\ FilledAt[t] \in 16..51
      /\ Records[t] \in Nat /\ db.seq[t] \in Nat
  BY TableLines, TableTypes DEF SeedsInv, ServerInv, TypeOK, StoreTypeOK
<1>2. CASE line = ClearedAt[t]
  <2>1. LoadAll /\ left' = Ids(db[t])
    <3>1. line \in DOMAIN Clears /\ Clears[line] = t
      BY <1>2, TableLines
    <3>2. LoadAll
      BY <3>1, TaskLines DEF LoadSeeds
    <3> QED
      BY <3>1, <3>2 DEF LoadAll
  <2>2. Emptied(t)'
    BY <1>0, <1>1, <1>2, <2>1 DEF Emptied
  <2>3. Rebuilt(t)'
    BY <1>0, <1>1, <1>2 DEF Rebuilt
  <2> QED
    BY <2>2, <2>3
<1>3. CASE line = FilledAt[t]
  <2>0. line \in DOMAIN Fills /\ Fills[line] = t /\ NotYet(t)
    BY <1>0, <1>3, TableLines DEF NotYet
  <2>1. left' = 1..Records[t]
    <3>1. LoadSeeds
      BY <2>0, TaskLines DEF LoadAll
    <3>2. left' = CASE line = 16 -> 1..3 [] line = 33 -> 1..2 [] line = 41 -> 1..4
                     [] line = 51 -> 1..2
      BY <3>1 DEF LoadSeeds
    <3>3. CASE t = "users"
      BY <1>3, <3>2, <3>3 DEF FilledAt, Records
    <3>4. CASE t = "hotels"
      BY <1>3, <3>2, <3>4 DEF FilledAt, Records
    <3>5. CASE t = "rooms"
      BY <1>3, <3>2, <3>5 DEF FilledAt, Records
    <3>6. CASE t = "reservations"
      BY <1>3, <3>2, <3>6 DEF FilledAt, Records
    <3> QED
      BY <3>3, <3>4, <3>5, <3>6 DEF Tables
  <2>9. ResetAt[t] < line
    BY <1>1, <1>3
  <2>2. /\ db[t] = {SeedRow(t, i) : i \in 1..db.seq[t]} /\ db.seq[t] = 0
        /\ t # "reservations" => held[t] = [i \in 1..db.seq[t] |-> i]
    BY <2>0, <2>9 DEF Rebuilt
  <2>3. db[t] = {}
    BY <2>2
  <2>4. {SeedRow(t, i) : i \in 1..db.seq[t]}' = {}
    BY <1>0, <2>2
  <2>5. ~ NotYet(t)' /\ ~ Filled(t)'
    BY <1>0, <1>1, <1>3 DEF NotYet, Filled
  <2>6. db'.seq[t] <= Records[t] /\ left' = (db'.seq[t] + 1)..Records[t]
    BY <1>0, <1>1, <2>1, <2>2
  <2>7. Rebuilt(t)'
    BY <1>0, <2>2, <2>3, <2>4, <2>5, <2>6 DEF Rebuilt
  <2>8. Emptied(t)'
    BY <1>0, <1>1, <1>3 DEF Emptied
  <2> QED
    BY <2>7, <2>8
<1>4. CASE line \notin {ClearedAt[t], FilledAt[t]}
  <2>1. day' = day \/ t # "reservations"
    BY <1>4 DEF LoadAll, LoadSeeds, FilledAt
  <2> QED
    BY <1>0, <1>1, <1>4, <2>1, SameTable
<1> QED
  BY <1>2, <1>3, <1>4

\* A record is destroyed.
LEMMA WholeDestroy ==
    ASSUME SeedsInv, NEW t \in Tables, Emptied(t), CommitRecord, line \in DOMAIN Clears
    PROVE  Emptied(t)' /\ Rebuilt(t)'
<1> DEFINE c == Clears[line]
           e == Destroyed(db, c, Min(left))
<1>0. /\ stage = "commit" /\ line' = line /\ left' = left \ {Min(left)}
      /\ db' = view[Seeder] /\ view[Seeder] = Changed(db)
  BY DEF CommitRecord, Commit, SeedsInv, OwnTransaction
<1>1. db' = e
  BY <1>0 DEF Changed
<1>2. db \in Database /\ c \in Tables /\ ClearedAt[c] = line /\ line \in 4..7
  BY ClearLines, LineKinds DEF SeedsInv, ServerInv, TypeOK, StoreTypeOK
<1>3. /\ e.hotels \subseteq db.hotels /\ e.rooms \subseteq db.rooms
      /\ e.users \subseteq db.users /\ e.reservations \subseteq db.reservations
      /\ \A row \in e[c] : row.id # Min(left)
  BY <1>2, DestroyedTables
<1> HIDE DEF e, c
<1>4. e[t] \subseteq db[t]
  BY <1>3 DEF Tables
<1>5. /\ ClearedAt[t] \in 4..7 /\ ResetAt[t] \in 10..13
      /\ line = ClearedAt[t] => t = c
  BY TableLines DEF c
<1>6. ASSUME line = ClearedAt[t] PROVE Ids(db'[t]) \subseteq left'
  <2>1. Ids(db[t]) \subseteq left /\ t = c
    BY <1>0, <1>5, <1>6 DEF Emptied
  <2> QED
    BY <1>0, <1>1, <1>3, <1>4, <2>1 DEF Ids
<1>7. ASSUME ClearedAt[t] < line, line <= ResetAt[t] PROVE db'[t] = {}
  BY <1>1, <1>4, <1>7 DEF Emptied
<1>8. Emptied(t)'
  BY <1>0, <1>6, <1>7 DEF Emptied
<1>9. Rebuilt(t)'
  BY <1>0, <1>2, <1>5 DEF Rebuilt
<1> QED
  BY <1>8, <1>9

\* The record that is made is the one with the next number.
LEMMA NextRow ==
    ASSUME SeedsInv, \A t \in Tables : Emptied(t) /\ Rebuilt(t),
           line \in DOMAIN Fills, stage # "load", left # {}
    PROVE  LET f == Fills[line]
               e == Inserted(db, f, Min(left))
           IN  /\ db.seq[f] + 1 <= Records[f]
               /\ left \ {Min(left)} = (db.seq[f] + 2)..Records[f]
               /\ e[f] = db[f] \cup {SeedRow(f, db.seq[f] + 1)}
               /\ e.seq[f] = db.seq[f] + 1
               /\ \A t \in Tables \ {f} : e[t] = db[t] /\ e.seq[t] = db.seq[t]
<1> DEFINE f == Fills[line]
           i == Min(left)
           e == Inserted(db, f, i)
<1>0. /\ f \in Tables /\ FilledAt[f] = line /\ line \in {16, 33, 41, 51}
      /\ db \in Database /\ db.seq[f] \in Nat /\ Records[f] \in Nat /\ ResetAt[f] \in 10..13
  BY FillLines, LineKinds, TableLines, TableTypes
  DEF SeedsInv, ServerInv, TypeOK, StoreTypeOK
<1>1. /\ f = "users" => UserSeed(db, i) \in UserRow
      /\ f = "hotels" => HotelSeed(db, i) \in HotelRow
      /\ f = "rooms" => RoomSeed(db, i) \in RoomRow
      /\ f = "reservations" => StaySeed(db, i) \in ReservationRow
  BY <1>0, SeedRows
<1>2. left = (db.seq[f] + 1)..Records[f]
  <2>1. Filling(f) /\ ResetAt[f] < line
    BY <1>0 DEF Filling
  <2> QED
    BY <1>0, <2>1 DEF Rebuilt
<1> HIDE DEF f
<1>3. /\ db.seq[f] + 1 <= Records[f] /\ i = db.seq[f] + 1
      /\ left \ {i} = (db.seq[f] + 2)..Records[f]
  BY <1>0, <1>2, FirstLeft
<1>4. ASSUME NEW t \in Tables, FilledAt[t] < line
      PROVE  t # "reservations" => held[t] = [j \in 1..Records[t] |-> j]
  <2>1. ResetAt[t] < line /\ Filled(t)
    BY <1>0, <1>4, TableLines DEF Filled
  <2>2. Rebuilt(t)
    OBVIOUS
  <2>3. db.seq[t] = Records[t]
    BY <2>1, <2>2 DEF Rebuilt
  <2>4. t # "reservations" => held[t] = [j \in 1..db.seq[t] |-> j]
    BY <2>1, <2>2 DEF Rebuilt
  <2> QED
    BY <2>3, <2>4
<1> HIDE DEF i
<1>5. CASE f = "users"
  <2>1. UserSeed(db, i) \in UserRow
    BY <1>5, <1>1
  <2>2. UserSeed(db, i) = SeedRow(f, i)
    BY <1>3, <1>5 DEF UserSeed, SeedRow
  <2>3. e = InsertUser(db, UserSeed(db, i)) /\ UserSeed(db, i).id = i
    BY <1>3, <1>5 DEF Inserted, UserSeed
  <2>4. /\ e[f] = db[f] \cup {SeedRow(f, i)} /\ e.seq[f] = i
        /\ \A t \in Tables \ {f} : e[t] = db[t] /\ e.seq[t] = db.seq[t]
    BY <1>0, <1>5, <2>1, <2>2, <2>3, InsertUserTables DEF Tables
  <2> QED
    BY <1>3, <2>4 DEF f, i
<1>6. CASE f = "hotels"
  <2>1. HotelSeed(db, i) \in HotelRow
    BY <1>6, <1>1
  <2>2. HotelSeed(db, i) = SeedRow(f, i)
    BY <1>3, <1>6 DEF HotelSeed, SeedRow
  <2>3. e = InsertHotel(db, HotelSeed(db, i)) /\ HotelSeed(db, i).id = i
    BY <1>3, <1>6 DEF Inserted, HotelSeed
  <2>4. /\ e[f] = db[f] \cup {SeedRow(f, i)} /\ e.seq[f] = i
        /\ \A t \in Tables \ {f} : e[t] = db[t] /\ e.seq[t] = db.seq[t]
    BY <1>0, <1>6, <2>1, <2>2, <2>3, InsertHotelTables DEF Tables
  <2> QED
    BY <1>3, <2>4 DEF f, i
<1>7. CASE f = "rooms"
  <2>1. RoomSeed(db, i) \in RoomRow
    BY <1>7, <1>1
  <2>2. RoomSeed(db, i) = SeedRow(f, i)
    <3>1. held.hotels = [j \in 1..2 |-> j]
      BY <1>0, <1>4, <1>7 DEF Tables, FilledAt, Records
    <3>2. i \in {1, 2, 3, 4}
      BY <1>0, <1>3, <1>7 DEF Records
    <3>3. (i + 1) \div 2 = IF i <= 2 THEN 1 ELSE 2
      BY <3>2
    <3>4. held.hotels[(i + 1) \div 2] = IF i <= 2 THEN 1 ELSE 2
      BY <3>1, <3>3
    <3>5. db.seq.rooms + 1 = i
      BY <1>3, <1>7
    <3> QED
      BY <1>7, <3>4, <3>5 DEF RoomSeed, SeedRow
  <2>3. e = InsertRoom(db, RoomSeed(db, i)) /\ RoomSeed(db, i).id = i
    BY <1>3, <1>7 DEF Inserted, RoomSeed
  <2>4. /\ e[f] = db[f] \cup {SeedRow(f, i)} /\ e.seq[f] = i
        /\ \A t \in Tables \ {f} : e[t] = db[t] /\ e.seq[t] = db.seq[t]
    BY <1>0, <1>7, <2>1, <2>2, <2>3, InsertRoomTables DEF Tables
  <2> QED
    BY <1>3, <2>4 DEF f, i
<1>8. CASE f = "reservations"
  <2>1. StaySeed(db, i) \in ReservationRow
    BY <1>8, <1>1
  <2>2. StaySeed(db, i) = SeedRow(f, i)
    <3>1. held.users = [j \in 1..3 |-> j] /\ held.rooms = [j \in 1..4 |-> j]
      BY <1>0, <1>4, <1>8 DEF Tables, FilledAt, Records
    <3>2. i \in {1, 2}
      BY <1>0, <1>3, <1>8 DEF Records
    <3>3. held.users[i + 1] = i + 1 /\ held.rooms[2 * i - 1] = 2 * i - 1
      BY <3>1, <3>2
    <3>4. db.seq.reservations + 1 = i
      BY <1>3, <1>8
    <3> QED
      BY <1>8, <3>3, <3>4 DEF StaySeed, SeedRow
  <2>3. e = InsertReservation(db, StaySeed(db, i)) /\ StaySeed(db, i).id = i
    BY <1>3, <1>8 DEF Inserted, StaySeed
  <2>4. /\ e[f] = db[f] \cup {SeedRow(f, i)} /\ e.seq[f] = i
        /\ \A t \in Tables \ {f} : e[t] = db[t] /\ e.seq[t] = db.seq[t]
    BY <1>0, <1>8, <2>1, <2>2, <2>3, InsertReservationTables DEF Tables
  <2> QED
    BY <1>3, <2>4 DEF f, i
<1> QED
  BY <1>0, <1>5, <1>6, <1>7, <1>8 DEF Tables

\* The numbers up to n, and one more.
LEMMA CountOn ==
    ASSUME NEW n \in Nat
    PROVE  Append([i \in 1..n |-> i], n + 1) = [i \in 1..(n + 1) |-> i]
<1> DEFINE s == [i \in 1..n |-> i]
           u == [i \in 1..(n + 1) |-> i]
<1>1. /\ s \in Seq(Nat) /\ Len(s) = n /\ \A i \in 1..n : s[i] = i
      /\ u \in Seq(Nat) /\ Len(u) = n + 1 /\ \A i \in 1..(n + 1) : u[i] = i
  OBVIOUS
<1> HIDE DEF s, u
<1>2. /\ Append(s, n + 1) \in Seq(Nat)
      /\ Len(Append(s, n + 1)) = n + 1
      /\ Append(s, n + 1)[n + 1] = n + 1
      /\ \A i \in 1..n : Append(s, n + 1)[i] = s[i]
  BY <1>1, AppendProperties
<1>3. \A i \in 1..(n + 1) : Append(s, n + 1)[i] = u[i]
  BY <1>1, <1>2
<1>4. Append(s, n + 1) = u
  BY <1>1, <1>2, <1>3, SeqEqual
<1> QED
  BY <1>4 DEF s, u

\* A record is made.
LEMMA WholeMake ==
    ASSUME SeedsInv, \A s \in Tables : Emptied(s) /\ Rebuilt(s), NEW t \in Tables,
           CommitRecord, line \in DOMAIN Fills
    PROVE  Emptied(t)' /\ Rebuilt(t)'
<1> DEFINE f == Fills[line]
           e == Inserted(db, f, Min(left))
<1>0. /\ stage = "commit" /\ stage' = "next" /\ line' = line /\ day' = day
      /\ left' = left \ {Min(left)} /\ held' = Kept(view[Seeder], f)
      /\ db' = view[Seeder] /\ view[Seeder] = Changed(db) /\ left # {}
  BY DEF CommitRecord, Commit, SeedsInv, OwnTransaction, Staged
<1>1. db' = e
  BY <1>0, TaskLines DEF Changed
<1>2. /\ db.seq[f] + 1 <= Records[f]
      /\ left' = (db.seq[f] + 2)..Records[f]
      /\ e[f] = db[f] \cup {SeedRow(f, db.seq[f] + 1)}
      /\ e.seq[f] = db.seq[f] + 1
      /\ \A s \in Tables \ {f} : e[s] = db[s] /\ e.seq[s] = db.seq[s]
  BY <1>0, NextRow
<1>3. /\ f # "reservations" => held'[f] = Append(held[f], db.seq[f] + 1)
      /\ \A s \in Tables \ {"reservations", f} : held'[s] = held[s]
  BY <1>0, KeptArrays
<1>4. /\ f \in Tables /\ FilledAt[f] = line /\ ResetAt[f] < line /\ ClearedAt[f] < line
      /\ line \in Int /\ ResetAt[f] \in Int /\ ClearedAt[f] \in Int
      /\ db.seq[f] \in Nat /\ Records[f] \in Nat
      /\ line = ClearedAt[t] \/ line = FilledAt[t] => t = f
  BY FillLines, LineKinds, TableLines, TableTypes
  DEF SeedsInv, ServerInv, TypeOK, StoreTypeOK
<1> HIDE DEF e, f
<1>5. CASE t # f
  <2>1. /\ db'[t] = db[t] /\ db'.seq[t] = db.seq[t]
        /\ held'[t] = held[t] \/ t = "reservations"
        /\ line \notin {ClearedAt[t], FilledAt[t]}
    BY <1>1, <1>2, <1>3, <1>4, <1>5
  <2> QED
    BY <1>0, <2>1, SameTable
<1>6. CASE t = f
  <2> DEFINE n == db.seq[f]
  <2>1. Emptied(t)'
    BY <1>0, <1>4, <1>6 DEF Emptied, ResetAt, Tables
  <2>2. /\ db[f] = {SeedRow(f, i) : i \in 1..n}
        /\ f # "reservations" => held[f] = [i \in 1..n |-> i]
    BY <1>4 DEF Rebuilt
  <2>3. n \in Nat /\ db'.seq[f] = n + 1
    BY <1>1, <1>2, <1>4
  <2>4. db'[f] = {SeedRow(f, i) : i \in 1..(n + 1)}
    <3>1. 1..(n + 1) = (1..n) \cup {n + 1}
      BY <2>3
    <3>2. db'[f] = {SeedRow(f, i) : i \in 1..n} \cup {SeedRow(f, n + 1)}
      BY <1>1, <1>2, <2>2
    <3> HIDE DEF n
    <3> QED
      BY <3>1, <3>2
  <2>5. f # "reservations" => held'[f] = [i \in 1..(n + 1) |-> i]
    BY <1>3, <2>2, <2>3, CountOn
  <2>6. left' = (db'.seq[f] + 1)..Records[f] /\ db'.seq[f] <= Records[f]
    BY <1>2, <2>3
  <2>7. ~ NotYet(t)' /\ ~ Filled(t)'
    BY <1>0, <1>4, <1>6 DEF NotYet, Filled
  <2>8. {SeedRow(t, i) : i \in 1..db.seq[t]}' = {SeedRow(f, i) : i \in 1..(n + 1)}
    BY <1>0, <1>6, <2>3 DEF SeedRow
  <2> HIDE DEF n
  <2>9. Rebuilt(t)'
    BY <1>6, <2>3, <2>4, <2>5, <2>6, <2>7, <2>8 DEF Rebuilt
  <2> QED
    BY <2>1, <2>9
<1> QED
  BY <1>5, <1>6

\* The ids of a table start over.
LEMMA WholeReset ==
    ASSUME SeedsInv, NEW t \in Tables, Emptied(t), Rebuilt(t),
           line \in DOMAIN Resets, stage = "load",
           Autocommit(StartedOver(db, Resets[line])), Advance
    PROVE  Emptied(t)' /\ Rebuilt(t)'
<1> DEFINE r == Resets[line]
           e == StartedOver(db, r)
<1>0. /\ line' = Following[line] /\ stage' = "load" /\ db' = e
      /\ left' = left /\ held' = held /\ day' = day
  BY DEF Advance, Autocommit
<1>1. /\ r \in Tables /\ ResetAt[r] = line /\ Running
      /\ line \in Statement /\ line \notin DOMAIN Clears \cup DOMAIN Fills
  BY ResetLines, TaskLines DEF Running
<1>2. /\ \A s \in Tables : e[s] = db[s]
      /\ \A s \in Tables : e.seq[s] = IF s = r THEN Largest(Ids(db[r])) ELSE db.seq[s]
  BY <1>1, StartedOverSound DEF SeedsInv, ServerInv, TypeOK, StoreTypeOK
<1> HIDE DEF e, r
<1>3. CASE t # r
  <2>1. line # ResetAt[t]
    BY <1>1, <1>3, TableLines DEF r
  <2>2. db'[t] = db[t] /\ db'.seq[t] = db.seq[t]
    BY <1>0, <1>2, <1>3
  <2> QED
    BY <1>1, <2>1, <2>2, NextTable
<1>4. CASE t = r
  <2>1. /\ ClearedAt[t] \in 4..7 /\ line \in 10..13 /\ FilledAt[t] \in 16..51
        /\ line' \in Int /\ line < line' /\ line' <= FilledAt[t] /\ ResetAt[t] = line
    BY <1>0, <1>1, <1>4, NextLine, TableLines DEF Statement
  <2>2. db[t] = {}
    BY <2>1 DEF Emptied
  <2>3. Ids(db[t]) = {}
    BY <2>2 DEF Ids
  <2>4. Largest({}) = 0
    <3>1. \E x \in {0} : \A y \in {0} : x >= y
      OBVIOUS
    <3>2. Max({0}) = 0
      BY <3>1 DEF Max
    <3>3. {} \cup {0} = {0}
      OBVIOUS
    <3> QED
      BY <3>2, <3>3 DEF Largest
  <2>5. db'[t] = {} /\ db'.seq[t] = 0
    BY <1>0, <1>2, <1>4, <2>2, <2>3, <2>4
  <2>6. ~ Filling(t)' /\ ~ Filled(t)' /\ NotYet(t)
    BY <1>0, <2>1 DEF Filling, Filled, NotYet
  <2>7. t # "reservations" => held[t] = <<>>
    BY <2>6 DEF SeedsInv, ArraysFilled, Tables
  <2>8. t # "reservations" => held'[t] = [i \in 1..db'.seq[t] |-> i]
    BY <1>0, <2>5, <2>7
  <2>9. {SeedRow(t, i) : i \in 1..db.seq[t]}' = {}
    BY <2>5
  <2>10. Rebuilt(t)'
    BY <2>5, <2>6, <2>8, <2>9 DEF Rebuilt
  <2>11. Emptied(t)'
    BY <1>0, <2>1 DEF Emptied
  <2> QED
    BY <2>10, <2>11
<1> QED
  BY <1>3, <1>4

\* A step that leaves the database alone, and the statement where it is.
LEMMA WholeSame ==
    ASSUME SeedsInv, Whole, alone' => alone /\ db' = db,
           UNCHANGED <<line, left, held, day>>, stage' = "load" <=> stage = "load"
    PROVE  Whole'
<1>1. ASSUME alone', line' # 0, NEW t \in Tables
      PROVE  Emptied(t)' /\ Rebuilt(t)'
  <2>1. Emptied(t) /\ Rebuilt(t) /\ db' = db
    BY <1>1 DEF Whole
  <2> QED
    BY <2>1, SameTable
<1> QED
  BY <1>1 DEF Whole

\* No step of the seeds or the server leaves the invariant.
LEMMA NextWhole == SeedsInv /\ Whole /\ [SeedsNext]_allSeedVars => Whole'
<1> SUFFICES ASSUME SeedsInv, Whole, [SeedsNext]_allSeedVars PROVE Whole'
  OBVIOUS
<1>1. CASE Start
  <2>1. line' = 4 /\ stage' = "load"
    BY <1>1 DEF Start, Forgotten
  <2>2. ASSUME NEW t \in Tables PROVE Emptied(t)' /\ Rebuilt(t)'
    BY <2>1, TableLines DEF Emptied, Rebuilt
  <2> QED
    BY <2>2 DEF Whole
<1>2. CASE Stop
  BY <1>2 DEF Stop, Whole
<1>3. ASSUME NEW w \in Threads, Beside(Accept(w) \/ Serve(w) \/ Die(w)) PROVE Whole'
  BY <1>3, WholeSame DEF Beside
<1>4. CASE Beside(Midnight)
  BY <1>4, WholeSame DEF Beside
<1>5. CASE UNCHANGED allSeedVars
  BY <1>5, WholeSame DEF allSeedVars, allVars, vars, storeVars, seedVars
<1>6. ASSUME SeedStep, ~ Stop PROVE Whole'
  <2>0. line \in Statement /\ Running /\ alone' = alone
    BY <1>6, AtStatement
    DEF SeedStep, LoadAll, LoadSeeds, BeginRecord, WriteRecord, CommitRecord, NextStatement,
        ResetSequence, AttachImage, Advance
  <2> SUFFICES ASSUME alone, NEW t \in Tables
               PROVE  Emptied(t)' /\ Rebuilt(t)'
    BY <2>0 DEF Whole
  <2>1. \A s \in Tables : Emptied(s) /\ Rebuilt(s)
    BY <2>0, TaskLines DEF Whole
  <2>2. CASE LoadAll \/ LoadSeeds
    BY <2>1, <2>2, WholeLoad
  <2>3. CASE BeginRecord \/ WriteRecord
    <3>1. /\ stage # "load" /\ stage' # "load" /\ db' = db
          /\ UNCHANGED <<line, left, held, day>>
      BY <1>6, <2>3 DEF BeginRecord, WriteRecord, BeginRead, Write
    <3> QED
      BY <2>1, <3>1, SameTable
  <2>4. CASE CommitRecord
    <3>1. line \in DOMAIN Clears \cup DOMAIN Fills
      BY <2>4 DEF CommitRecord, SeedsInv, Staged
    <3> QED
      BY <2>1, <2>4, <3>1, WholeDestroy, WholeMake
  <2>5. CASE NextStatement
    <3>1. /\ stage = "next" /\ left = {} /\ Advance /\ db' = db
      BY <2>5 DEF NextStatement, vars, storeVars
    <3>2. line \in DOMAIN Clears \cup DOMAIN Fills
      BY <3>1 DEF SeedsInv, Staged
    <3>3. line # ResetAt[t]
      BY <3>2, TableLines, TaskLines
    <3> QED
      BY <2>0, <2>1, <3>1, <3>3, NextTable
  <2>6. CASE ResetSequence
    <3>1. /\ line \in DOMAIN Resets
          /\ Autocommit(StartedOver(db, Resets[line])) /\ Advance
      BY <1>6, <2>6 DEF ResetSequence
    <3>2. stage = "load"
      BY <3>1, TaskLines DEF SeedsInv, Staged
    <3> QED
      BY <2>1, <3>1, <3>2, WholeReset
  <2>7. CASE AttachImage
    <3>1. line \in {27, 29} /\ db' = db /\ Advance
      BY <1>6, <2>7 DEF AttachImage, Autocommit
    <3>2. line # ResetAt[t] /\ line \notin DOMAIN Clears \cup DOMAIN Fills
      BY <3>1, TableLines, TaskLines
    <3> QED
      BY <2>0, <2>1, <3>1, <3>2, NextTable
  <2> QED
    BY <1>6, <2>2, <2>3, <2>4, <2>5, <2>6, <2>7 DEF SeedStep
<1> QED
  BY <1>1, <1>2, <1>3, <1>4, <1>5, <1>6 DEF SeedsNext, SeederDies, Threads

\* Statement by statement, a script nobody disturbs empties each table, starts its ids
\* over and fills it with ids from 1.
THEOREM WholeInvariance == SeedsSpec => []WholeInv
<1>1. SeedsInit => Whole
  BY DEF SeedsInit, Whole
<1> QED
  BY <1>1, InitSeeds, NextSeeds, NextWhole, PTL DEF SeedsSpec, WholeInv

\* Seeds that come to their end undisturbed leave their rows and no others, for any
\* database they started on and after any number of runs that stopped anywhere.
THEOREM SeededToTheEnd == SeedsSpec => []SeededWhole
<1>1. ASSUME WholeInv, line = 58, alone PROVE db = Seeded
  <2>1. ASSUME NEW t \in Tables
        PROVE  /\ db[t] = {SeedRow(t, i) : i \in 1..Records[t]}
               /\ db.seq[t] = Records[t]
    <3>1. Rebuilt(t)
      BY <1>1 DEF WholeInv, Whole
    <3>2. ResetAt[t] < line /\ Filled(t)
      BY <1>1, TableLines DEF Filled
    <3> QED
      BY <3>1, <3>2 DEF Rebuilt
  <2>2. db.users = Seeded.users
    <3>1. db.users = {SeedRow("users", i) : i \in 1..3}
      BY <2>1 DEF Tables, Records
    <3> QED
      BY <3>1 DEF SeedRow, Seeded
  <2>3. db.hotels = Seeded.hotels
    <3>1. db.hotels = {SeedRow("hotels", i) : i \in 1..2}
      BY <2>1 DEF Tables, Records
    <3> QED
      BY <3>1 DEF SeedRow, Seeded
  <2>4. db.rooms = Seeded.rooms
    <3>1. db.rooms = {SeedRow("rooms", i) : i \in 1..4}
      BY <2>1 DEF Tables, Records
    <3> QED
      BY <3>1 DEF SeedRow, Seeded
  <2>5. db.reservations = Seeded.reservations
    <3>1. db.reservations = {SeedRow("reservations", i) : i \in 1..2}
      BY <2>1 DEF Tables, Records
    <3>2. 1..2 = {1, 2} /\ day \in Nat
      BY <1>1 DEF WholeInv, SeedsInv, Staged
    <3>3. db.reservations = {SeedRow("reservations", 1), SeedRow("reservations", 2)}
      BY <3>1, <3>2
    <3>4. /\ SeedRow("reservations", 1) = [id |-> 1, user |-> 2, room |-> 1,
                                           check_in |-> day, check_out |-> day + 3]
          /\ SeedRow("reservations", 2) = [id |-> 2, user |-> 3, room |-> 3,
                                           check_in |-> day + 1, check_out |-> day + 4]
      BY <3>2 DEF SeedRow
    <3> QED
      BY <3>3, <3>4 DEF Seeded
  <2>6. db.seq = Seeded.seq
    <3>1. db.seq \in [hotels: Nat, rooms: Nat, users: Nat, reservations: Nat]
      BY <1>1 DEF WholeInv, SeedsInv, ServerInv, TypeOK, StoreTypeOK, Database
    <3>2. /\ db.seq.users = 3 /\ db.seq.hotels = 2 /\ db.seq.rooms = 4
          /\ db.seq.reservations = 2
      BY <2>1 DEF Tables, Records
    <3> QED
      BY <3>1, <3>2 DEF Seeded
  <2>7. db \in Database
    BY <1>1 DEF WholeInv, SeedsInv, ServerInv, TypeOK, StoreTypeOK
  <2> QED
    BY <2>2, <2>3, <2>4, <2>5, <2>6, <2>7 DEF Database, Seeded
<1>2. WholeInv => SeededWhole
  BY <1>1 DEF SeededWhole
<1> QED
  BY <1>2, WholeInvariance, PTL
-----------------------------------------------------------------------------
(* What the ids in the arrays of the script mean. *)

\* Statements that rename nothing leave rows as they are, take rows away, or add a row
\* with the next id.
LEMMA StatementsOnlyNew ==
    ASSUME NEW d \in Database, NEW row, NEW id, NEW ids
    PROVE  /\ row.id = d.seq.hotels + 1 => OnlyNew(d, InsertHotel(d, row))
           /\ row.id = d.seq.rooms + 1 => OnlyNew(d, InsertRoom(d, row))
           /\ OnlyNew(d, InsertReservation(d, row))
           /\ OnlyNew(d, InsertUser(d, row))
           /\ OnlyNew(d, DestroyRooms(d, ids))
           /\ OnlyNew(d, DestroyHotel(d, id))
<1>0. d.seq.hotels \in Nat /\ d.seq.rooms \in Nat
  BY DEF Database
<1>1. ASSUME row.id = d.seq.hotels + 1 PROVE OnlyNew(d, InsertHotel(d, row))
  <2>1. /\ InsertHotel(d, row).hotels = d.hotels \cup {row}
        /\ InsertHotel(d, row).rooms = d.rooms
        /\ InsertHotel(d, row).seq.hotels = row.id
        /\ InsertHotel(d, row).seq.rooms = d.seq.rooms
    BY DEF InsertHotel, Database
  <2> QED
    BY <1>0, <1>1, <2>1 DEF OnlyNew
<1>2. ASSUME row.id = d.seq.rooms + 1 PROVE OnlyNew(d, InsertRoom(d, row))
  <2>1. /\ InsertRoom(d, row).rooms = d.rooms \cup {row}
        /\ InsertRoom(d, row).hotels = d.hotels
        /\ InsertRoom(d, row).seq.rooms = row.id
        /\ InsertRoom(d, row).seq.hotels = d.seq.hotels
    BY DEF InsertRoom, Database
  <2> QED
    BY <1>0, <1>2, <2>1 DEF OnlyNew
<1>3. ASSUME NEW e, e.hotels \subseteq d.hotels, e.rooms \subseteq d.rooms,
             e.seq.hotels = d.seq.hotels, e.seq.rooms = d.seq.rooms
      PROVE  OnlyNew(d, e)
  BY <1>0, <1>3 DEF OnlyNew
<1>4. OnlyNew(d, InsertReservation(d, row))
  <2>1. /\ InsertReservation(d, row).hotels = d.hotels
        /\ InsertReservation(d, row).rooms = d.rooms
        /\ InsertReservation(d, row).seq.hotels = d.seq.hotels
        /\ InsertReservation(d, row).seq.rooms = d.seq.rooms
    BY DEF InsertReservation, Database
  <2> QED
    BY <1>3, <2>1
<1>5. OnlyNew(d, InsertUser(d, row))
  <2>1. /\ InsertUser(d, row).hotels = d.hotels
        /\ InsertUser(d, row).rooms = d.rooms
        /\ InsertUser(d, row).seq.hotels = d.seq.hotels
        /\ InsertUser(d, row).seq.rooms = d.seq.rooms
    BY DEF InsertUser, Database
  <2> QED
    BY <1>3, <2>1
<1>6. OnlyNew(d, DestroyRooms(d, ids))
  BY <1>3, DestroyRoomsTables
<1>7. OnlyNew(d, DestroyHotel(d, id))
  BY <1>3, DestroyHotelTables
<1> QED
  BY <1>1, <1>2, <1>4, <1>5, <1>6, <1>7

\* A write statement of a thread upgrades the snapshot it was given, or answers.
LEMMA ExecuteOnlyNew ==
    ASSUME SeedsInv, NEW w \in Threads, pc[w] = "write",
           NEW d, NEW row, Execute(w, d, row),
           OnlyNew(view[w], d)
    PROVE  /\ \A v \in Worker \ {w} : pc'[v] = pc[v]
           /\ pc'[w] = "commit" => db' = db /\ OnlyNew(db, view'[w])
<1>1. /\ w \in Worker /\ pc \in [Worker -> Stage]
      /\ view \in [Worker -> Database \cup {NoSnapshot}]
      /\ w \notin stale => view[w] = db
  BY DEF Threads, SeedsInv, ServerInv, TypeOK, StoreTypeOK, Snapshots
<1>2. CASE Fail(w)
  BY <1>1, <1>2 DEF Fail
<1>3. CASE CanWrite(w) /\ Write(w, d) /\ pc' = [pc EXCEPT ![w] = "commit"]
  BY <1>1, <1>3 DEF CanWrite, Write
<1> QED
  BY <1>2, <1>3 DEF Execute

\* A thread comes to COMMIT by a statement that renames nothing.
LEMMA ThreadOnlyNew ==
    ASSUME SeedsInv, NoRenaming, NEW w \in Threads, Accept(w) \/ Serve(w) \/ Die(w)
    PROVE  /\ \A v \in Worker \ {w} : pc'[v] = pc[v]
           /\ pc'[w] = "commit" => db' = db /\ OnlyNew(db, view'[w])
<1>0. /\ w \in Worker /\ pc \in [Worker -> Stage]
      /\ pc[w] # "idle" => req[w].op \notin {"update_hotel", "update_room"}
      /\ pc[w] = "write" /\ CanWrite(w) => view[w] \in Database
  BY DEF Threads, SeedsInv, ServerInv, TypeOK, StoreTypeOK, Loaded, Snapshots, NoRenaming,
         CanWrite
<1>1. CASE Accept(w)
  BY <1>0, <1>1 DEF Accept, BookAccept, HotelAccept, RoomAccept, SignUpAccept, LoginAccept,
                    Refuse, Load
<1>2. CASE BookCheck(w) \/ BookRender(w)
  BY <1>0, <1>2 DEF BookCheck, BookRender, Proceed, Reject, Render
<1>3. CASE HotelCreateCheck(w) \/ HotelUpdateCheck(w) \/ HotelDestroyCheck(w) \/ HotelRender(w)
  BY <1>0, <1>3 DEF HotelCreateCheck, HotelUpdateCheck, HotelDestroyCheck, HotelRender,
                    Proceed, Reject, SkipWrite, Render
<1>4. CASE RoomCreateCheck(w) \/ RoomUpdateCheck(w) \/ RoomDestroyCheck(w) \/ RoomRender(w)
  BY <1>0, <1>4 DEF RoomCreateCheck, RoomUpdateCheck, RoomDestroyCheck, RoomRender,
                    Proceed, Reject, SkipWrite, Render
<1>5. CASE SignUpCheck(w) \/ SignUpRender(w) \/ LoginRender(w)
  BY <1>0, <1>5 DEF SignUpCheck, SignUpRender, LoginRender, Proceed, Reject, Render
<1>6. CASE CommitWrite(w) \/ Finish(w) \/ Die(w)
  BY <1>0, <1>6 DEF CommitWrite, Finish, Die, Crash, Forget
<1>7. CASE HotelUpdateWrite(w) \/ RoomUpdateWrite(w)
  BY <1>0, <1>7 DEF HotelUpdateWrite, RoomUpdateWrite
<1>8. ASSUME pc[w] = "write", NEW d, NEW row, Execute(w, d, row),
             view[w] \in Database => OnlyNew(view[w], d)
      PROVE  /\ \A v \in Worker \ {w} : pc'[v] = pc[v]
             /\ pc'[w] = "commit" => db' = db /\ OnlyNew(db, view'[w])
  <2>1. CASE CanWrite(w)
    BY <1>0, <1>8, <2>1, ExecuteOnlyNew
  <2>2. CASE ~ CanWrite(w)
    BY <1>0, <1>8, <2>2 DEF Execute, Fail
  <2> QED
    BY <2>1, <2>2
<1>9. CASE BookWrite(w)
  <2> DEFINE new == Booking(view[w], req[w], rec[w])
  <2> HIDE DEF new
  <2>1. pc[w] = "write" /\ Execute(w, InsertReservation(view[w], new), new)
    BY <1>9 DEF BookWrite, new
  <2> QED
    BY <1>8, <2>1, StatementsOnlyNew
<1>10. CASE HotelCreateWrite(w)
  <2> DEFINE new == [id |-> view[w].seq.hotels + 1, name |-> req[w].name]
  <2>1. new.id = view[w].seq.hotels + 1
    OBVIOUS
  <2>2. pc[w] = "write" /\ Execute(w, InsertHotel(view[w], new), new)
    BY <1>10 DEF HotelCreateWrite
  <2> HIDE DEF new
  <2> QED
    BY <1>8, <2>1, <2>2, StatementsOnlyNew
<1>11. CASE RoomCreateWrite(w)
  <2> DEFINE new == [id     |-> view[w].seq.rooms + 1,
                     number |-> req[w].number,
                     hotel  |-> req[w].hotel]
  <2>1. new.id = view[w].seq.rooms + 1
    OBVIOUS
  <2>2. pc[w] = "write" /\ Execute(w, InsertRoom(view[w], new), new)
    BY <1>11 DEF RoomCreateWrite
  <2> HIDE DEF new
  <2> QED
    BY <1>8, <2>1, <2>2, StatementsOnlyNew
<1>12. CASE SignUpWrite(w)
  <2> DEFINE new == Account(view[w], req[w])
  <2> HIDE DEF new
  <2>1. pc[w] = "write" /\ Execute(w, InsertUser(view[w], new), new)
    BY <1>12 DEF SignUpWrite, new
  <2> QED
    BY <1>8, <2>1, StatementsOnlyNew
<1>13. CASE HotelDestroyWrite(w)
  <2>1. pc[w] = "write" /\ Execute(w, DestroyHotel(view[w], rec[w].id), NoRow)
    BY <1>13 DEF HotelDestroyWrite
  <2> QED
    BY <1>8, <2>1, StatementsOnlyNew
<1>14. CASE RoomDestroyWrite(w)
  <2>1. pc[w] = "write" /\ Execute(w, DestroyRooms(view[w], {rec[w].id}), NoRow)
    BY <1>14 DEF RoomDestroyWrite
  <2> QED
    BY <1>8, <2>1, StatementsOnlyNew
<1> QED
  BY <1>1, <1>2, <1>3, <1>4, <1>5, <1>6, <1>7, <1>9, <1>10, <1>11, <1>12, <1>13, <1>14
  DEF Serve, BookStep, HotelStep, RoomStep, AccountStep

\* A commit that adds only new rows does not touch what the ids mean.
LEMMA StillMeant ==
    ASSUME SeedsInv, MeantAsMade(db), held' = held, db' \in Database, OnlyNew(db, db')
    PROVE  MeantAsMade(db)'
<1>0. /\ held.hotels \in Seq(Id) /\ held.rooms \in Seq(Id)
      /\ db.seq.hotels \in Nat /\ db.seq.rooms \in Nat
      /\ db'.seq.hotels \in Nat /\ db'.seq.rooms \in Nat
  BY DEF SeedsInv, ArraysFilled, ServerInv, TypeOK, StoreTypeOK, Database
<1>1. ASSUME NEW i \in DOMAIN held.hotels
      PROVE  /\ held.hotels[i] <= db'.seq.hotels
             /\ \A h \in db'.hotels : h.id = held.hotels[i] => h.name = HotelSeeds[i]
  <2>1. held.hotels[i] \in Nat /\ held.hotels[i] <= db.seq.hotels
    BY <1>0, <1>1 DEF MeantAsMade, Id
  <2>2. \A h \in db'.hotels : h.id = held.hotels[i] => h \in db.hotels
    BY <1>0, <2>1 DEF OnlyNew
  <2> QED
    BY <1>0, <1>1, <2>1, <2>2 DEF MeantAsMade, OnlyNew
<1>2. ASSUME NEW i \in DOMAIN held.rooms
      PROVE  /\ held.rooms[i] <= db'.seq.rooms
             /\ \A r \in db'.rooms : r.id = held.rooms[i] =>
                   r.number = RoomSeeds[i] /\ r.hotel = held.hotels[(i + 1) \div 2]
  <2>1. held.rooms[i] \in Nat /\ held.rooms[i] <= db.seq.rooms
    BY <1>0, <1>2 DEF MeantAsMade, Id
  <2>2. \A r \in db'.rooms : r.id = held.rooms[i] => r \in db.rooms
    BY <1>0, <2>1 DEF OnlyNew
  <2>3. held.rooms[i] <= db'.seq.rooms
    BY <1>0, <2>1 DEF OnlyNew
  <2>4. \A r \in db.rooms : r.id = held.rooms[i] =>
            r.number = RoomSeeds[i] /\ r.hotel = held.hotels[(i + 1) \div 2]
    BY <1>2 DEF MeantAsMade
  <2> QED
    BY <2>2, <2>3, <2>4
<1> QED
  BY <1>1, <1>2 DEF MeantAsMade

\* Before the tables are filled the arrays are empty.
LEMMA NothingMeant ==
    ASSUME SeedsInv, line < 16, held' \in {held, Nothing}
    PROVE  MeantAsMade(db)'
<1>1. NotYet("hotels") /\ NotYet("rooms")
  BY DEF NotYet, FilledAt, SeedsInv, Staged, Statement
<1>2. held.hotels = <<>> /\ held.rooms = <<>>
  BY <1>1 DEF SeedsInv, ArraysFilled
<1>3. held'.hotels = <<>> /\ held'.rooms = <<>>
  BY <1>2 DEF Nothing
<1> QED
  BY <1>3 DEF MeantAsMade

\* The record just committed is the one its id will mean.
LEMMA RecordMeant ==
    ASSUME SeedsInv, MeantAsMade(db), CommitRecord, line \in DOMAIN Fills
    PROVE  MeantAsMade(db)'
<1> DEFINE t == Fills[line]
           i == Min(left)
           e == view[Seeder]
<1>a. /\ stage = "commit" /\ stage # "load" /\ left # {} /\ t \in Tables
      /\ db' = e /\ held' = Kept(e, t)
  BY FillLines DEF CommitRecord, Commit, SeedsInv, Staged
<1>b. db \in Database /\ e \in Database /\ e = Changed(db) /\ Sound(e)
  BY <1>a, SeederAssumption
  DEF SeedsInv, OwnTransaction, InTransaction, ServerInv, TypeOK, StoreTypeOK
<1>c. Changed(db) = Inserted(db, t, i)
  BY TaskLines DEF Changed
<1> HIDE DEF e
<1>0. /\ stage = "commit" /\ stage # "load" /\ left # {} /\ t \in Tables
      /\ db \in Database /\ e = Inserted(db, t, i) /\ db' = e /\ held' = Kept(e, t)
      /\ e \in Database /\ Sound(e)
  BY <1>a, <1>b, <1>c
<1>1. CASE t = "users"
  <2>1. e = InsertUser(db, UserSeed(db, i)) /\ held'.hotels = held.hotels
        /\ held'.rooms = held.rooms
    BY <1>0, <1>1, KeptArrays DEF Inserted, Tables, e
  <2>2. OnlyNew(db, e)
    BY <1>0, <2>1, StatementsOnlyNew
  <2>3. line < 16 \/ line = 16
    BY <1>1, LineKinds DEF Fills
  <2>4. NotYet("hotels") /\ NotYet("rooms")
    BY <2>3 DEF NotYet, FilledAt, SeedsInv, Staged, Statement
  <2>5. held.hotels = <<>> /\ held.rooms = <<>>
    BY <2>4 DEF SeedsInv, ArraysFilled
  <2> QED
    BY <2>1, <2>5 DEF MeantAsMade
<1>2. CASE t = "reservations"
  <2>1. e = InsertReservation(db, StaySeed(db, i)) /\ held' = held
    BY <1>0, <1>2 DEF Inserted, Kept
  <2>2. OnlyNew(db, e)
    BY <1>0, <2>1, StatementsOnlyNew
  <2> QED
    BY <1>0, <2>1, <2>2, StillMeant
<1>3. CASE t = "hotels"
  <2> DEFINE row == HotelSeed(db, i)
             n   == Len(held.hotels)
  <2>1. /\ e = InsertHotel(db, row) /\ row \in HotelRow
        /\ row.id = db.seq.hotels + 1 /\ row.name = HotelSeeds[i]
        /\ i = n + 1
        /\ held'.hotels = Append(held.hotels, db.seq.hotels + 1)
        /\ held'.rooms = held.rooms
    BY <1>0, <1>3, KeptArrays, SeedRows, NextRecord DEF Inserted, Tables, HotelSeed, e
  <2>2. /\ e.hotels = db.hotels \cup {row} /\ e.seq.hotels = db.seq.hotels + 1
    BY <1>0, <2>1, InsertHotelTables
  <2>3. NotYet("rooms")
    BY <1>3, LineKinds DEF Fills, NotYet, FilledAt
  <2>4. held.rooms = <<>>
    BY <2>3 DEF SeedsInv, ArraysFilled
  <2>5. held.hotels \in Seq(Id) /\ n \in Nat /\ db.seq.hotels \in Nat
    BY <1>0 DEF SeedsInv, ArraysFilled, Database
  <2>6. KeysUnique(db.hotels, db.seq.hotels) /\ \A h \in db.hotels : h.id \in Nat
    BY <1>0 DEF SeedsInv, ServerInv, Sound, PrimaryKeys, Database, HotelRow, Id
  <2> HIDE DEF row, n
  <2>7. ASSUME NEW j \in DOMAIN held'.hotels
        PROVE  /\ held'.hotels[j] <= e.seq.hotels
               /\ \A h \in e.hotels : h.id = held'.hotels[j] => h.name = HotelSeeds[j]
    <3>0. DOMAIN held'.hotels = 1..(n + 1)
      BY <2>1, <2>5 DEF n
    <3>1. CASE j = n + 1
      <4>1. held'.hotels[j] = db.seq.hotels + 1
        BY <2>1, <2>5, <3>1 DEF n
      <4>2. \A h \in db.hotels : h.id # db.seq.hotels + 1
        BY <2>5, <2>6 DEF KeysUnique
      <4> QED
        BY <2>1, <2>2, <2>5, <3>1, <4>1, <4>2
    <3>2. CASE j # n + 1
      <4>1. j \in DOMAIN held.hotels /\ held'.hotels[j] = held.hotels[j]
        BY <2>1, <2>5, <2>7, <3>0, <3>2 DEF n
      <4>2. /\ held.hotels[j] <= db.seq.hotels
            /\ \A h \in db.hotels : h.id = held.hotels[j] => h.name = HotelSeeds[j]
        BY <4>1 DEF MeantAsMade
      <4>3. held.hotels[j] \in Nat
        BY <2>5, <4>1 DEF Id
      <4> QED
        BY <2>1, <2>2, <2>5, <4>1, <4>2, <4>3
    <3> QED
      BY <3>1, <3>2
  <2>8. held'.rooms = <<>>
    BY <2>1, <2>4
  <2> QED
    BY <1>0, <2>7, <2>8 DEF MeantAsMade
<1>4. CASE t = "rooms"
  <2> DEFINE row == RoomSeed(db, i)
             n   == Len(held.rooms)
  <2>1. /\ e = InsertRoom(db, row) /\ row \in RoomRow
        /\ row.id = db.seq.rooms + 1 /\ row.number = RoomSeeds[i]
        /\ row.hotel = held.hotels[(i + 1) \div 2]
        /\ i = n + 1
        /\ held'.rooms = Append(held.rooms, db.seq.rooms + 1)
        /\ held'.hotels = held.hotels
    BY <1>0, <1>4, KeptArrays, SeedRows, NextRecord DEF Inserted, Tables, RoomSeed, e
  <2>2. /\ e.rooms = db.rooms \cup {row} /\ e.seq.rooms = db.seq.rooms + 1
        /\ e.hotels = db.hotels /\ e.seq.hotels = db.seq.hotels
    BY <1>0, <2>1, InsertRoomTables
  <2>3. held.rooms \in Seq(Id) /\ n \in Nat /\ db.seq.rooms \in Nat
    BY <1>0 DEF SeedsInv, ArraysFilled, Database
  <2>4. KeysUnique(db.rooms, db.seq.rooms) /\ \A r \in db.rooms : r.id \in Nat
    BY <1>0 DEF SeedsInv, ServerInv, Sound, PrimaryKeys, Database, RoomRow, Id
  <2> HIDE DEF row, n
  <2>5. ASSUME NEW j \in DOMAIN held'.rooms
        PROVE  /\ held'.rooms[j] <= e.seq.rooms
               /\ \A r \in e.rooms : r.id = held'.rooms[j] =>
                     r.number = RoomSeeds[j] /\ r.hotel = held'.hotels[(j + 1) \div 2]
    <3>0. DOMAIN held'.rooms = 1..(n + 1)
      BY <2>1, <2>3 DEF n
    <3>1. CASE j = n + 1
      <4>1. held'.rooms[j] = db.seq.rooms + 1
        BY <2>1, <2>3, <3>1 DEF n
      <4>2. \A r \in db.rooms : r.id # db.seq.rooms + 1
        BY <2>3, <2>4 DEF KeysUnique
      <4>3. j = i
        BY <2>1, <3>1
      <4> QED
        BY <2>1, <2>2, <2>3, <4>1, <4>2, <4>3
    <3>2. CASE j # n + 1
      <4>1. j \in DOMAIN held.rooms /\ held'.rooms[j] = held.rooms[j]
        BY <2>1, <2>3, <2>5, <3>0, <3>2 DEF n
      <4>2. /\ held.rooms[j] <= db.seq.rooms
            /\ \A r \in db.rooms : r.id = held.rooms[j] =>
                  r.number = RoomSeeds[j] /\ r.hotel = held.hotels[(j + 1) \div 2]
        BY <4>1 DEF MeantAsMade
      <4>3. held.rooms[j] \in Nat
        BY <2>3, <4>1 DEF Id
      <4> QED
        BY <2>1, <2>2, <2>3, <4>1, <4>2, <4>3
    <3> QED
      BY <3>1, <3>2
  <2>6. \A j \in DOMAIN held'.hotels :
            /\ held'.hotels[j] <= e.seq.hotels
            /\ \A h \in e.hotels : h.id = held'.hotels[j] => h.name = HotelSeeds[j]
    BY <2>1, <2>2 DEF MeantAsMade
  <2> QED
    BY <1>0, <2>5, <2>6 DEF MeantAsMade
<1> QED
  BY <1>0, <1>1, <1>2, <1>3, <1>4 DEF Tables

\* While a thread is at COMMIT the script commits nothing.
LEMMA SeedsWait ==
    ASSUME SeedsInv, SeedStep \/ SeederDies, NEW w \in Threads, pc[w] = "commit"
    PROVE  pc' = pc /\ db' = db /\ view'[w] = view[w]
<1>0. /\ w # Seeder /\ w # NoOne /\ writer = w /\ Seeder # NoOne /\ w \in Worker
      /\ Seeder \in Worker
      /\ view \in [Worker -> Database \cup {NoSnapshot}]
      /\ stage = "commit" => writer = Seeder
  BY SeederAssumption, WorkerAssumption
  DEF Threads, SeedsInv, ServerInv, LockHeld, OwnTransaction, TypeOK, StoreTypeOK
<1>1. CASE Stop
  BY <1>0, <1>1 DEF Stop, Rollback, handlerVars
<1>2. CASE LoadAll \/ LoadSeeds \/ NextStatement
  BY <1>2 DEF LoadAll, LoadSeeds, NextStatement, vars, storeVars, handlerVars
<1>3. CASE BeginRecord /\ ~ Stop
  BY <1>0, <1>3 DEF BeginRecord, BeginRead, handlerVars
<1>4. CASE WriteRecord /\ ~ Stop
  BY <1>0, <1>4 DEF WriteRecord, CanWrite
<1>5. CASE CommitRecord
  BY <1>0, <1>5 DEF CommitRecord
<1>6. CASE (ResetSequence \/ AttachImage) /\ ~ Stop
  BY <1>0, <1>6 DEF ResetSequence, AttachImage, Autocommit
<1> QED
  BY <1>1, <1>2, <1>3, <1>4, <1>5, <1>6 DEF SeedStep, SeederDies

\* The script itself keeps to the meaning of its ids.
LEMMA SeedStepMeant ==
    ASSUME SeedsInv, MeantAsMade(db), Start \/ SeedStep \/ SeederDies
    PROVE  MeantAsMade(db)'
<1>1. CASE Start \/ Stop
  <2>1. held'.hotels = <<>> /\ held'.rooms = <<>>
    BY <1>1 DEF Start, Stop, Forgotten, Nothing
  <2> QED
    BY <2>1 DEF MeantAsMade
<1>2. CASE db' = db /\ held' = held
  BY <1>2 DEF MeantAsMade
<1>3. CASE LoadAll \/ LoadSeeds \/ NextStatement
  BY <1>2, <1>3 DEF LoadAll, LoadSeeds, NextStatement, Advance, vars, storeVars
<1>4. CASE (BeginRecord \/ WriteRecord \/ AttachImage) /\ ~ Stop
  BY <1>2, <1>4 DEF BeginRecord, BeginRead, WriteRecord, Write, AttachImage, Autocommit,
                    Advance
<1>5. CASE ResetSequence /\ ~ Stop
  <2>1. line < 16 /\ held' = held
    BY <1>5, LineKinds DEF ResetSequence, Advance
  <2> QED
    BY <2>1, NothingMeant
<1>6. CASE CommitRecord
  <2>1. CASE line \in DOMAIN Fills
    BY <1>6, <2>1, RecordMeant
  <2>2. CASE line \notin DOMAIN Fills
    <3>1. stage = "commit" /\ held' = held
      BY <1>6, <2>2 DEF CommitRecord
    <3>2. line \in DOMAIN Clears
      BY <2>2, <3>1 DEF SeedsInv, Staged
    <3>3. line < 16
      BY <3>2, LineKinds
    <3> QED
      BY <3>1, <3>3, NothingMeant
  <2> QED
    BY <2>1, <2>2
<1> QED
  BY <1>1, <1>3, <1>4, <1>5, <1>6 DEF SeedStep, SeederDies

\* No step makes an id of the script mean something else.
LEMMA NextMeant ==
    ASSUME MeantInv, NoRenaming, [SeedsNext]_allSeedVars
    PROVE  MeantInv'
<1>0. SeedsInv /\ SeedsInv' /\ MeantAsMade(db) /\ db' \in Database
  BY NextSeeds DEF MeantInv, SeedsInv, ServerInv, TypeOK, StoreTypeOK
<1>1. CASE UNCHANGED <<vars, held>>
  <2>1. db' = db /\ view' = view /\ pc' = pc /\ held' = held
    BY <1>1 DEF vars, storeVars, handlerVars
  <2> QED
    BY <1>0, <2>1 DEF MeantInv, MeantAsMade
<1>2. CASE Start
  <2>1. db' = db /\ view' = view /\ pc' = pc
    BY <1>2 DEF Start, vars, storeVars, handlerVars
  <2> QED
    BY <1>0, <1>2, <2>1, SeedStepMeant DEF MeantInv
<1>3. CASE SeedStep \/ SeederDies
  <2>1. pc' = pc
    BY <1>3 DEF SeedStep, SeederDies, LoadAll, LoadSeeds, BeginRecord, WriteRecord,
                CommitRecord, NextStatement, ResetSequence, AttachImage, Autocommit, Stop,
                vars, handlerVars
  <2>2. ASSUME NEW v \in Threads, pc'[v] = "commit"
        PROVE  OnlyNew(db', view'[v])
    BY <1>0, <1>3, <2>1, <2>2, SeedsWait DEF MeantInv
  <2> QED
    BY <1>0, <1>3, <2>2, SeedStepMeant DEF MeantInv
<1>4. ASSUME NEW w \in Threads, Beside(Accept(w) \/ Serve(w) \/ Die(w))
      PROVE  MeantInv'
  <2>0. /\ Accept(w) \/ Serve(w) \/ Die(w)
        /\ held' = held
    BY <1>4 DEF Beside
  <2>1. StoreEffect(w)
    BY <2>0, ThreadEffect
  <2>2. /\ \A v \in Worker \ {w} : pc'[v] = pc[v]
        /\ pc'[w] = "commit" => db' = db /\ OnlyNew(db, view'[w])
    BY <1>0, <2>0, ThreadOnlyNew
  <2>3. /\ \A v \in Threads : pc[v] = "commit" => writer = v
        /\ Threads \subseteq Worker
        /\ view \in [Worker -> Database \cup {NoSnapshot}]
    BY <1>0 DEF Threads, SeedsInv, ServerInv, LockHeld, TypeOK, StoreTypeOK
  <2>4. /\ db' = db \/ (pc[w] = "commit" /\ db' = view[w])
        /\ \A v \in Worker \ {w} : view'[v] = view[v]
    BY <2>1, <2>3 DEF StoreEffect, storeVars, BeginRead, Write, Commit, Rollback
  <2>5. MeantAsMade(db)'
    <3>1. CASE db' = db
      BY <1>0, <2>0, <3>1 DEF MeantAsMade
    <3>2. CASE pc[w] = "commit" /\ db' = view[w]
      BY <1>0, <2>0, <3>2, StillMeant DEF MeantInv
    <3> QED
      BY <2>4, <3>1, <3>2
  <2>6. ASSUME NEW v \in Threads, pc'[v] = "commit"
        PROVE  OnlyNew(db', view'[v])
    <3>1. CASE v = w
      BY <2>2, <2>6, <3>1
    <3>2. CASE v # w
      <4>1. pc[v] = "commit" /\ view'[v] = view[v]
        BY <2>2, <2>3, <2>4, <2>6, <3>2
      <4>2. db' = db
        BY <2>3, <2>4, <3>2, <4>1
      <4> QED
        BY <4>1, <4>2 DEF MeantInv
    <3> QED
      BY <3>1, <3>2
  <2> QED
    BY <1>0, <2>5, <2>6 DEF MeantInv
<1>5. CASE Beside(Midnight)
  BY <1>1, <1>5 DEF Beside, Midnight
<1>6. CASE UNCHANGED allSeedVars
  BY <1>1, <1>6 DEF allSeedVars, allVars, seedVars
<1> QED
  BY <1>2, <1>3, <1>4, <1>5, <1>6 DEF SeedsNext, Threads

\* While requests rename nothing, an id the script keeps never means another hotel or
\* room than the one it made, whatever is destroyed and made beside it and however the
\* ids start over: the rooms and the stays it adds go where it says.
THEOREM HeldIdsKeepMeaning == NoRenaming => (SeedsSpec => []HeldIdsStay)
<1> SUFFICES ASSUME NoRenaming PROVE SeedsSpec => []HeldIdsStay
  OBVIOUS
<1>1. SeedsInit => MeantInv
  <2> SUFFICES ASSUME SeedsInit PROVE MeantInv
    OBVIOUS
  <2>1. held.hotels = <<>> /\ held.rooms = <<>>
    BY DEF SeedsInit, Nothing
  <2>2. MeantAsMade(db)
    BY <2>1 DEF MeantAsMade
  <2>3. \A w \in Threads : pc[w] # "commit"
    BY DEF SeedsInit, Init, HandlerInit, Threads
  <2> QED
    BY <2>2, <2>3, InitSeeds DEF MeantInv
<1>2. MeantInv /\ [SeedsNext]_allSeedVars => MeantInv'
  BY NextMeant
<1>3. MeantInv => HeldIdsStay
  BY DEF MeantInv, MeantAsMade, HeldIdsStay
<1> QED
  BY <1>1, <1>2, <1>3, PTL DEF SeedsSpec
=============================================================================
