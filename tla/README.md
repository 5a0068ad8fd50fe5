# Hotel System: models, checks and proofs

TLA+ for the hotel reservation API of this repository (Rails 7.1 on Puma and
SQLite), for the script that seeds its database, and for the scripts of the API
documentation in `doc/`. The API is a set of short request handlers, each correct
when it runs alone. What a test of it hardly reaches is what happens *between*
their statements: other threads, a destroyed row, a commit, a crash. The scripts of
the documentation are event handlers, and what a test of them hardly reaches is what
happens between two events: a timer that is pending, a message on its way, a slide
that has not ended. That is what is modelled here.

## 1. Inventory

| Component | State | Operations | Interacts with |
|---|---|---|---|
| Schema (`db/schema.rb`) | rows of `hotels`, `rooms`, `reservations`, `users`; `sqlite_sequence`; three foreign keys; **no** unique index on names, numbers or usernames | insert, update, delete, foreign-key check | everything |
| SQLite and its connections (`config/database.yml`, gem) | committed database, one snapshot per open transaction, one write lock | begin, upgrade to writer, commit, rollback, recovery | one connection per Puma thread |
| Puma (`config/puma.rb`) | threads, processes | serve, crash, restart | runs the controllers concurrently |
| ApplicationController, JwtService | `current_user` | `authenticate_user!`, `authenticate_admin!` | reads `users` |
| ReservationsController#create, Reservation | the row being built | parse dates, find room, validate, insert, render | Room, Hotel (when rendering), DateParser |
| ReservationsController#index, #all_reservations | none | several reads, pagination | Reservation scopes, clock |
| HotelsController, Hotel | the loaded hotel | create, update, destroy with cascade | Room, Reservation |
| RoomsController, Room | the loaded room | create, update, destroy with cascade, available | Hotel, Reservation |
| DateParser | none | classify two parameters | create, available |
| UsersController, SessionsController, User | `users` | sign up, log in | JwtService |
| Images (ActiveStorage) | blobs, attachments, files | attach, upload after commit, purge later | Hotel, Room, User |
| Seeds (`db/seeds.rb`) | all tables | destroy, reset sequences, rebuild | all models |
| Documentation list (`doc/js/full_list.js`) | the rows of the list and their classes, a pending chunk of a search, the row clicked last | search as the reader types, fold, click, open at a path, tell the page | frame inside a page of the documentation, by messages |
| Documentation pages (`doc/js/app.js`) | the frame and its link, the table of contents, the summaries, `localStorage` | ask the list to open, slide it in and out, number and nest headings, collapse summaries | the list, other tabs |
| Serializers | none | read associations | rendering after the commit |
| Mailer, job, cable base classes | none | none | nothing |

### Hard behaviours

* **Check, then write.** Availability of a room, uniqueness of a name or of a
  number are looked up by a `SELECT` in the validations and relied on by a later
  `INSERT` or `UPDATE`. No constraint in the schema repeats them.
* **Rows loaded outside the transaction.** `find_room`, `set_room` and `set_hotel`
  run before the transaction of `save`, `update` or `destroy`. The row may be gone
  or changed when the transaction starts.
* **Cascades.** Destroying a hotel destroys rooms and, with them, reservations.
* **Work after the commit.** The JSON of a booking reads `room.hotel.name` when the
  booking is already committed; the image of an account, a hotel or a room is uploaded
  when its row is.
* **Two readings of a date.** `DateParser` and the attribute cast disagree on some
  texts, and what is stored is the cast.
* **Failure.** SQLite refuses a write at once when the snapshot is out of date;
  nobody rescues it. A process may die anywhere.
* **Ids.** Requests hold ids across transactions; AUTOINCREMENT must not reuse them.
* **Time.** `Date.today` may change within a request: `index` reads it four times.
* **Many statements, no transaction.** A page of a listing is a count, a select per
  scope and the preloads of each, and a reader walks several pages.
* **A rebuild record by record.** The seeds destroy, start the ids over and create in
  some twenty transactions, beside a server that may be up, and stop anywhere.
* **Callbacks.** A search of the list goes on in `setTimeout`, page and frame load and
  talk side by side, jQuery queues slides while the code decides by what is displayed.

### What makes each component correct

* Store: one writer, and nobody writes over a snapshot that is out of date.
* Booking: no two stays of a room share a night; every stay has a night; 201 means
  stored, any other answer means not stored.
* Catalog: names and numbers unique; cascades leave nothing that a foreign key could
  still stop; destroyed ids stay gone.
* Accounts: usernames unique; a token names the account it was asked for.
* Errors: an error leaves nothing behind, but a row whose image failed.
* Listings: nothing twice, nothing left out without a reason the reader could name.
* Seeds: undisturbed they leave the rows they spell out, and the tables are sound all along.
* Handlers: every request is answered or dies with its process.
* Whole API: every transaction looks like one atomic entry in a ledger.
* Documentation: the results fit the last query; a list that has the page opens at it,
  once; link and list, label and summary, entry and heading agree.

PROJECT.json lists every hazard at its line, with the properties that cover it.

## 2. Modules

```
Schema -- SqliteStore --+-- Handler --+-- Reservations --+
          BookingDates -+             +-- Hotels --------+
                                      +-- Rooms ---------+-- HotelSystem --+-- HotelSystemInvariant
                                      +-- Accounts ------+    |            |      |-- HotelSystemProofs
                                              BookingLedger --+            |      |-- HotelSystemOutcomes --+-- HotelSystemOutcomeProofs
                                               (refinement)                |                                +-- MCHotelSystem
                                                                           +-- Listings -- ListingsInvariant --+-- ListingsProofs
                                                                           |                                   +-- MCListings
                                                                           +-- Seeds --+-- SeedsInvariant -- SeedsProofs
                                                                                       +-- MCSeeds

FullList ----------------+-- MCFullList       Contents ---+-- MCContents        Summaries --+-- MCSummaries
                         +-- FullListProofs               +-- ContentsProofs                +-- SummariesProofs
NavHandshake -- NavPanel -- NavPanelProofs
```

Each `...Proofs` module extends the one left of it; `HotelSystemOutcomeProofs` extends
`HotelSystemProofs`, and `ListingsProofs` and `SeedsProofs` extend the proofs of the
API they build on.

| Module | Models | How it corresponds |
|---|---|---|
| `Schema` | tables as sets of rows, the statements on them | a row keeps the columns the endpoints decide on; `capacity`, `location`, `amenities`, first and last names, preferences and timestamps are left out (whether they pass validation is the request's `form`) |
| `BookingDates` | `DateParser`, the cast, the overlap query, `check_dates`, nights | a date parameter is one of six classes, by what the two parsers make of it; dates are day numbers |
| `SqliteStore` | SQLite in WAL mode under ActiveRecord (external) | `db` is the committed database, `view[w]` what w's transaction sees, `stale` the workers whose snapshot was superseded, `writer` the write lock |
| `Handler` | `ApplicationController` and the course of a request | `pc[w]` walks `idle, check, write, commit, render, answered`; `rec` is the row a before_action loaded, `made` what the write left of the record, `resp` the status |
| `Reservations` | `ReservationsController#create`, `Reservation` | `BookAccept` is the filter chain, `BookCheck` the validations in the first snapshot, `BookWrite` the INSERT, `BookRender` the serializer |
| `Hotels`, `Rooms` | the writing actions of the two controllers | one check and one write action per endpoint, the cascade inside the write |
| `Accounts` | `UsersController`, `SessionsController`, `User` | sign-up is a check, an INSERT and an answer like any other write; log-in is one SELECT and an answer; a token is the id it holds, the digest of a password is the password |
| `HotelSystem` | threads, clock, crashes together; the properties | `Accept`, `Serve`, `Die` per worker, `Midnight` |
| `BookingLedger` | the abstract promise | guests registered, stays entered, rooms opened and closed, each at one instant |
| `Listings` | `index`, `all_reservations`, `Room.available` | one step per statement (clock, count, select, two preloads) over `HotelSystem`; `cache` is the query cache of the request, `page` walks along `next_page` |
| `Seeds` | `db/seeds.rb` | `line` is the line of the script that is running, `left` what its statement has yet to do, `held` its variables; each record is a transaction of `SqliteStore` on the script's own connection |
| `FullList` | the search, the rows and the toggles of `full_list.js` | `pending` are the callbacks of `setTimeout`, `found`, `collapsed`, `clicked`, `stripe` the classes of the rows; what matches what is a relation given as a constant |
| `NavHandshake` | `navExpander`, `navReady` and the message handlers | page and frame load step by step, messages are sets of what is on its way |
| `NavPanel` | the sliding frame and Escape, over `NavHandshake` | `display` is the style of `#nav`, `slides` jQuery's queue |
| `Contents` | `generateTOC` | one step per heading, with the script's variables |
| `Summaries` | the summary toggles | pages in tabs that share `summaryCollapsed` |
| `HotelSystemInvariant` | the inductive invariant of the API | `ServerInv(T)` for the requests of the threads T, whoever else writes; `IInv` when every worker serves requests |
| `HotelSystemOutcomes` | what a request knows of the database from its filters to its answer | `OInv`, on top of `IInv`; `Remembers(d, e)`, what no commit takes back |
| `ListingsInvariant`, `SeedsInvariant` | the inductive invariants of the reader and of the seeds | `LInv` (one page) and `WalkInv` (all pages); `SeedsInv` (beside a server), `WholeInv` (undisturbed), `MeantInv` (the ids held) |
| `HotelSystemProofs`, `HotelSystemOutcomeProofs`, `ListingsProofs`, `SeedsProofs`, `FullListProofs`, `NavPanelProofs`, `ContentsProofs`, `SummariesProofs` | the proofs of section 4 | the invariants of the documentation stand at the top of their proofs |
| `MC...` | databases, requests, documents and lists for TLC | |

Why the steps are where they are. A read outside a transaction (the filters) sees
the committed database of its moment: `Accept`. The filters read `users` and one
row, in one step: no endpoint removes or changes a user, and a client has a token
only after its user is there. The validations are
`SELECT`s in one snapshot, so one step stands for all of them (`...Check`); a
validation that fails ends the transaction in the same step, because nobody can see
it end later. The first write statement takes the lock or fails; the statements
after it run under the lock, in a snapshot nobody else sees, so `...Write` is one
step up to the COMMIT, which is a step of its own because a crash may come between
them. The image of a request (`Pictured`) is uploaded by a callback after the COMMIT,
and what that raises nobody rescues: `CommitWrite` ends in `render` or, with an image,
in 500. Rendering reads the committed database again. A crash is modelled per thread;
a process that dies under several requests is several such steps.

`SqliteStore` says what the gem (sqlite3 2.0.4) and ActiveRecord 7.1 do and is marked
external: a transaction starts deferred; its first statement is a SELECT in every
handler here; the upgrade to a writer fails immediately with SQLITE_BUSY if another
connection writes or has committed since (the busy timeout is not used when a read
transaction is held); a commit that changed no page supersedes nobody, one that wrote
supersedes every open snapshot, also when the modelled rows are as before (an update that
stores an image).

A request is an element of `Offered`. Texts that matter only by whether they
pass are the field `form`: `absent` (`params.require` raises, 400), `invalid`
(blank name, capacity 0 and the like, 422), `valid`. `image` says whether a file is
attached.

## 3. Runs

| Run | Instance | Question |
|---|---|---|
| `booking_race` | 3 threads, 1 room, 3 stays (two overlaps, one pair that touches), destroys, midnight, crashes | are stays disjoint, does who was told 201 have the stay? |
| `guests` | 2 threads, 2 rooms, a stored stay; 21 bookings (each class of text in each place, every boundary against the stored stay, an unknown and a vanished sender); 6 sign-ups and 3 log-ins, two of which want one name; fair threads | can any combination get an improper or overlapping stay, a second account of a name or a token for somebody else's account; is every request answered? |
| `catalog` | 2 threads, 2 rooms, 26 requests of admins and others, valid and refused | are names and numbers unique, ids gone for good, types kept? |
| `ledger` | 2 threads, one request of each kind that writes, accounts, hotels and rooms with an image too | does the API implement `BookingLedger`; is `OInv`, with `IInv` in it, invariant; what does an error leave behind; why does a write fail? |
| `listings` | 1 thread (a booking, a room and a hotel destroyed), a midnight, one walk of seven: own and all, 1, 2, 10 and 0 a page, refused readers | does a walk show everything once, fail only for a reason, and are the rooms shown free? |
| `seeding` | the seeds twice, deaths, 1 thread (a booking, a hotel made, one destroyed, an account of a name the seeds want), a midnight, a used database | do the seeds end, leave their rows when undisturbed, and keep the tables sound? |
| `search` | 4 rows nested 3 deep, 4 queries (plain, its extension, capitals, `::`), 3 keystrokes, chunks of 2 | do results fit the last query, does clearing leave nothing, does a search end? |
| `panel` | 2 more documents in the frame, each with or without a row for the page, 3 slides | does the page ask once, does a list that has the page open, do link and list agree? |
| `contents` | every document of up to 5 headings of 4 levels, any of them possibly in a method; every document of up to 4 headings whose ids, toc-ids and texts meet, beside an element that has one of the ids | is every heading where its level says; is every made id new, as far as the script looks? |
| `summaries` | 2 tabs, 2 pages, 2 kinds of toggle | do labels, summaries and the stored preference agree? |
| `update_against_destroy` | 2 threads | **expected violation**, see the findings |
| `search_announced` | as `search`, 2 keystrokes | **expected violation**, see the findings |

Bounds. `MaxRows` and `MaxUsers` stop creates once a table has given out that many ids
(in-flight creates may exceed it by one per thread); they leave room for a conflict,
its loser, and a row created after a destroy. `LastDay` stops the clock after one
midnight, which may fall between any two steps; `guests`, `catalog` and `ledger` have
none, since `booking_race`, `listings` and `seeding` do. Three threads in
`booking_race` let two bookings race while a third destroys; the others need two, and
`listings` and `seeding` have a reader or a script of their own beside one. `MaxRuns`
is 2 in `seeding`: one run that dies, one that must repair what it left.
`MaxWalks` is 1: a walk leaves nothing behind. `MaxKeys` is 3: a search,
another that overtakes it, and a cleared input. `CHUNK` is 2 of 4 rows, so that a list
is a multiple of the chunk, as the code's 50 may be. `MaxLoads` is 2 and `MaxSlides` 3:
a document replaced twice, and a slide that runs while two wait. No run bounds the
number of requests. Workers are interchangeable, so the safety runs of the API use
symmetry; the runs with liveness do not. `contents` stops at the end of a document
(`CHECK_DEADLOCK FALSE`); nothing else may stop.

Fairness. `FairSpec` of `HotelSystem` asks only that a thread that can make a step
eventually makes one (`WF(Serve(w))`): the operating system schedules threads, and no
step waits for another thread, because SQLite answers SQLITE_BUSY instead of waiting.
Arrivals, crashes and midnight are not fair. `SeedsSpec` adds the same of the script
(`WF(SeedStep)`). In the documentation the browser is fair, in running the callbacks
of `setTimeout` (`FairSpec` of `FullList`), and in loading, firing the timer and
delivering messages (`WF(Browser)` in `PanelFairSpec`); neither a reader nor the end of
a slide is.

Every property of a passing run has a mutant: an operator defined just before the
one it replaces, marked `Mutant` in the module, that TLC must find out.

### Findings

* `UpdateReachedRow` (`hotels_controller.rb:35`): `HotelsController#update` and
  `RoomsController#update` load the row in a before_action. If the row is destroyed
  before the UPDATE, the statement reaches no row, `update` returns true all the same,
  and the client reads 200 and the changed record; the comment above it promises "the
  updated hotel record or an error message" and the API documentation a 404.
* `AnnouncedIsFound` (`full_list.js:174`): the number of results is that of the
  visible rows, but the style sheet hides what is in a row that was not found, not the
  row, and during a search no row is folded away. Every row of the list counts, so a
  screen reader is told a number that does not depend on the query, and never "No
  results were found."

### Observations

The models show these too; no document of the repository says otherwise plainly
enough to call them findings.

* Midnight between the readings of the clock in `index` can leave a reservation out
  of past, current and future: one that ended the day before, or begins the day after
  (`reservation.rb:38-40`; README.md:116 says "Retrieves all reservations").
  `WalkShowsAll` says exactly which may be missing from a single page, after one
  midnight or several, and that a walk within a day, or of all reservations, misses
  none. Between pages a midnight moves reservations from one scope to the next, each
  with pages of its own, and may hide any.
* A destroyed reservation shifts the pages under a reader who follows `next_page`,
  who then misses one. `per_page=0` answers 500.
* The seeds start the ids over, so a token given out before names, afterwards,
  whoever has the id now.
* `expandTo` marks the toggles below its target `aria-expanded` and opens none of
  them (`full_list.js:203-212`). The first tap in a narrow window loads the list
  again after the request to open it was spent, so it does not open at the page.
  Escape in a wide window hides the list until the window is resized.
* The list of classes has no row for `doc/index.html` (whose `pathId` is `README`) or
  `doc/_index.html` (`null`), and the rows of the list of methods have no ids: such a
  list is asked to open, and stays as it is.
* An image whose upload fails leaves its account, hotel or room stored behind a 500, and
  its name taken when the client tries again (`user.rb:52`, `hotel.rb:28`).
* Two headings can get the same id: a `toc-id` is given without looking (`app.js:198`),
  and so is an id with a number behind it ("Usage" twice, after a heading "Usage0").
* `lastTag` is NaN until the first heading (`app.js:191`), so a document that begins
  deeper than it goes on loses the rest of its table.

### What held

There is no double booking and no duplicate name, although check and write are apart
and no index helps. The reason is outside the code: every transaction here reads
before it writes, so it holds a snapshot, and SQLite refuses to let it write once
that snapshot is superseded. With the write in a transaction of its own (the mutants
`BookWriteAfresh`, `HotelCreateWriteAfresh`, `SignUpWriteAfresh`), as with most other
databases at their default isolation, they break at once. The price is a 500 for the
loser, and for the seeds an exception that leaves the tables sound and half filled. A
500 after the commit (rendering a booking whose hotel is gone) never leaves a booking
behind, because the hotel took the booking with it.

## 4. Proofs

What follows holds for every number of threads, rows, requests, days, pages, walks,
runs of the seeds, list rows, slides, headings and tabs: for every value of the
constants that satisfies the named `ASSUME`s. These say that sentinels differ from
real values, that bounds are numbers, that the initial database is sound, that
requests, walks and documents are well formed, and that a row of the list comes after
the row it is in. TLC evaluates them in every run of the module that declares them.
Every safety property and every action property of a passing run, and the refinement,
is the statement of a theorem; one of them, `HeldIdsKeepMeaning`, has a hypothesis,
explained below.

| Module | Theorem | Statement |
|---|---|---|
| `HotelSystemProofs` | `Invariance` | `Spec => []IInv` |
| | `TypeCorrect` | `Spec => []TypeOK` |
| | `NeverDoubleBooked` | `Spec => []NoDoubleBooking` |
| | `StaysStayProper` | `Spec => []StaysAreProper` |
| | `CatalogStaysUnique` | `Spec => []CatalogUnique`, usernames included |
| | `AlwaysSound` | `Spec => []SoundThroughout`, all of these at once |
| | `OverlapIsSharedNight` | the overlap query is true of two stays exactly when they share a night |
| `HotelSystemOutcomeProofs` | `OutcomeInvariance` | `Spec => []OInv` |
| | `NeverForgets` | `Spec => NothingForgotten`, an action property |
| | `BookedStaysStored` | `Spec => []BookedMeansStored` |
| | `FailedLeavesNothing` | `Spec => []FailedMeansNotStored` |
| | `FailuresExplained` | `Spec => FailsForAReason`, an action property |
| | `TokensStayGood` | `Spec => []TokenNamesAccount` |
| | `DestroyedStaysGone` | `Spec => []DestroyedForGood` |
| | `ImplementsLedger` | `Spec => LedgerSpec`, the refinement of `BookingLedger` |
| `ListingsProofs` | `ReadersOnlyRead` | `ListSpec => Spec` |
| | `ListingsInvariance`, `WalksInvariance` | `ListSpec => []LInv`, `ListSpec => []WalkInv` |
| | `ScopesDisjoint` | `ListSpec => []NothingTwice` |
| | `ListingFailsOnlyOnDestroyed` | `ListSpec => []FailsOnlyOnDestroyed` |
| | `AvailableAreFree` | `ListSpec => []ShownRoomsAreFree` |
| | `WalksShowAll` | `ListSpec => []WalkShowsAll` |
| `SeedsProofs` | `SeedsInvariance`, `WholeInvariance` | `SeedsSpec => []SeedsInv`, `SeedsSpec => []WholeInv` |
| | `SeedsTyped` | `SeedsSpec => []SeedsTypeOK` |
| | `SeedingStaysSound` | `SeedsSpec => []SoundThroughout` |
| | `SeededToTheEnd` | `SeedsSpec => []SeededWhole` |
| | `HeldIdsKeepMeaning` | `NoRenaming => (SeedsSpec => []HeldIdsStay)` |
| `FullListProofs` | `FullListTyped` | `Spec => []TypeOK` |
| | `SearchesFindTheirOwn` | `Spec => []ResultsFitQuery` |
| | `ClearedStaysClean` | `Spec => []ClearedIsClean` |
| | `NeighboursAlternate` | `Spec => []StripesAlternate` |
| `NavPanelProofs` | `PageAsksOnce` | `NavSpec => []AsksOnce` |
| | `AnswersFindLists` | `NavSpec => []AnswerFindsList` |
| | `PanelKeepsHandshake` | `PanelSpec => NavSpec` |
| | `PanelTyped` | `PanelSpec => []PanelTypeOK` |
| | `ActiveWhileShown` | `PanelSpec => []ActiveIsShown` |
| `ContentsProofs` | `ContentsInvariance` | `TocSpec => []CInv` |
| | `ContentsTyped` | `TocSpec => []TocTypeOK` |
| | `ListedUntilShallower` | `TocSpec => []ListedUnlessShallower` |
| | `EntriesNestByLevel` | `TocSpec => []NestedByLevel` |
| | `EntriesLeadApart` | `TocSpec => []PlacesDiffer` |
| `SummariesProofs` | `LabelsTellSummaries` | `SumSpec => []LabelTellsSummary` |
| | `KindsStayInStep` | `SumSpec => []KindsAgree` |
| | `LoadsFollowLastClick` | `SumSpec => LoadFollowsLastClick`, an action property |

### The API: sound

None of the safety properties is inductive: that a booking fits is known at `check`
and used at `commit`. `ServerInv(T)` closes the gap for the threads T with

* `LockHeld`: `writer = w` exactly when `pc[w] = "commit"`;
* `Snapshots`: in `write`, a worker that is not stale sees exactly the committed
  database;
* `Checked`: in `write`, what the validations found still holds *of the snapshot*;
* `Pending`: in `commit`, what will be committed is sound;
* `Loaded`: the loaded row has the kind the request needs.

`ExecuteStep` combines them: a worker may write only if it is not stale, so its
snapshot is the database, so the checks hold of the database, so the result is sound
(`BookingSound`, `InsertHotelSound`, ...). `CommitStep` shows that a commit marks as
stale every snapshot that it makes differ. The lemmas on statements come first, then
one lemma per shared handler step, then one per action, then the whole step. `IInv` is
`ServerInv(Worker)`; the threads are a parameter because the seeds, too, are a
connection of the store, one that serves no requests.

### The API: what a client was told

That an answer is true when it is given says little: other threads commit before the
client acts on it. `OInv` states for each thread what no other thread can undo, and
its proof has two halves. The first, `Remembers(d, e)`, is what every commit keeps:
accounts stay, a stay leaves only with its room, new rows have ids never given out, a
room stays in its hotel. The second is what each request relies on: `Found` (the row
the filters loaded may be gone, but no other row has its id), `Written` (at `commit`
the writer's snapshot is exactly what its statements make of `db`), `Committed` (at
`render` what it wrote is there or went with its room) and `Answered` (the status is
true). `RoomGone` and `HotelGone` are stated by ids, given out and without a row, so
that they are stable: this is where AUTOINCREMENT is needed. `NeverForgets` follows
from `Written`, and the four state properties from `OInv`.

`FailsForAReason` is what tells the cascades right. The foreign keys are checked by every
write, so a destroy that missed a room or a reservation would not leave an orphan: it
would fail, with a 500 nobody can explain. A writer whose snapshot is the database finds
the keys in order there (`IInv`), and its own statements keep them (`WriteStatements`,
`StatementsFit`), unless the room of a booking is gone; so `Execute` can go on
(`WriteSucceeds`), and what is left are the two ways to fail that SQLite has.

The refinement is the same fact read from the other side. `Written` says what a COMMIT
adds to `db`; the mapping sees of it reservations, room ids and user ids. A COMMIT of
a booking is `Book`, with `Checked` and `OverlapIsSharedNight` giving its guard
(what the overlap query excluded is a shared night); of a sign-up `Register`; of a new
room `Open`; of a room or hotel destroyed `Close` of the rooms that went; of a hotel
made, or of a rename, a stutter, as every other step is.

### Listings

`ReadersOnlyRead` carries everything above over to `Listings`. `LInv` adds that the
readings of the clock are in order (`ClocksInOrder`), that a shown row belongs to its
scope by the reading that scope used, and that a preload which did not find its rooms
ends the page, so that a failure points at a row that is gone. Past, current and
future are disjoint because every later reading is of the same day or a later one: what
ended before the first did not end on or after the third, and what began by the second
does not begin after the fourth.

That nothing is left out needs `WalkInv`. Ids only grow, so the reservations made
during a walk come after the old ones (`OldComeFirst`) and the rank of an old one in
its scope never changes while none is destroyed; page p owes the ranks from
(p - 1) * per_page up to p * per_page (`Due`), each scope under way pays what it owes
(`DuesPaid`), and the page count, taken of all scopes together, promises at least as
many pages as the largest scope has (`Counted`). A walk within one day therefore shows
everything (`Walked`). On a single page that midnights interrupt, the argument is by
the readings: an old reservation that no scope took lies, by its dates, between two of
them. While it was proved, `WalkShowsAll` was restated for any number of midnights,
and now names the days on either side of each of them; the form before held only with
the one midnight that the run has.

### Seeds

`SeedsInv` is `ServerInv` of the other threads, and for the script the same obligations
by hand: `OwnTransaction` says that it is in a transaction from the validations of a
record to its COMMIT, that its snapshot is the database until somebody else commits,
and that what it commits is its own change of the database and sound. The statements
that start the ids over are not in a transaction: they restart after the largest id
that is left, so they keep `Sound`, and they make every open snapshot stale. That is
why neither a thread of the server can commit over them nor the script over a thread.

`SeededWhole` needs `Whole`: while nobody else commits, each table first loses all it
held (`Emptied`), then is started over, then is exactly the first so many rows of the
script, numbered 1, 2, 3 (`Rebuilt`), so that the ids that the arrays hold are the
ones that the next table refers to. What earlier runs left, wherever they died, is
among what is destroyed.

`HeldIdsStay` is proved under `NoRenaming`: no request offered to the server renames a
hotel or a room. Without it the property is false and should be: an admin may rename
what the seeds have just made, and the id then leads to another name because somebody
asked for that. `NoRenaming` is a condition on the requests alone (the run `seeding`
satisfies it); creates, bookings and destroys beside the script are all allowed.
`OnlyNew` is what each commit then keeps: rows that are not in the database get ids
not given out, and the ids that the script holds were given out (`MeantAsMade`).

### Documentation

* The list: `SearchInHand` says that the only callback pending belongs to the last
  query and that the rows before its offset are found exactly when they match;
  `ResultsFitQuery` follows at the end of the list. `Striped` gives a visible row the
  class of the parity of the number of visible rows above it: neighbours differ by one.
  A search that is cleared opens the rows around the one clicked, which shows others; the
  stripes are given after that.
* The panel: `PanelKeepsHandshake` shows that no tap, Escape or resize does to the
  messages what `NavHandshake` does not allow, so `AsksOnce` and `AnswerFindsList` hold
  of both; the latter because who says navReady has its rows (`OnlyReadySay`), and the
  answer, until it comes, goes to the document that was answered (`AnswerArrives`). `ActiveIsShown` needs `MarkedAsSliding`: the class follows what the *last*
  waiting slide leads to, since the display in the middle of a slide says nothing; a
  wide window only ever closes (`WideOnlyCloses`), and before the page is ready nothing
  has moved (`StillAtFirst`).
* Contents: the list that grows is, at each depth, the last heading no deeper than
  that, so the closest earlier heading that is shallower is where the next one goes.
  `IdsFit` is why ids made from the same text differ: once a heading spelled it, the text
  is an id of the page, so every later one gets a number, and each number is used once.
  An id without a number was looked up, so only what is given later can repeat it.
* Summaries: every toggle of a kind on a page is as the last click left it, and what is
  stored is what the last click in any tab stored.

### Only model-checked

Liveness under fairness is out of the prover's reach: `EveryRequestAnswered`,
`SeedingEnds`, `SearchSettles` and `ListOpensAtPage` stay with TLC, and so do the two
violations. Whatever else the runs check is proved, `HeldIdsStay` under its condition on
the requests. The models and the lemmas of the
proofs declare no recursive operator; the least element of a set (`Min`, of the
community modules) is used through the well-foundedness of the naturals.

## 5. Not modelled, and the plan

Next: what is left of `Remembers` beside the seeds, which start the ids over and so
need not keep it; and a form of `HeldIdsStay` that follows renames, so that
`NoRenaming` can go.

Not modelled, and why:

* Images, but for what they do to a request: they are stored in the transaction of
  their record, and the upload that follows the commit may fail (`CommitWrite`). The
  attachment rows themselves and the jobs that analyse an image and purge a replaced or
  destroyed one are code of the gem, configured here and written nowhere in this
  repository. The jobs write to tables that are not modelled, so all they could do to a
  request is to take the write lock or supersede its snapshot, and it then fails as it
  does beside another thread. The connection pool, which only those jobs exceed, is left
  out with them. `Seeds` keeps that attaching a picture may raise.
* The store of a page that is denied `localStorage` (`app.js:4-6`): an object of its own
  per page, so there is nothing for the pages to share.
* What a reader sees: a row is visible in `FullList` when jQuery's `:visible` says so,
  which is what the code decides by; a row whose content the style sheet hides still is.
* The order of a page: the listings have no `ORDER BY`; `WalkShowsAll` rests on SQLite
  answering by rowid.
* The width of the list dragged by the mouse, and the mouse events that the frame
  passes on for it (`app.js:253-285`, `full_list.js:23-30`): a width in pixels that
  nothing else depends on.
* Toggles that only animate (`createSourceLinks`, `createDefineLinks`,
  `createFullTreeLinks`), focus and scrolling (`mainFocus`, `navigationChange`):
  layout, with no state that another handler reads.
* `doc/js/jquery.js`: a library; its queue of slides is modelled as `NavPanel` uses it.
* The layout of JSON, mailer, job and cable base classes (empty), container files, the
  OpenAPI text, and the cryptography of tokens and passwords.
