# HotelSystem: TLA+ models and proofs

HotelSystem is the HTTP server of a hotel: a Crow application in C++
(`src/main.cpp`, `src/app`, about 2,100 lines) over a PostgreSQL database, with
libpqxx, Crow, asio and picosha2 vendored under `src/libs`. The repository has
no tests and no schema; what the server assumes of its database is read from
the SQL it sends.

Paths below are relative to `src/app` unless they start with `src/` or `libs/`.

## 1. Inventory

### How the server runs

`main` checks the connection string, constructs repositories, the booking
service and the controllers, and calls `app.port(8080).multithreaded().run()`:
Crow serves each request on one of several threads, from its handler's first
line to its last. Nothing of the application in the process is shared and
written after start-up. **All state of the hotel is in the database, and all
interaction between requests goes through it**: each operation opens its own
connection and transaction (`pqxx::work`: BEGIN at READ COMMITTED), runs a few
statements, and commits, or aborts in a `catch`. There are no explicit locks
(`SELECT ... FOR UPDATE`, `LOCK`, advisory locks) anywhere, so that threads meet
in three ways only: a statement reads what others committed before it, an UPDATE
or DELETE waits for the row lock of an unfinished transaction, and an INSERT or
UPDATE of a unique column waits for an unfinished transaction that has entered
the same key.

Below the handlers each thread of Crow runs an `io_context` with the connections
assigned to it, and a `task_timer` that closes the connections which stay silent.
That state is private to the thread; its handlers meet in the order of the queue.

### Components

| component | state | operations | talks to |
|---|---|---|---|
| BookingService (`services/BookingService.cpp`) | none in memory; writes `bookings`, `booking_services`, `users.bonuses` | createNewBooking, adminUpdateBooking, cancelBookingByUser, extendBooking, deleteBooking; adminCreateBooking (no caller) | the repositories, within its own transaction; `getBookingById` and `getUserById` on a second connection |
| BookingRepository | none | one SQL statement per method; `getBookingById` returns null on any failure | database |
| BookingController | none | five writing routes, three reading; maps results and exceptions to 201/200/204/404/409/500 | BookingService |
| UserRepository, UserController | none; `users` | register, login, profile, update profile, list; `addBonuses` for the booking service | database |
| RoomRepository, RoomController | none; `rooms` | filtered search in two reads, create, update, delete | database |
| ReportController | none | four SQL aggregates over the tables | database |
| GenericRepository and the amenity, category, service controllers | none | SELECT * of tables the server never writes | database |
| DatabaseManager, main | the connection string | set once before the threads start | all repositories |
| libpqxx transaction (vendored) | status of the transaction, registration with its connection | BEGIN, exec, commit, in-doubt commit, abort, close, destructor | PostgreSQL |
| Crow connection and task_timer (vendored) | sockets, parser, the deadlines of the thread and their identifiers | accept, read, handle, answer, close; schedule, cancel, process_tasks | clients; the route handlers |
| Crow parsing and routing, asio, picosha2 (vendored) | | contract only | |
| CorsMiddleware | none | adds constant headers | Crow |

### What is hard here

- *Interleaving of statements.* createNewBooking checks, prices, reads a
  balance, updates it and inserts, as up to seven separate statements. Anything
  another thread commits in between is seen by the later ones only.
- *Decisions on rows read elsewhere.* adminUpdateBooking, cancelBookingByUser and
  extendBooking decide (old status, owner, room, arrival, services) on a row that
  `getBookingById` read on another connection before the transaction's first
  write. A price is computed from a category that an administrator may change.
- *Uniqueness under concurrency.* Registrations and profile updates rely on the
  database's indexes for names and addresses, entered one by one, with other
  transactions in the middle of the same.
- *Failure.* A statement or a connection can fail at any point, and the
  confirmation of a COMMIT can be lost (`pqxx::in_doubt_error`). Some failures
  become exceptions (rollback, 500), some become "not found", "conflict" or "no
  such user". The process may die.
- *Waiting.* A transaction keeps its row locks to its end; operations lock a
  booking, an account, or both; two accounts can wait for each other's names.
- *Order of callbacks.* A deadline that has passed, the data that arrived just
  before, and the aborted read run one after another, each on what the others
  have left.
- *Boundaries.* A stay that ends before it begins, a balance worth more than
  the stay, casts from double to int, NULL balances, identifiers issued again.

The 40 hazards are listed one by one, with lines and the properties that cover
them, in `PROJECT.json`.

### What makes the components correct

- BookingService: each operation happens completely or not at all; no room is
  given twice; points are neither lost nor spent twice, paid exactly for the
  discounts given and earned once per completed stay; owners act on their own
  bookings; no operation hangs.
- UserRepository: user name and e-mail are unique; an update changes one account,
  and not its role or password; an answer is true when it is given.
- RoomRepository: a search returns exactly the rooms with all the properties
  asked for; rooms change or vanish without disturbing the bookings being made.
- ReportController: the reports agree with the availability check and with each
  other; revenue does not vanish by itself.
- libpqxx: all or nothing is stored, and the caller is told the truth or that it
  is in doubt.
- Crow connection: every silent connection is closed, none too early.

## 2. The modules

| module | models | kind |
|---|---|---|
| `Pricing` | getDaysBetween's use, calculateTotalCost's arithmetic, the discount, points spent and earned | operators |
| `HotelTables` | the committed tables, the overlap query, the price of a stay from the tables | state and operators |
| `BookingService` | the five writing operations, statement by statement, any number of threads | state machine and properties |
| `BookingBook` | the same operations as atomic steps on the tables | abstract specification |
| `BookingInvariant` | the inductive invariant | predicates |
| `BookingRefinement` | how the tables of `BookingService` are those of `BookingBook`, and the invariant this rests on | refinement mapping, properties |
| `BookingServiceProofs`, `BookingDealsProofs` | theorems about `BookingService` | proofs |
| `MCBookingService` | instances for TLC | model checking |
| `RoomRepository` | the search of rooms in two reads, its filters, and the creation, change and removal of rooms on any number of threads | state machine and properties |
| `RoomRepositoryProofs` | theorems about it, the parser and the SELECT among them | proofs |
| `MCRoomRepository` | instances for TLC | model checking |
| `Reports` | the four aggregates of ReportController | operators |
| `HotelSystem` | BookingService and RoomRepository over one set of tables, with the reports read off them | composition and properties |
| `HotelSystemProofs` | theorems about the composition, from those of its parts, and about the reports | proofs |
| `Folding` | lemmas: folds over finite sets, sums, the best of a set | proofs |
| `MCHotelSystem` | instances for TLC | model checking |
| `Accounts` | registration, login, profile and its update, statement and index by index, any number of threads | state machine and properties |
| `Directory` | the accounts as atomic steps on table `users` | abstract specification |
| `AccountsProofs` | theorems, the refinement of `Directory` among them | proofs |
| `MCAccounts` | instances for TLC | model checking |
| `PqxxWork` | one libpqxx transaction, the session it talks to and the link between | state machine and properties |
| `Outcome` | what a transaction promises to its owner | abstract specification |
| `PqxxWorkProofs` | theorems, the refinement of `Outcome` among them | proofs |
| `CrowConnection` | the connections of one thread, its queue of handlers and its timer | state machine and properties |
| `CrowConnectionProofs` | theorems about it | proofs |

How they stand to each other: `HotelSystem` composes `BookingService` and
`RoomRepository` by INSTANCE, with their invariants and lemmas. `Accounts` shares
table `users` with the booking service, but no column that both write:
`addBonuses` writes `bonuses`, `updateUser` the name, address and phone; so the
two are kept apart. `Commit`, `CommitInDoubt` and `Fail` of those three modules are
the outcomes that `PqxxWork` shows a transaction to have: `Outcome` is their
common abstraction. `CrowConnection` stands below all of them: one of its
`RunRead` steps on a complete request contains the whole run of a handler.

### Correspondence with the code: bookings

| in `BookingService.tla` | in the code |
|---|---|
| `Workers` | Crow's threads |
| `pc[w]` | the next statement of the method the thread is in |
| `req[w]` | the arguments the controller passed |
| `local[w]` | `totalCost`, `oldBooking`/`booking`, `currentBonuses`, the points handed to `addBonuses` |
| `bookings`, `bonuses`, `rooms` | committed rows; `NoRow` where there is none |
| `rowWrite[w]`, `bonusWrite[w]` | the thread's uncommitted rows. Their domain is the set of rows it holds locked |
| `nextId` | the sequence behind `booking_id`; a rollback does not give its value back |
| `reply[w]` | the HTTP status of the last answer |
| `seen[w]` | history only: the table as the availability check saw it; no action reads it |
| `grown` | counter of the bound `MaxGrowth`, below |

One action is one SQL statement together with the C++ around it, up to the next
statement:

| action | code |
|---|---|
| `Receive` | route handler: takes the arguments, calls the service |
| `IsRoomAvailable` | `BookingService.cpp:23`, `:218`; a taken room ends in abort and 409 |
| `CalculateTotalCost` | `:178`; a room without a row ends in abort and 409 (create) or 500 |
| `GetUserById` | `UserRepository.cpp:15`; any failure means "no such user", and the booking goes on at full price |
| `SelectBonuses` | `:32-39`, the SELECT and the computation of discount and points |
| `AddBonuses` | `UserRepository.cpp:114`: waits for the row lock, then adds to the balance *committed last* |
| `CreateBooking`, `AddServicesToBooking` | `BookingRepository.cpp:41`, `BookingService.cpp:207` (skipped when there are no services) |
| `GetBookingById` | `BookingRepository.cpp:21`: reads committed rows on a second connection, never waits; null on failure |
| `AdminUpdateBooking`, `UpdateStatus`, `UpdateDateAndCost`, `DeleteBooking` | `BookingRepository.cpp:128`, `:150`, `:156`, `:73`: wait for the row lock, then write the row *committed last*, or nothing if it is gone |
| `Commit`, `CommitInDoubt` | `T.commit()`; the second stores everything and answers 500 |
| `Fail` | any other failure: `T.abort()` and 500 (`getUserById`'s own failures do not abort, see above) |
| `Crash` | the process dies; PostgreSQL rolls back all its sessions; the next process starts on the tables left |

### Rooms, and the composition

In `RoomRepository.tla`, with `pc`, `req`, `reply` and the domain of `roomWrite`
as above:

| action or operator | code |
|---|---|
| `Parse`, `ParseSegment` | `RoomController.cpp:27-73`: the loop over the query string, a fold over its segments |
| `FitsColumns`, `Matches` | `RoomRepository.cpp:19-49`: the join, the WHERE clause and the HAVING count |
| `SelectRooms`, `SelectAmenities` | `:53` and `:74`, two statements outside a transaction; the second is skipped when the first finds nothing |
| `SearchFails` | `:89`: any exception ends the search with the rooms found so far, answered 200 |
| `CreateRoom`, `UpdateRoom`, `DeleteRoom` | `:95`, `:110`, `:124`; the last two wait for the row (`WriteRoom`) |
| `Commit`, `CommitInDoubt`, `WriteFails` | `T.commit()` and the `catch` of the controller, which answers every exception 409 |

`HotelSystem.tla` runs both on one table `rooms`. The booking service reads one
column of it, so it is instantiated with `rooms <- Category`, a function of the
rows of the room repository; its parameter changes under it, while inside
`BookingService` nothing does. `Workers` (threads that serve bookings) and
`Admins` (threads that serve rooms) are disjoint; since a thread keeps nothing
between requests, a thread that serves both does what one of each does, so this
allows more than the code and nothing less. A crash takes all of them. `priced`
is a history variable: the category each price was computed from. No foreign key
from bookings to rooms is assumed: a schema that has one with RESTRICT makes the
deletion fail, which is `WriteFails`; one that cascades to bookings is not
covered.

The reports (`Reports.tla`) are single SELECTs, hence functions of the committed
tables, and invariants about them hold for a report taken at any moment.
`MonthlyRevenue` is `ReportController.cpp:13`, `TotalSpent` `:46`, `Popularity`
`:85`, `Occupancy` `:118`. `TopClients` is the list cut out of `TotalSpent` by
`ORDER BY total_spent DESC LIMIT 5` (`:53`): the set of all lists that the database
may return, because guests who have spent alike come in any order. Its length is the
constant `Best`, 5 in the code. A guest is *sure* of a place if he is on all of these
lists, and has a *chance* of one if he is on some.

### Accounts

| in `Accounts.tla` | in the code |
|---|---|
| `users` | the committed rows of table `users` |
| `unused` | ids the sequence has not given out; a rollback gives none back |
| `pending[w]` | the uncommitted row of the thread's transaction; its id is locked |
| `entered[w]` | the unique indexes in which the transaction's key already is |
| `Insert` | `UserRepository.cpp:36`, up to the row itself; the role is the `Guest` of `UserController.cpp:54` |
| `Update` | `:80`, the wait for the row and the SET clause on the row committed last |
| `EnterKey`, `IsRefused` | the two indexes, one by one: wait while another unfinished transaction has the key, then enter it, or unique_violation |
| `Select` | `findUserByCredentials` `:61` and `getUserById` `:15`, with the answers of their routes |
| `Commit`, `CommitInDoubt`, `Fail`, `Crash` | as in `BookingService`. `Fail` is also the database ending a deadlock |

`createUser` returns null on every failure, so that a registration in doubt is
answered 409 "Username or email already exists", like a conflict; `updateUser`
throws, and the controller tells the two apart. Both answer with a `Guest` made
of the returned row, so an administrator's own profile update says `guest`
although the row still says `admin`: `AnswersTrue` speaks of the row and the
answer's id, and `Directory` says that no role changes in the table. That the
two columns are unique is what the answers 409 presuppose; the schema is not in
the repository.

### The transaction of libpqxx

`PqxxWork.tla` is one operation on one `pqxx::work`. `status`, `registered`,
`isOpen` are the object's and its connection's (`transaction_base.cxx` and
`transaction.cxx` of `src/libs/libpqxx-7.10.1/src`); `executed`, `block`, `durable` are the server session's;
`inFlight` is a command that the server still gets after the client has seen the
link break. `handles` tells the services, which call `abort()` in a `catch`, from
the repositories, which leave it to the destructor.

Two facts of it deserve a reader's attention. A COMMIT of a block in which a
statement has failed is a ROLLBACK for the server and *no error*: commit()
returning means "stored" only because no caller goes on after an exception of
a statement (`UserRepository.cpp:123` rethrows for that reason); `Swallowed` is
the form in which one does. And the server may execute a COMMIT
*after* the client has been told that it is in doubt: `Outcome` allows `Store`
then. PostgreSQL's SQLSTATE for an unknown statement completion, which libpqxx
reports in a class of its own, is not kept apart from a failure.

### The connections of Crow

| in `CrowConnection.tla` | in `src/libs/crow` |
|---|---|
| `queue` | the ready handlers of one `io_context`, run one at a time, first in first out |
| `tasks`, `highest`, `taskId[c]` | `tasks_`, `highest_id_` of `task_timer.h`, `task_id_` of the connection |
| `StartDeadline`, `CancelDeadline` | `http_connection.h:471`, `:464` |
| `Accept`, `RunStart` | `http_server.h`, `do_accept` in the acceptor's thread and the posted `start()` |
| `Send`, `Deliver` | the client, and the reactor of asio completing a read (external) |
| `RunRead` | `do_read`'s handler with the parser's verdict, `handle()`, `complete_request()` and `do_write()` |
| `TickPasses`, `RunTick` | the timer of one tick and `process_tasks()`; closing a socket aborts its read, whose handler is queued |
| `quiet[c]` | history: ticks since the thread last heard the connection |

A tick stands for the timer's period; a deadline of `Timeout` ticks passes when its
count is zero. A client that has reset the connection makes `remote_endpoint()`
throw; a handler of a route is one step, in which the thread does nothing else.

### What is abstracted

- Money is counted in hundredths of the unit, exactly; a bonus point is worth one
  unit (`PointValue`). The doubles of the code round: see the hazards. The cast
  of `totalCost * 0.10` is exact on two-decimal amounts, because the double 0.10
  is slightly more than a tenth.
- Dates are day numbers, statuses are `confirmed`, `completed`, `cancelled` (the
  code compares with the last two only; any other text behaves like `confirmed`).
- The rows of `booking_services` are a field of the booking. They are inserted in
  the transaction that inserts it and disappear with it, so that reading the two
  tables in two statements (`BookingRepository.cpp:25`, `:30`) can differ only for
  a booking deleted in between, which the extension then updates nowhere.
- The price of services is a function of the set, as `SUM ... WHERE service_id IN`
  is.
- Users are not deleted by the server, so each booking request names an existing
  one. A room may have no row; rooms change in `HotelSystem` only.
- Constraints the schema may have (foreign keys, checks) make statements fail:
  `Fail` is possible at any statement.
- A row of `rooms` is its category and capacity. A segment of a query string is a
  key and a value; texts that `stoi` or `stod` reject, empty values and unknown
  keys are one value, `Unparsable`. A price given as `nan` or `inf` is accepted by
  `stod` and makes the statement fail: `SearchFails`.
- Whether the rows of `room_amenities` go with their room (ON DELETE CASCADE) or
  stay is the schema's choice, so `InstallRoom` allows both.
- A month is a function of a day, a category's name a function of the category
  (names may coincide, and then GROUP BY merges them; in `hotel` they differ). The
  order within a report's list is left out; which guests the LIMIT of the best
  clients (`ReportController.cpp:54`) lets through is not.
- 400 answers to malformed bodies start no operation and are left out.

## 3. Runs

The booking runs have one room, one service, one category at 10.50 a night, so
that a price is no whole number of points; the service costs 2.40 (`Price`,
`ServicePrice`). Accounts start with 14 points (between one night with the
service and two nights), in `bonus_race` and `serial_book` with 12 points or
NULL. `hotel` has two categories, at 10.50 and 20.00.

| run | cfg | question | distinct states |
|---|---|---|---|
| `create_race` | `BookingCreateRace` | two workers book overlapping, adjacent and inverted stays with points and services, while bookings of the room are extended, moved, reopened, cancelled, deleted: types, how a double booking or an overdraft can come about, points against discounts | about 290,000 |
| `bonus_race` | `BookingBonusRace` | two workers complete, reopen, reassign, cancel, extend and delete a booking and spend its account's points: no lost change, credits follow completions, owners act on their own rows, lock waits end, the invariant of the proofs | 285,000 |
| `serial_book` | `BookingSerial` | one worker, every operation, two users, failures and crashes: implements `BookingBook` | 238,000 |
| `answered` | `BookingLiveness` | every booking request is answered | 15,000 |
| `room_race` | `RoomRace` | searches with single, combined, repeated and unparsable filters, and rooms created, changed and deleted on two workers: exactly the rooms asked for, what a list can show wrongly, true answers | 1,190,000 |
| `hotel` | `Hotel` | rooms change and go while bookings of them are made, changed and completed, with the reports read off every state: prices, nights, revenue, the best clients and the popularity of categories | 482,000 |
| `accounts` | `Accounts` | registrations, updates and logins that want the same two names and addresses on two workers: uniqueness, true answers, refinement of `Directory`, every request answered | 92,000 |
| `pqxx_work` | `PqxxWork` | one transaction of four statements with every failure of its link: refinement of `Outcome`, nothing left open | 196 |
| `crow_deadlines` | `CrowDeadlines` | two connections on one thread: one deadline each, none early, each closed in the end unless its deadline was taken | 414,000 |
| `double_booking` | `BookingDoubleBooking` | violation: two bookings of one room for one night | |
| `not_found` | `BookingNotFound` | violation: a 404 that changed the tables | |
| `crow_lost_deadline` | `CrowLostDeadline` | violation: a silent connection that is never closed | |

### Properties

Bookings:

- `TypeOK`. One arithmetic fact is hidden in it: no price is negative, because
  the discount is cut to the price before it is subtracted.
- `DoubleBookingNeedsRace`: an overlapping booking needs a row that changed
  between check and commit. This is the strongest form of "no double booking" the
  code has; the plain form, `NoDoubleBooking`, is violated.
- `OverlapHasOrigin`: two live bookings of a room come to overlap only by a
  create that raced, by an administrator's update, or by an extension over nights
  on which the other one begins; the last two do not look at the room.
- `NoLostBonus`, `DiscountIsPaidFor`, `UnracedCreditIsEarned`,
  `OverdraftNeedsRace`: the life of bonus points, each relating the points that
  move to the booking committed in the same step. The last two say where the code
  relies on rows that nobody changed in between.
- `OnlyAdminReopens`, `OwnerActsUnlessRaced`: the operations of owners across
  each other.
- `WaitsEnd`: row locks are never waited for in a circle. createNewBooking locks
  an account and then only inserts, adminUpdateBooking locks a booking and then
  an account, the others lock one booking; so a chain has two links at most.
- `EveryRequestIsAnswered`: liveness, below.
- `ImplementsBook`: with one worker, `BookingService` refines `BookingBook`. The
  tables have the same names, so the refinement mapping is the identity on them;
  all statements but the commit are stuttering steps. With two workers it does
  not hold: `double_booking` and `not_found` are two reasons.
- `UnracedIsAtomic`: what is left of it with any number of workers. When a worker
  commits and what it has read still holds (`Current`: the room is free, the
  balance of the discount and the row it looked up are the ones in the tables), the
  commit is a step of `BookingBook`, both tables together. A race that does not
  touch what was read is harmless, however the statements were interleaved. It is
  checked in `create_race` for bookings and in `bonus_race` for the operations on
  one row.

Rooms:

- `SearchIsExact`: the filters, in any order, repeated, empty or unparsable,
  select exactly the rooms that satisfy each filter asked for. The reference
  definition (`Wanted`) is a conjunction over the segments, without parsing or
  counting. One exception is stated in it: an amenity named twice selects no room
  (the count of `RoomRepository.cpp:47` is of distinct amenities, its right side of
  ids in the request).
- `ListedHaveTheAsked`: how a list read in two statements can be wrong.
- `RoomAnswersTrue`: two administrators on one room.

The whole hotel:

- `BookingsKept`, `OverlapHasOrigin`: what the booking service keeps with rooms
  constant, it keeps with rooms moved and deleted.
- `PriceIsOfTheRoom`: a stored price is the one the room has at the commit, less
  the points taken, unless the room changed after the price was computed. The
  exception is real: the category is not locked.
- `OccupancyAgreesWithCheck`: `check_in_date <= day < check_out_date` of the report
  and the overlap query of the booking decide alike on every day.
- `ListedTwiceNeedsClash`: the occupancy report against double bookings.
- `RevenueIsKept`: a month's revenue moves only by an operation on a completed stay,
  or by the update that completes one.
- `PlacesAreEarned`: places on the list of the best clients. A guest who is sure of a
  place loses it only by an operation on a completed stay of his, or by one after
  which somebody else has a completed stay; one who has no chance gets it only by his
  own completed stay, or at the cost of somebody else's. The second halves are real:
  a list has an end, so what another guest does counts.
- `PopularityIsKept`: a category loses a booking only when the administrator removes
  it or moves it to another room, or when its room leaves the category. The last
  exception is the point: the report reaches a booking's category through the row its
  room has *now*, so a room that is reclassified takes its past with it
  (`ReportController.cpp:87`). A cancellation does not take a booking out.

A completed stay can be cancelled or extended by its owner
(`BookingService.cpp:133`), and takes its revenue with it or adds to it, while the
points it earned stay. The source does not say that this is wrong; `RevenueIsKept`
and `PlacesAreEarned` delimit what it does to the reports and do not exclude it.

Accounts:

- `Inv` (with `Unique` in it), `ImplementsDirectory`: whatever the threads do, table
  `users` goes through atomic registrations and changes with unique names.
- `ConflictIsReal`, `AnswersTrue`, `LoginIsOwn`: what an answer says about the
  table at the moment it is given. `ConflictIsReal` is about updates only:
  createUser's 409 may be any failure.
- `EveryRequestIsAnswered`: two users who swap names wait for each other's keys,
  until the database ends one transaction.

Below:

- `ImplementsOutcome`, `NothingLeftOpen` (`PqxxWork`), and `Inv`.
- `Inv` (with `OneDeadline`), `ClosedForSilence`, `LostToStaleIdentifier`,
  `ClosedUnlessForgotten` (`CrowConnection`).

### Bounds

- `MaxGrowth` caps the requests of the two kinds that can change the tables
  without end (a create draws an id, an update moves points); cancellations,
  extensions and deletions are unlimited, since the tables they can reach are
  finite. Two are enough for each to overtake the other at each statement.
- `MaxId` is, except in `hotel`, one more than the creates allowed where bookings
  can be there at the start, so a create may also find the sequence exhausted and
  fail.
- Two workers: every property relates one operation to what a second one did
  between two of its statements; the theorems remove this bound. `hotel` has one
  worker and one administrator: two workers against each other are the matter of
  the booking runs, so what is new in it is a room changing under one booking. The
  locks in `BookingsKept` meet no second worker there; that two workers keep them
  with rooms changing is `HotelSystemProofs!Invariance`, for any number.
- `room_race` has three ids: two rooms at the start and one to create.
- `accounts`: two names, two addresses, three ids: every row can clash with every
  other in either column, and a third account finds the sequence exhausted.
- `crow_deadlines`: two connections, each sending up to `MaxPieces` = 2 pieces of
  seven kinds, a timeout of one tick. The stale identifier needs two connections
  and no piece; two pieces let a deadline be started three times.
- The booking tables start empty or with one booking, confirmed or cancelled. In
  `hotel` they start with a stay to come, alone or beside the completed stay of
  another guest, and `Best` is 1, so that there are more guests who have paid than
  places on the list, and ties for the last place; the theorem is for any length.
- Symmetry of workers is used where no liveness is checked: no constant tells
  workers apart.

### Fairness

- `BookingService`: weak fairness of each worker's next statement (threads run,
  the database answers) and strong fairness of the statements that wait for a row
  lock: `Write` and `AddBonuses` may be enabled and disabled again as others take
  the row first, and PostgreSQL serves the waiters of a row in turn.
- `Accounts`: the same for `Advance` and `Write`, and weak fairness of a failure
  that must come: the database ends a deadlock, and refuses an INSERT when the
  sequence has run out.
- `CrowConnection`: time passes, the reactor reports what has arrived, the thread
  runs the first handler of its queue.

Nothing is assumed of clients (`Receive`, `Send`, `Accept`), other failures or
crashes. Deadlock is checked in all runs but `pqxx_work`, whose transaction ends.

### Disagreements found

- `NoDoubleBooking` (`BookingService.cpp:23`): both threads check before either
  inserts, and both bookings are confirmed, although `:24` says "Room is not
  available for the selected dates".
- `NotFoundChangesNothing` (`BookingService.cpp:110`): the booking is deleted
  between lookup and UPDATE. The UPDATE returns no row, the points are credited
  and committed all the same, and the controller answers "Booking not found"
  (`BookingController.cpp:124`).
- `SilentIsClosed` (`libs/crow/task_timer.h:143`): identifiers of deadlines start
  again when no deadline is left. A connection closed by its deadline keeps its
  old identifier and cancels it once more when its aborted read is handled; if a
  connection started in between, it has that identifier, loses its deadline, and
  stays open as long as its client is silent, although `libs/crow/app.h:336` sets a
  timeout of five seconds.

## 4. Proofs

For every number of workers, users, rooms, bookings, accounts, statements and
connections, all prices and all sets of requests:

| module | theorem | states |
|---|---|---|
| `BookingServiceProofs` | `Invariance`, `TypeCorrect` | `Spec => []Inv`, `Spec => []TypeOK` |
| | `DoubleBooking`, `OverlapOrigin` | `Spec => DoubleBookingNeedsRace`, `Spec => OverlapHasOrigin` |
| | `BonusesKept`, `Overdraft`, `Reopening` | `Spec => NoLostBonus`, `Spec => OverdraftNeedsRace`, `Spec => OnlyAdminReopens` |
| | `NoDeadlock` | `Spec => []WaitsEnd` |
| `BookingDealsProofs` | `Deals` | `Spec => [](Inv /\ DealsFit)` |
| | `Payment`, `Credit`, `Ownership` | `Spec => DiscountIsPaidFor`, `Spec => UnracedCreditIsEarned`, `Spec => OwnerActsUnlessRaced` |
| | `Exactness`, `Atomicity` | `Spec => [](Inv /\ DealsFit /\ ExactFits)`, `Spec => UnracedIsAtomic` |
| | `Serial` | `OneWorker /\ Spec => ImplementsBook` |
| | `SerialBookings` | one worker, no updates or extensions: `NoDoubleBooking` stays |
| `RoomRepositoryProofs` | `Invariance`, `AnswersTrue` | `Spec => []Inv`, `Spec => RoomAnswersTrue` |
| | `SearchExact`, `ListsHaveTheAsked` | `Spec => []SearchIsExact`, `Spec => ListedHaveTheAsked` |
| `HotelSystemProofs` | `Invariance`, `OverlapOrigin` | `Spec => []BookingsKept`, `Spec => OverlapHasOrigin` |
| | `Price` | `Spec => PriceIsOfTheRoom` |
| | `Occupancy`, `ListedTwice` | `Spec => []OccupancyAgreesWithCheck`, `Spec => []ListedTwiceNeedsClash` |
| | `Revenue`, `Places`, `Popularity` | `Spec => RevenueIsKept`, `Spec => PlacesAreEarned`, `Spec => PopularityIsKept` |
| `AccountsProofs` | `Invariance`, `Refinement` | `Spec => []Inv`, `Spec => ImplementsDirectory` |
| | `Conflict`, `Login`, `Truth` | `Spec => ConflictIsReal`, `Spec => LoginIsOwn`, `Spec => AnswersTrue` |
| `PqxxWorkProofs` | `Invariance`, `Closed`, `Refinement` | `Spec => []Inv`, `Spec => []NothingLeftOpen`, `Spec => ImplementsOutcome` |
| `CrowConnectionProofs` | `Invariance`, `Silence`, `Lost` | `Spec => []Inv`, `Spec => ClosedForSilence`, `Spec => LostToStaleIdentifier` |

Assumptions: prices are non-negative (`PricesAssumption`), requests have the
fields of their operation (`RequestsAssumption`), the initial tables are typed
(`InitialAssumption`, `TablesAssumption`) and unique (`UsersAssumption`), null
values are not rows or numbers (`NullAssumption`, `NamesAssumption`), the filter
that is not given is neither a number nor a category (`NoneAssumption`), the days of
the reports are integers (`DaysAssumption`), there are
finitely many connections (`ConnectionsAssumption`), bounds, timeout, the length
of the list of best clients (`BestAssumption`) and the number of statements are
natural numbers. TLC evaluates them in every run of
their module.

### Bookings

No property is inductive: a commit installs whatever
`rowWrite` and `bonusWrite` hold, so one must know what they can hold. `Inv`
(module `BookingInvariant`) says it, in parts:

- `StatementsFit`: which operation can be at which statement;
- `LocksFit`: no two workers have written one row; a held balance is the
  *committed* balance plus the worker's points (`HeldBalance`), and a held row
  is a fresh id with the stay that was requested, confirmed, or a row still there whose
  status and room the operation has kept, or set, as it should (`HeldRow`);
- `SequenceFits`: ids not yet given out have no row, hence an insert meets nobody;
- `PointsFit`: points computed are pending or written; only a create takes
  points, no more than the balance it read;
- `ChecksFit`: past the availability check, the table it saw has room for the
  stay.

The delicate step is a commit: it changes committed rows on which other workers'
held rows rest. Exclusive locks make it harmless (`CommitInv`), and the waits
for locks keep them exclusive (`WriteRowInv`, `AddBonusesInv`). Each statement
has a lemma that it preserves `Inv`. The action properties then follow from one
fact, `OnlyCommitsWrite`: the tables change only by one worker's commit, to what
`Inv` says it held. `NoDeadlock` reads off `LocksFit` where a worker that holds a
lock can be. `DiscountBounds` is the arithmetic behind `TypeCorrect` and
`Overdraft`.

`Payment`, `Credit` and `Ownership` relate what one statement computes to what a
later one stores, so they need more: `DealsFit`, a second layer on top of `Inv`,
says of each worker what it has computed so far. `PaidFits` follows the price of a
new booking and the points taken for it, `CreditFits` the points of a completed
stay, `OwnedFits` the owner and the price of an extension. `LookupFits` holds the
subtlest fact: an id found by `getBookingById` is an old one, which no insert is
giving out again, so an UPDATE that has found no row could not have found it later
either. Each worker's part depends on the others through their locks only:
`OthersKept` says once which changes elsewhere leave it alone. `DealsFit` assumes
the category of a room to stay; it is therefore kept out of `Inv`, which the
composition carries over.

`Atomicity` and `Serial` need a third layer, `ExactFits` (module
`BookingRefinement`): where `DealsFit` bounds, it equates. A new booking is either
at its full price, with no account touched, or has exactly the discount of the
balance that was read, and the row and the balance written are, column by column,
what the operation of `BookingBook` writes when it starts from the same reads
(`CreateIsBook`, `UpdateIsRewrite`, `CancelIsCancel`, `ExtendIsExtend`,
`DeleteIsRemove`). The reads being those of the tables at the commit is the
hypothesis `Current`; with one worker it is an invariant (`AloneFits`), since
nobody else writes, and every commit is then a step of the book: `Serial`. With
`OverlapOrigin` it also gives `SerialBookings`, the positive side of the finding
`NoDoubleBooking`: the race and the two operations that never look at the room are
its only causes.

### The composition

`BookingsKept` needs no induction over statements. Each step is a
step of one component and leaves the other's variables alone, except that a room
step changes `Category`; `RoomsMayChange` (in `BookingServiceProofs`) says that
`Inv` does not depend on which categories the rooms have. `OverlapHasOrigin`
follows in the same way from `NewOverlapBrought`.

`Price` does need one, `PricesFit`: where `DealsFit` compares with the room's price of
the moment, which a step about rooms may change, `PricedFits(w)` compares with the
category in `priced[w]`, and so is about one session only; nobody else can
disturb it (`PricedAlone`). At the commit either the room still has that category
or the exception of the property applies. `Occupancy` and `ListedTwice` are facts about
every state with `Inv`: the two ways of counting nights agree on integers.

`Revenue` follows from where a stay's month and cost come from: only a commit of an
operation on that stay, or of the update that completes it, changes them
(`OtherStaysKept`, `SameStaysSameRevenue`).

`Places` is about sums over finite sets and about the best of a finite set, neither of
which the provers know. The community modules define a fold by CHOOSE and
recursion; `Folding` shows, by the least cardinality at which the claim fails, that
the fold of an addition is a sum with the laws one expects: it exists and is unique
(`SumExists`, `SumUnique`), one member can be taken out (`SumTakesOut`), and a part
adds up to no more than the whole (`SumOfPart`). In the same way a list of the best
exists, whatever the ties (`TopExists`), and membership becomes a matter of counting:
a guest is sure of a place when fewer guests than places are ahead of him or beside
him (`SureOfPlace`), and has a chance when fewer are ahead of him (`ChanceOfPlace`).
He stays sure when his own sum does not fall and no other rises (`StaysSure`), and
gets no new chance when his own does not rise and no other falls (`HadChance`). That
one or the other is so unless one of the operations named in the property
commits is `PlaceKept` and `ChanceKept`: a commit is about the booking of its request
(`CommitIsAbout`), and more completed stays cost more (`MoreStaysCostMore`).

`Popularity` compares the set of bookings a category counts before and after a step:
without one of the exceptions no booking leaves it, so its cardinality does not fall.
That an update leaves the row in the room of its request needs `PricesFit`; that a
cancellation or an extension leaves the room alone needs `HeldRow`.

### Rooms and accounts

In both, `Inv` says of a row in the making that it has one writer and what it may
hold. For accounts it adds the keys (`HeldAccount`): a key entered in an index
differs from that of every other committed row and every other entered key. A
commit has entered both keys, hence `Unique` is kept and `Refinement` follows, step
by step; all other statements are stuttering steps of `Directory`. The answers
(`Truth`, `Conflict`, `Login`, `AnswersTrue`) are facts about the last step of an
operation in a state with `Inv`.

`SearchExact` is about code that loops over a query string. The parser is a fold over
the segments, and every lemma about it is again an argument by the first segment
at which the claim fails (`Least`, `Greatest` in `Folding`): after k segments a
column holds the value of the last parsable segment of its key among the first k
(`LastValueWins`), and the amenities are those asked for so far, in order
(`AmenitiesInTurn`). The SELECT's HAVING count equals the number of amenities asked
for exactly when a room has them all and none is named twice (`AllCounted`).
`ListsHaveTheAsked` needs an invariant of its own, `SearchesFit`: a room found by the
first statement is no row in the making, since its id has been given out and
committed, and rooms get their amenities when they are made. So until the second
statement it has what was asked for, or it is gone.

### The transaction

`Inv` ties the three parties together: where the owner is, what the object says,
and what the session and a command in flight can still do (`SessionFits`,
`StatusFits`, `DurableFits`). `Refinement` maps `stored` to
`durable = Statements`. `Closed` needs one invariant more, `ClosedInv`: an
object that is no longer active has no block left on a link that holds, whatever
its owner does next.

### Deadlines

`IdentifiersFit` is the invariant: the identifier of a live deadline is the one
its connection has, and time left plus silence cover the timeout. One deadline a
connection follows at once. What is *not* invariant is that a connection's
identifier is its own: `Lost` says exactly when a deadline goes to another.

### What is only model-checked

- Liveness (`EveryRequestIsAnswered` twice, `ClosedUnlessForgotten`): fairness and
  ENABLED are beyond the prover.
- That the three disagreements of section 3 do occur: a counterexample is found by
  running the model, and no theorem says it.

Every invariant and every action property of the passing runs is proved.
Induction over data by the library's theorems takes an operator as a parameter,
which the provers cannot instantiate; the arguments by a least counterexample in
`Folding` and `RoomRepositoryProofs` do without it, one definition at a time.

## 5. Not modelled

- The limit on connections. Each operation of the booking service holds one
  connection and asks for a second (hazard at `BookingService.cpp:21`); a refused
  one is a failing step here, but the limit itself is a setting of the database
  server, not of this code.
- Binary rounding of doubles and the parsing of date texts: the models are exact
  and count days; both are listed as hazards without a property.
- JSON bodies, headers, password hashing, wording of answers: no state, no
  decision. The read-only controllers and GenericRepository: SELECT * of tables
  the server never writes. CorsMiddleware: constant headers.
- adminCreateBooking, which no route calls; list queries, which decide nothing.
- Of libpqxx: nested streams, pipelines, other isolation levels and robust
  transactions, none of which the server uses.
- Of Crow: its router, parser, websockets, static files and shutdown; asio and
  picosha2 as a whole. They make up nearly all of the repository's 200,000 lines,
  and the program uses a contract of theirs that is stated above. The models cover
  the application's own logic, and of the vendored code what carries a decision
  about the hotel's data (a commit's outcome) or about a client's connection.

## 6. What could follow

1. `BookingService` and `Accounts` on one table `users`, whose row locks they
   share: waits across the two modules.
2. `UnracedIsAtomic` in `HotelSystem`, where a room may also change category between
   the price and the commit.
3. A reference definition for the parser of `RoomRepository` on texts instead of
   segments.
