# go-hotel-book in TLA+

A verification project for the hotel booking system in `src/`: four Go services
(auth, catalog, booking, payment) behind one Postgres database, and a payment
provider outside. The modules here model what the services do to their tables
and to each other, TLC checks them on small instances, and TLAPS proves the main
properties for every number of bookings, users, room types and overlapping
requests.

## 1. The system

| component | state | operations that change it | source |
|---|---|---|---|
| booking service | its requests under way | create (with the pricing of each item), check-in, check-out, refund, delete, internal status update | `services/booking` |
| booking repository | `booking.bookings`, `booking.booking_items` | create, update the status, delete, read, each in transactions of its own | `services/booking/internal/repo` |
| payment service | `payment.payments`, `payment.refunds` | pay, provider webhook, refund | `services/payment` |
| provider (Midtrans, mocked) | the notices it has to send of each payment | sends and repeats a notice until it is answered 2xx | outside the repository |
| other callers | none | any request to the webhook and to the internal route | outside the repository |
| catalog service | `catalog.room_types`, `catalog.room_inventories` | seed; a restart drops both tables | `services/catalog` |
| auth service | `auth.users` | register; login reads and hands out a token | `services/auth` |
| bearer tokens | held by clients | the other services take the user out of them | `pkg/jwtx` |
| database, hashing and response helpers | none | none | `pkg` |

How they interact:

* booking -> catalog: `InventoryHTTP.Price` asks for the price of the first
  night, once per item, while a booking is created, with a client timeout of 5
  seconds. `Hold` and `Release` do nothing.
* auth -> booking: nothing but the token, which clients carry from one to the
  other; a booking names its owner by the id in it.
* payment -> booking's table: `GetBookingTotal` reads `booking.bookings` directly.
* payment -> booking: the webhook posts the outcome of a payment to
  `POST /internal/bookings/:id/status`, with a client timeout of 5 seconds.
* booking -> payment: nothing. The only `PaymentGateway` that is wired is `noopPay`.
* Clients call every service; the token's user id is what tells them apart.
* The webhook and the internal route ask for no token (`payment_handler.go:147`,
  `router.go:18-21`), and the webhook's signature is not looked at. Both take requests
  from whoever can reach them, and docker-compose publishes both services' ports.

What is hard about it:

* No lock and no transaction spans the database calls of a request. Check-in,
  check-out, refund and delete read a row, decide, and write in another call.
  The webhook reads, writes, and posts to another service.
* Status updates name the booking only: the last one written wins, whatever the
  status is, and an update of a row that is gone is no error.
* Notices of the provider come late, twice and out of order; a post that timed
  out may still take effect, after later ones.
* A seed is some hundred and thirty writes; availability reads the same tables
  in a call for the list and two for each room type. Seeds overlap each other too.
* Room types are replaced, ids and all, by every seed, while clients order by the
  ids they saw before, and the items of one order are priced one by one.
* Registering looks for the address in one call and inserts in another.
* Any call may fail, may succeed without the caller learning of it, and either
  service may stop between two calls.

What makes each component correct:

* booking: no stay of a booking that was never marked paid, and no departure
  without arrival; deletes are final, answered ok once, and the owner's alone; an ok answer means the
  effect took place.
* payment: one payment per booking, for its whole total; no refund is on record
  without a refund row; payments do not disappear and, once they have an outcome,
  do not become pending again (one outcome may overwrite another); every request is
  answered.
* together: what makes a booking paid is a settlement, reported to the webhook, of a
  payment of its whole total, or a PAID that is posted to the internal route past
  the payment service, and nothing else; what the provider was told ok about has
  reached the booking, and every settlement gets there, unless the booking is deleted.
* catalog: a seed that was answered ok, and that no other overlapped, leaves a
  complete catalog whatever it found; overlapping seeds leave no type without its
  nights; quotes list what fits and price each night by its day.
* orders: what is booked is what was picked; the first night is priced by its
  day; the total is exact within 64 bits; every order is answered.
* booking repository: bookings appear, change and go with all their items;
  transactions that wait for each other end.
* auth: a registration answered 201 stands; one user per address, whatever
  registrations overlap; clients find their own bookings and no others.

## 2. The modules

```
BookingLifecycle      abstract: the life of one booking
      ^ implements
BookingService --------------- INSTANCE in --> HotelBooking (with PaymentService)
      |                                             payments over the same table
      +----------------------- INSTANCE in --> HotelAccounts (EXTENDS AuthService)
                                                    requests come with tokens
PaymentLedger         abstract: payments and refunds, one step each
      ^ implements
PaymentService -- see HotelBooking

BookingStore          abstract: bookings with their items
      ^ implements
BookingRepository

CatalogService --------------- INSTANCE in --> CreateBooking
                                                    orders are priced over HTTP
```

`BookingService` is the centre: its table is composed with the payments in
`HotelBooking` and with the accounts in `HotelAccounts`. It takes two things as
atomic that have modules of their own: how a row and its items are written
(`BookingRepository`) and how a booking gets its price before it is written
(`CreateBooking`). `<M>_proofs` holds the theorems about `<M>`, `MC<M>` its finite
instances.

### BookingService

`bookings` is the table, `req` says what each request slot is doing, `attained`
is a history variable: the statuses a booking has had. `attained[b] = {}` means
that the id was never issued; ids are uuids and are issued at most once.

| action | code |
|---|---|
| `PostBooking` | `Service.Create` and the transaction in `BookingRepository.Create` |
| `Start` | a handler takes up a check-in, check-out, refund or delete |
| `Load` | `repo.GetByID` and the guards of `CheckIn`, `Refund`, `CheckOut`, `DeleteMine` |
| `WriteStatus` | `repo.UpdateStatus` of the first three; `answer = "failed"` is a commit whose acknowledgement was lost |
| `DeleteRow` | `repo.Delete`, rolled back when no row was there |
| `PostInternalUpdateStatus` | the internal route, one UPDATE |
| `Fail` | a database call that fails without effect |
| `Crash` | the process stops; its requests are lost, `AutoMigrate` keeps the tables |

Creating a booking is one step: nothing is written before its only
transaction, so a failure on the way leaves no trace, and no other request
knows the id before it. The prices it collects from the catalog are abstracted
to the total, any member of `Totals` (`CreateBooking` has them). Items live and
die with their booking's row and are left out (`BookingRepository` has them). `RefundPayment` and
`RequestPayment` are no-ops in the program and have no step.

A request that was answered an error leaves nothing behind, so its slot is free
at once (`Idle`). One that was answered ok stays on record until the slot is
used again: the properties about answers speak of it. Requests carry a user
because delete asks for one; check-in, check-out and refund do not look at it,
like the code.

### PaymentService

`payments` is keyed by booking, because the unique order id is `BO-<booking
id>`. `refunds` counts refund rows per payment id, with `Unknown` for an id that
is in no row. `totals` is the booking table as `GetBookingTotal` sees it: no row
yet, a live row with its total, or a row that was deleted; `BookingInserted` and
`BookingDeleted` change it.

| action | code |
|---|---|
| `StartPay`, `CheckTotal`, `InsertPayment` | `Handler.CreatePayment`, `GetBookingTotal` and the comparison, `payRepo.Create` |
| `StartWebhook`, `FindPayment`, `RecordOutcome` | `Handler.Webhook`, `FindByOrderID` and the switch, `payRepo.UpdateStatus` |
| `PostDelivered`, `PostLost`, `PostTimeout` | `bookingHTTP.postStatus`: applied (and answered or not), not applied, or given up after 5 s |
| `LateDelivered`, `LateLost` | a post that is on its way when its sender gives up or stops |
| `StartRefund`, `PersistRefund`, `MarkRefunded` | `Handler.Refund`, `refRepo.Create`, `payRepo.UpdateStatus` |
| `Fail`, `Crash` | as above; a crash turns a post under way into a late one |

`GetBookingTotal` scans an empty result into 0 without an error, and the JSON
binding refuses an amount of 0: that a missing booking cannot be paid rests on
the two together, and `PaidInFull` breaks without either.

### PaymentLedger

The abstract specification: the three tables, and each request as the one step that
changes them. A payment is made once, of the total of a booking that is live or was;
its amount stays; it moves to an outcome at any time, and to REFUNDED only with a
refund row; refund rows are for payments, or for an id that is nobody's. It does not
promise an order of outcomes: the webhook writes what it is told, also over a
refund.

### HotelBooking

Both services over one table. `table` derives what `PaymentService` calls
`totals` from `bookings` and `attained`, so the instance `P` reads the booking
service's rows. A post is one step of both: `Deliver` and `DeliverLate` conjoin
`B!PostInternalUpdateStatus` with `P!PostDelivered` or `P!LateDelivered`.
`notices` is the provider's: of each booking and status `none`, `sent`, or
`acked` once the webhook was answered 2xx. The provider hears of a payment once
it is on record, may say anything of it, and may repeat itself even after a 2xx.

| action | code |
|---|---|
| `BookingStep` | every route of the booking service; `PostByOthers` is the internal route used by anybody but the payment service |
| `PaymentStep` | every route of the payment service, and what becomes of its requests |
| `WebhookByOthers` | `Handler.Webhook` used by anybody but the provider, for any booking |
| `Notify`, `Redeliver` | the provider has something to say, and says it (again) |
| `Deliver`, `DeliverLate` | the post of the payment service |

The two services cannot tell who calls: a post or a webhook of others runs the same
steps as any. What is kept of others is `others`, the requests whose answer does not
go to the provider, and a history variable, `claims`: the bookings that others called
paid, in a settlement told to the webhook or in a PAID posted to the internal route.
The constants `OtherPosts` and `OtherNotices` are what others send; the proofs are for
any, all included.

### CatalogService

`types` and `inventory` are the two tables, `nextId` the sequence behind the ids.
`jobs` says what each request does: `list` holds the room types its loop has not
reached, `cur` the one in hand, `day` the night a seed fills next. `items` is the
answer of a quote. Two history variables: `alone` says that a request met no
other seed, `broken` that a seed failed since the room types were last wiped.

| action | code |
|---|---|
| `StartSeed`, `WipeInventory`, `WipeTypes`, `InsertType`, `ListSeeded`, `FillNight` | `SeedSample`, a step for each of its calls |
| `StartQuote`, `ListTypes`, `CheckStock`, `ReadPrices` | `Handler.Availability`, then `roomTypes.List`, `MinAvailable` and `Prices` |
| `Fail` | a call that fails without effect; `answer = "failed"` is one whose acknowledgement was lost |
| `Restart` | the process stops and `main` runs again: `DropTable`, its error ignored, then `AutoMigrate` |

`SeedSample` writes ten rooms into every row and nothing takes one, so a row is
there or it is not, and `MinAvailable` is positive if any row is. An override
stands exactly in the rows of Fridays and Saturdays; a night thus costs `"base"`
or `"weekend"` of its type, and `Prices` keeps the code's matching by position.
All seeds run on one day, day 1; a later day only moves the window.

### CreateBooking

`Service.Create` over an instance of `CatalogService`. `orders` says what each
`POST /bookings` has done so far: `picks` are the room types the client saw and
chose, `lines` the items that have their price. An order uses the request slot of
the catalog that has its own name, so its quote runs call by call among the
seeds. `stale` (the catalog restarted since the picking) and `sure` (no seed was
under way while the price was asked for) are history.

| action | code |
|---|---|
| `StartOrder` | `Handler.PostBooking`, the dates and `daysBetween` in `Service.Create` |
| `AskPrice`, `TakePrice`, `AddLine` | `InventoryHTTP.Price`, its loop over the answer, and the body of the loop over the items |
| `Timeout` | the client's 5 seconds run off, or the answer is lost |
| `InsertBooking`, `FailInsert` | `repo.Create` |
| `Crash`, `RestartCatalog`, `CatalogStep` | the booking service stops; the catalog does, or takes a step |

Times are hours, so that a stay may be 28 hours long. Money is int64: `Wrap` is
what its sums and products do, with `Word` for 2^63. `WeekendPrice` is
`int64(float64(base) * 1.15)` as doubles compute it for prices up to 2^50 (it takes the
spacing of doubles from `FloorPower`), and `PriceOf` what the catalog quotes for the
night.

### BookingRepository and BookingStore

`rows` and `lines` are what is committed of the two tables, `tx` the statement each
session executes next. PostgreSQL's default isolation, read committed, is
modelled by what the code can see of it: a statement sees what was committed
before it; `RowLocked` and `LinesLocked` are what open transactions have changed
and others wait for; a failure or a stop rolls back.

| action | code |
|---|---|
| `Begin` | a service calls `Create`, `Delete`, `UpdateStatus`, `GetByID` or `ListByUser` |
| `InsertRow`, `InsertItems`, `CommitCreate` | the transaction of `Create` |
| `DeleteItems`, `DeleteRow`, `CommitDelete` | the transaction of `Delete`, rolled back if no row was there |
| `UpdateRow`, `CommitUpdate` | `UpdateStatus` |
| `ReadRow`, `ReadItems` | `GetByID`: the row, and the items by `Preload` |
| `Fail`, `Crash` | an error or a stop: rollback |

`BookingStore` is the promise: one variable, the booking under each id, that is
created with its items, changes its status, and goes with them for good.

### AuthService

`users` holds the row under each address as it is stored, `Lower` is what
`strings.ToLower(strings.TrimSpace(...))` makes of a spelling. `welcomes` and
`tokens` are what clients have been told: registrations answered 201 with the
password they chose, and tokens.

| action | code |
|---|---|
| `Start` | the binding lets a register or login request through |
| `FindFree` | `Register`: `FindByEmail`, and `HashPassword`, which refuses more than 72 bytes |
| `InsertUser` | `repo.Create` under the unique index; the acknowledgement may be lost |
| `Login` | `Login`: `FindByEmail`, `CompareHash`, `SignToken` |
| `Fail`, `Crash` | an error, a stop |

bcrypt tells passwords apart by `Digest`. A token is the claims it was signed
for: nobody else holds the secret, and it neither expires nor is revoked.

### HotelAccounts

`AuthService` with an instance of `BookingService` whose users are the ids of
accounts and whose requests (`calls`) come with a token: `PostBooking` and
`StartRequest` take the user from it, as `requireUser` does. `madeBy` is history:
the address whose token made each booking. `ListMine` is `repo.ListByUser` and the
check of `GetMineByID`.

### BookingLifecycle

The abstract specification: a booking is created once as UNPAID, moves among the
statuses, and is deleted for good. A move to CHECKED_IN needs a PAID somewhere
in its past, one to CHECKED_OUT a CHECKED_IN. It does not need it *now*: that
would be the reading of README.md:111 that the code does not implement (section 4).

## 3. What the runs check

| run | instance | result |
|---|---|---|
| `booking` | 1 booking, 2 users, 2 overlapping requests | all properties of BookingService, and that it implements BookingLifecycle |
| `payment` | 1 booking, totals 1 and 2, amounts 0 to 2, 3 webhook statuses, 2 requests, up to 2 refund rows | safety of PaymentService, that it implements PaymentLedger, and that every request is answered |
| `hotel` | 1 booking, 1 booking request, 2 payment requests, 2 notices, no refunds; others post PAID and CANCELLED and report settlements | safety of the composition |
| `hotel_settlement` | 1 booking, 1 + 1 requests, 2 notices, 1 refund row; others post CANCELLED and report denials | the settlement arrives, and the composition refines both services |
| `catalog` | 2 room types, a window of 2 nights, 2 overlapping requests, 4 ids | safety of CatalogService |
| `order` | 1 order of up to 2 items of 3 rooms, 1 seed at a time, 2 room types, 4 ids, stays of 28 and 48 hours, amounts wrap at 2^22 | CreateBooking: what is booked, what it costs, and that it is answered |
| `repository` | 1 booking with up to 2 items, 2 statuses, 3 sessions | BookingRepository, that it implements BookingStore, and that calls end |
| `accounts` | 3 spellings of 2 addresses, 2 passwords, 2 ids, 2 auth requests, 1 booking and 1 request for it | AuthService and HotelAccounts |
| `checkin_stale`, `refund_one_sided`, `post_missing_booking`, `catalog_nights` | the smallest instance that shows it | violations, section 4 |

Properties of the booking service:

* `StayWasPaid`, `Entitled`: decisions taken on stale rows are still decisions
  about something that was once true. The write may come after any number of
  other writes, so this speaks of the history and not of the status.
* `OkMeansDone`: an ok answer means that the status was attained, or that the
  booking is gone, the one case in which `UpdateStatus` does nothing.
* `DeleteAnsweredOnce`, `DeletedStaysDeleted`, `OnlyOwnerDeletes`: overlapping
  deletes, and writes that come after a delete.

Of the payment service:

* `PaidInFull`: the total is read in one call and the payment inserted in
  another, and bookings come and go between them.
* `PaidOnce`, `OutcomeKept`: only the unique index keeps overlapping payments
  apart, and a second payment must not set a settled one back to PENDING. A later
  notice may still write one outcome over another.
* `RefundRecorded`, `RefundAnswerHonest`: the refund row is written before the
  payment is found, and the second write may fail.
* `ImplementsLedger`: each call that writes is a step the ledger allows at that
  moment, although the request decided earlier, on what other calls had found.
* `Answered` (liveness): the client's timer ends the wait for the booking service.

Of the composition:

* `NoStayWithoutSettlement`: through both services, a stay needs a payment of the
  whole total and a settlement that was reported, unless somebody other than the
  payment service posted PAID for the booking. It is conditional on purpose: the
  internal route takes PAID from anybody, so without the condition it is not true
  of the code. What it says is that there is no third way: not by denials, late,
  lost, repeated or reordered posts and notices, by crashes, or by any other status
  that others post; and that a settlement reported by anybody, which the webhook takes for
  the provider's, has no effect on a booking without a payment.
* `AckedNoticeTookEffect`: after a 2xx the provider is silent, so the booking
  must have had the status by then. It would not hold if the webhook skipped the
  post for a payment that is settled already: the first attempt may have failed
  after the update.
* `SettlementReachesBooking`: and by the retries it gets there.

Of the catalog:

* `SoleSeedCompletes`: the two deletes at its start clear what failed,
  interrupted and overlapping seeds have left, and it stays so until another seed.
* `StockedWhenQuiet`: each seed may wipe what another has filled. A type that is
  left at the end was inserted after the last delete of the types, so after the
  last delete of the inventory, and its seed fills it after that. Types may be
  there twice: overlapping seeds are both answered ok and can leave eight types.
* `QuietQuoteExact`: an answer made of many reads is that of one state, of a
  complete catalog that no seed touches.
* `NeverOvercharged`: the price of a night may be wrong, since overrides are
  matched to nights by position, but there are never more weekend prices than
  weekend nights, even while seeds change the rows.

Of orders:

* `BookedAsPicked`: an order keeps nothing but ids. It books what the client saw
  only because a seed gives new ids to the types it inserts anew, so that an id
  that is gone is found nowhere. A restart of the catalog begins the ids again,
  and the property excepts it: an order picked before may then book another type.
* `PricedByDay`: the night is priced by position and between two calls, and yet no
  night is charged as a weekend's that is none, and no weekend's is missed
  without a seed under way.
* `TotalExact`: products and sums of int64 wrap; the total is right whenever int64
  can hold it, and days are whole days of 24 hours.
* `OrderAnswered` (liveness): by its own timer, even if the catalog never answers.

Of the booking repository:

* `DetailWhole`: `GetByID` reads row and items in two queries without a
  transaction. It never shows a part of the items, but may show none of a booking
  that is deleted by then.
* `ImplementsBookingStore`: two deletes, a delete and an update, statement by
  statement, come to what one after the other would do.
* `CallsEnd` (liveness): no ring of transactions that wait for each other. `Delete`
  takes the items before the row and `UpdateStatus` the row only.

Of accounts:

* `RegistrationKept`: what a 201 told a client stays true, whatever registrations
  of its address overlapped it, came later, or were repeated after a lost answer.
* `OneIdentity`: tokens are of one user exactly if they are of one address,
  however spelt.
* `FindsOwnBookings`, `DeletedByItsAddress`: through both services and any number
  of logins, a client's bookings are those of its address.

Bounds. One booking is enough for the interleavings: every action but a crash
touches the rows of a single booking, and two requests on one row are the case
that matters; that no step touches a second booking is proved (`OneRow`). Two
request slots give every overlap of two requests; a third adds posts (any at any
time, in `booking`) and is covered by the proofs. Two totals and the amounts 0, 1
and 2 give the equal, the different and the refused amount. `"settlement"`,
`"deny"` and `"pending"` stand for the three branches of the webhook's switch.
`MaxRefunds` bounds a counter that the code does not bound; the `hotel` run sets
it to 0, so that it spends its states on webhooks, and refunds are in `payment`
and in the other runs of the composition. The runs of the composition have one amount,
the booking's total; others are refused before anything is written, which is in
`payment`. What others send to the booking service is in full in `booking`, which
takes any post at any time. In the composition `OtherPosts` and `OtherNotices` keep
the two that pay, PAID and the settlement, and CANCELLED in `hotel`, whose properties ask
who paid, and
two that go against the settlement in `hotel_settlement`; REFUNDED and EXPIRED
write a status that no property of the composition asks for. Slots that are alike are
interchanged by `Symmetric` in the `hotel` run, which checks no liveness.

In the catalog, two names in the reverse of their sorted order and four ids give
two whole seeds in every overlap, or one after the other; ids begin again when a
restart drops the table, which lets any number of seeds follow. `MaxId` is the
one bound in the guards (`StartSeed`, `InsertType`); the code has no such guard. The
stays of `MCDays` are the night before the window, the window, and both
together, which is what shifts the overrides; `Guests` are none given and a number
that one of the types has no room for. `Symmetric` interchanges the slots.

In `order`, two items are the least between which a seed fits, and one order
with one seed slot gives every interleaving of the two; orders do not touch each
other. The prices are those of the sample rooms, where `WeekendPrice` rounds; three
rooms at them overflow `MCWord` or not, by type and nights, so lines and sums that
fit and that wrap both occur. The stays begin on day 1, no weekend's, and on day 2, a
weekend's; 28 hours are one day, not two.

In `repository`, three sessions are two that wait for each other and one that
reads or comes in between; two items let a read find some and not all of them. In
`accounts`, the two spellings of one address and the other address give
registrations that race for one row and logins of another user; one password is
too long for the hash, and two ids are one for each address. `Symmetry`
interchanges ids and slots; no liveness is checked there.

Deadlock is checked in every run. No configuration replaces a definition.

### Fairness

`PaymentService!Fairness`: a goroutine that can take a step does (the database
answers or fails), and the timer of a post fires. Nothing makes the booking
service answer.

`BookingRepository!Fairness`: a session that has a statement to execute does so;
strongly, since a row it waits for may be taken by others again and again, and
PostgreSQL queues those who wait. Callers take no part in it: calls need not come.

`CreateBooking!Fairness`: the goroutine of an order goes on, and the timer of its
request fires. The catalog need not take a single step.

`HotelBooking!Fairness` adds, for the settlement of a booking only, strong
fairness of the four steps on its way: the provider delivers the notice again
while it is not acknowledged, and finding the payment, recording the outcome and
posting succeed some time when they are tried for ever. `Webhook` answers 400
for every error, which is what makes the provider repeat the notice. Strong
fairness is needed because a crash, a failing call or a busy slot disables the
step again and again; weak fairness would be met by a system in which every
attempt fails. No fairness is asked of anything else: any other request
may fail for ever, others may call without end, their calls may fail for ever
(`Serves` leaves them out), and both services may crash without end.

## 4. Where the code and its documentation part

Each is a run that TLC must find violated.

* `CheckInRequiresPaid`: README.md:111 says that check-in requires PAID. The check
  and the write are two calls, and a booking that was cancelled in between
  is checked in (`booking_service.go:103-116`).
* `RefundReachesBoth`: `booking_service.go:123` says that a refund triggers the
  refund flow via the payment service, but `noopPay` is all that is wired;
  `payment_service.go:100` says "update payment and notify booking", but nothing is
  posted and `UpdateStatusRefunded` has no caller. Either refund stays on its side.
* `PostNeedsBooking`: `booking_handler.go:162` answers 404 for a booking that is
  not there, but `UpdateStatus` never reports one, so the post is answered 200.
* `AvailableEveryNight`: `catalog_service.go:102` says that Availability returns
  the room types available for the supplied range. `MinAvailable` looks at the
  rows there are, and a stay that ends after the seeded window is offered.

Seen while modelling, without a run: `catalog_service.go:89` computes the weekend
price of the sample Deluxe room, 750000, as `int64(float64(750000) * 1.15)`. The
double next to 1.15 lies below it, so the result is 862499, one short of 15% more.
`WeekendPrice` has this, and the totals of `order` are made of it. It never falls short by
more (`WeekendPriceBounds`).

## 5. What is proved

TLAPS checks the theorems of the `_proofs` modules for every value of the
constants, from the assumptions the modules name: the markers `NoRow`, `NoUser`,
`NoType`, `Idle` and `Unknown` are none of the values they stand beside; amounts,
totals and capacities are numbers; others send statuses that the two routes take;
`MaxRefunds`, `MaxId` and `Window` natural
ones; normalising an address twice does no more than once; `SeedSample` inserts
each of its names once, and at least one; an order asks through a request slot of
the catalog, and the days of its check-in are among those that clients name;
base prices and times are natural numbers, quantities positive ones. Nothing is
assumed of the number of bookings, users or requests; the sets may be infinite.

**BookingService_proofs.** The inductive invariant `IInv` adds to the properties
that the current status is in the history (`HistoryOK`) and that requests are
about issued ids (`RequestsIssued`). `Entitled` is the heart of it: it carries what
`Load` saw to the moment of the write, as a fact about `attained`, which only
grows. Without it `StayWasPaid` is not inductive. `DeletedStaysDeleted` and
`OnlyOwnerDeletes` follow from `RowStep`, which lists everything that may happen to
a row in a step. `Refinement` shows that `BookingService` implements
`BookingLifecycle`: a step touches one row at most (`OneRow`), and its row takes a
step of its life or stays (`PhaseStep`). `AsksBookingStore` is the other half of what
`BookingRepository` proves: the repository implements `BookingStore`, and the service
does nothing to its table that `BookingStore` does not have. So the two modules, one
with whole rows and one with statements, meet at one specification.

**PaymentService_proofs.** `IInv` adds `JobsOK`, what a request knows at each of its
calls, and `PaymentsBooked`, that a payment is made only for a booking that was
there. For a payment about to be inserted `JobOK` says that the booking has this
total or is deleted by now; this is what survives the gap between the two calls. A
request's knowledge is kept because the tables only grow towards it (`Grows`,
`JobKept`). `OutcomeKept` follows from `KeptStep`. `Refinement` maps each of the
four calls that write to one step of `PaymentLedger` and every other to a stutter;
`JobOK` supplies what the ledger asks at that moment. `CallsRunOut` is the safety half of
`Answered`: `CallsLeft` falls with everything that happens to a request, so no
request is set back or goes round; what is left to fairness is that something happens.

**HotelBooking_proofs.** `BookingSide` and `PaymentSide`: every step of the
composition is a step of each service or leaves its variables alone, which gives
the theorems `BookingServiceRefined` and `PaymentServiceRefined` and lets both
services' invariants be used here; `LedgerKept` follows, the payment ledger over
the booking service's own table. The posts of others are steps of the booking service on
its own, and their webhooks steps of the payment service, so both hold with others at
work. `TypeOK` of the composition is proved and not checked by a run of its own: the two
refinements of `hotel_settlement` say it of each service. On top stands `Reported`: a
webhook in hand is about a notice that the provider sent or, if it tells of a
settlement, a claim of others (`InHand`); a notice is about a payment that is on record;
and somebody vouched for a booking that was PAID (`Vouched`): others posted it, or there
is a payment and a settlement was reported.
`NoStayWithoutSettlement` then takes one part from each service (`StayWasPaid`,
`PaidInFull`) and one from `Reported`. `AckedNoticeTookEffect` is part of the
invariant; the step that could break it is a new booking under an id the provider
knows, and `PaymentsBooked` rules it out. `BookingPromisesKept` and
`PaymentPromisesKept` carry what each service promises on its own into the
composition, through the two refinements.

**BookingRepository_proofs.** Four facts make `IInv`: rows and items go together
(`Whole`); a create under way is of an id that is in no row and in no other create
(`CreatesNew`); what a delete has removed is all there is, and its row cannot be
taken from it (`LocksHold`); a read has all items or the booking is gone
(`ReadsWhole`). `Refinement` maps each commit to a step of `BookingStore` and every
other statement to a stutter; `LocksHold` is what makes the second of two deletes
a stutter. Two theorems are the safety halves of `CallsEnd`. `NoRing`: whoever waits for
a booking, some session that works on it does not wait, for any number of sessions; a
session that holds the row only has its commit left, and one that holds the items
waits for the row at most. `StatementsRunOut`: every step of a call leaves it fewer
statements (`Left`).

**AuthService_proofs.** `OneIdentity` does not carry itself. What makes two tokens
agree is that both agree with the one row of their address, now and for ever
(`TokensTrue`), and rows of different addresses differ (`IdsDistinct`).

**HotelAccounts_proofs.** The composition refines `AuthService`, so its invariant
holds here; `OwnerKnown` adds that the owner of a booking is the account its maker's
address has, and `CallsTokened` that a request acts for the user of a token that is
held. `FindsOwnBookings` follows from `OwnerKnown` and what `AuthService_proofs`
knows of tokens; `DeletedByItsAddress` needs `CallsTokened` as well, and `RowStep` of
the booking service. `BookingPromisesKept`: with tokens for users the booking service
keeps all that it promises on its own.

**CatalogService_proofs.** `IInv` says of each request how far it has come, under
the condition that lets it: a seed that no other disturbs (`SeedOK`: wiped, some
names inserted, some types filled, all of them), a quote of a complete catalog
(`QuoteOK`: which types are in the answer already). The condition is what others
cannot take away: whoever changes the tables is a seed, and a request that is
`alone` has no seed beside it (`AloneOK`), so `OthersKept` covers all other requests in
every step. `Stocked` is the one that holds in spite of overlaps: a type without
all its nights will be wiped, or listed, or filled by some seed (`ToFill`). The
proof of `NeverOvercharged` is an injection from the nights charged as a weekend's
into the weekend nights: by its position each has a row of its own.
`RequestsRunOut` says that requests end: the loops of `SeedSample` and `Availability` are
over a list that is read once, so that each step brings its own request nearer
(`Nearer`: a later stage, one more sample, one type less, one more night), and
whatever the others insert meanwhile makes it no longer.

**CreateBooking_proofs.** Every step keeps the inductive invariant of the catalog:
those of one request are steps of it, and a crash, which gives up the requests of all
orders at once, ends quotes only. `BookedAsPicked` needs that an id names one type
wherever it is held: in the table, in the hands of a request, in an answer or in an
order (`OneTypePerId`); a new type gets an id that nobody holds, and a restart, which
begins the ids anew, is a restart of everything that holds one, but for the orders,
which are `stale` from then on. `PricedByDay` has two halves: `NeverOvercharged`
with one night allows no weekend price on another day, and `OneNight` says that a
quote that is still alone has seen the row that it is about to read.

`TotalExact` speaks of a sum over the lines of an order. No induction over the lines
is needed, because the order adds them up one by one: `SumsOK`, kept by every step,
says that the sum over the lines there are is well defined (`IsSum`) and that the
subtotal is this sum but for a number of wraps (`Wraps`). Adding a line is then
arithmetic: `Wrap` keeps sums and products in their class modulo 2^64
(`SumWraps`, `LineWraps`), and two numbers of one class that int64 both holds are equal
(`NoWrap`). `OrdersRunOut` bounds the steps of an order by its items.
`CatalogPromisesKept`: what the catalog promises holds beside the orders as well. `WeekendPriceBounds` says of
every base price that the code's product lies between it and 15% more, and at most
one unit short of the latter.

Only model-checked: the liveness properties `Answered`, `SettlementReachesBooking`,
`CallsEnd` and `OrderAnswered` (TLAPS does not prove liveness under fairness; the
part that is no matter of fairness is proved of each: `CallsRunOut`; that the provider
repeats its notice until it took effect, `AckedNoticeTookEffect`, and that a repeated
notice finds its payment, `Reported`; `NoRing` and `StatementsRunOut`; `OrdersRunOut`);
and the violations of section 4. That a recursive definition is what it should be
for every input would need an induction over data: `FloorPower` stays a definition,
and the bounds of `WeekendPrice` do not depend on it.

## 6. Not modelled

* Who calls. `POST /internal/bookings/:id/status` has no middleware
  (`router.go:18-21`), and `POST /payments/midtrans/webhook` is public and does not
  check `signature_key` (`payment_handler.go:146-147`, `payment_service.go:65-89`). The
  specification makes no assumption about callers: others use both routes at any time. So
  a booking may be PAID without any payment, and a payment SETTLEMENT without a
  word of the provider; `NoStayWithoutSettlement` says under which condition a
  booking is not, and nothing here says that the condition is met. It would be if the two
  routes were reachable for the payment service and the provider only: with
  `OtherPosts` and `OtherNotices` empty, `claims` stays empty.
* `raw_payload`, `provider_ref`, booking codes, guests of a booking, names and roles
  of users: written, and never read but to be shown.
* Lists (`GET /payments`, `ListByUser`): each row of theirs is read like one of
  `GetByID`; no property is about the set of them but `FindsOwnBookings`.
* The statuses the internal route refuses, and requests that fail before their
  first database call: they change nothing.
* `entity.PayDeny` is never written; a "deny" is recorded as EXPIRE, as in the code.
* `CreatePaymentBody`: a handler that no route is bound to.
* `GetByIDs` of the room types: a read without a caller.
* Stock: `Hold` and `Release` do nothing and no code lowers `available_rooms`, so
  there is nothing to say of overbooking but that it is possible.
* The encoding and the signature of tokens, bcrypt, the connection to the database
  and the JSON envelopes: libraries, and helpers without a state or a protocol.
* The indexes on bookings and items, which only speed reads up; the unique ones
  on addresses and order ids are modelled.

## 7. Plan

1. Done: booking service, payment service, their composition, and their proofs.
2. Done: catalog and its proofs.
3. Done: orders, the booking repository, accounts, and their proofs.
4. Done: the payment ledger, that PaymentService implements it, and that the
   composition does.
5. Done: the total of an order; what the two refinements carry into the compositions;
   the safety halves of the liveness properties; that the booking service asks of its
   table no more than the repository provides.
6. Open: that what an order writes is the booking `BookingService` and `BookingStore`
   create, its total and its items; so far the two agree on the step only.
