# EasyServe in TLA+

EasyServe runs a restaurant or club floor: guests scan a table's QR code and
order from their phone, stations (bar, kitchen) work the lines, staff serve and
take payment, guests pay at a till or online through Paystack, and a door
scans the exit pass a payment issues. This directory models its services and
its screens where mistakes cost money, strand a guest or mislead somebody,
checks the models with TLC and proves the central facts with TLAPS.

Paths below are relative to `src/`; `app/` is `src/backend/app/`, and `web/` is
`src/frontend/src/`.

## The system

The backend is FastAPI with async SQLAlchemy on Postgres, several uvicorn
workers, one database session per request. Three facts decide nearly
everything that can go wrong:

* **READ COMMITTED, no row locks.** Handlers `SELECT` (never `FOR UPDATE`),
  decide in Python on what they saw and write at commit. Anything may be
  committed in between by another request.
* **The ORM writes changed columns only**, with values computed in Python. A
  handler that did not change a column leaves another handler's value alone; one
  that did overwrites it, whatever it has become.
* **Unique constraints are the only thing the database refuses.** Where one
  exists (`exit_passes.order_id`, `orders.client_request_id`, ...) a check-then-insert
  is safe, at the price of a 500; where none exists it is not.

| component | state | operations | hard part |
|---|---|---|---|
| Orders (`app/services/order_service.py`, `app/routers/orders.py`) | `orders`, `order_items` | place a round (guest, staff), move a line's status, void, reassign, covers | stale reads of the status and the total; idempotency key |
| Payments (`app/services/payment_service.py`, `app/routers/payments.py`) | `payments`, `orders.status`, `exit_passes` | record at the till, online checkout, Paystack webhook | two settlements racing, redelivered webhooks, short payments |
| Exit door (`app/services/exit_pass_service.py`) | `exit_passes` | scan by token or short code, expiry | two scans of one pass, code reuse |
| Stock (`app/services/stock_service.py`) | `menu_items.stock_quantity`, `stock_movements` | sale, void, adjust, delivery, count, variance, reorder list | read-modify-write, floor at zero, count against a stale expectation |
| Shifts (`app/services/shift_service.py`) | `shifts`, `venues.clock_in_code` | clock in/out, flag, correct, timesheet | two clock-ins at once |
| Alerts (`app/services/alert_service.py`) | `alerts` | raise, acknowledge, resolve, escalate (sweeper in every worker) | acknowledge against resolve against sweeper |
| Live updates (`app/services/ws_manager.py`, `app/routers/websocket.py`) | sockets per process, Redis fan-out | connect, disconnect, publish, listen | sets mutated across `await`, reconnects |
| Accounts (`app/services/auth_service.py`, `password_reset_service.py`, `app/routers/staff.py`, `app/utils/security.py`) | `users`, `password_reset_tokens` | login, PIN login, reset, revoke | superseding tokens, duplicate PINs |
| Nights, promos, menu, tables, venues, reports | the rest of the schema | CRUD, derived figures | business-date arithmetic |
| Outbox (`web/lib/offline.ts`, `useOffline.tsx`) | IndexedDB | queue, flush, drop | replay, reordering, two tabs |
| Guest's pages (`web/app/table`, `web/app/bill`, `lib/guestSession.ts`, `stores/order.ts`) | session, cart, visit, bill, socket | order, call, look, pay, leave | when a visit ends; answers that cross; two sockets |
| Stations (`web/app/bar`, `kitchen`, `cashier`, `security`, `staff`, `components/TakeOrderSheet.tsx`, `CoversPicker.tsx`, `Summons.tsx`, `ShiftControl.tsx`) | the page | serve, void, take payment, scan, answer calls, key in a round, clock in | reloads against taps, timers, optimistic updates |
| Owner's pages (`web/app/owner/*`) | the page | tables, staff, promos, stock, timesheet | a form over a list that has gone old |
| Session (`web/lib/api.ts`, `stores/auth.ts`, `components/AuthGuard.tsx`, the login pages) | `localStorage`, the page's store | sign in, refresh, sign out, recover | a refresh against a sign-out |
| Channels (`web/lib/venueChannel.ts`, `ws.tsx`, `tableLive.ts`) | socket, ticket | connect, reconnect | ticket expiry |

Components interact through the database (an order is written by guests,
stations, tills and webhooks), through direct calls (`place_order` and the void
call the stock service; both payment paths call `_create_exit_pass`), and through
best-effort WebSocket messages after the commit.

### What makes each part correct

* Orders and payments: a paid order was paid in full, stays paid, has exactly
  one exit pass, and its bill is that of its lines. Money taken online is
  confirmed or flagged. No order is paid at two tills.
* Intake: a round is billed once however often it is sent, the outbox keeps its
  order and gets empty, and a round by staff belongs to somebody.
* Door: a live pass is known by its own code, opens the door once, and is not
  spent on nobody.
* Stock: the level is the opening level plus the ledger; a void gives back what
  its sale took, once; a count is the truth, and the period after it adds up.
* Alerts: a call is answered or reaches the owner, each level rings once, the guest
  hears the name of the one who comes, and nothing moves backwards.
* Live updates: a screen that shows something old is about to reload.
* Shifts: one open shift a person, the original times kept.
* Guest's visit: no unpaid round is on a bill the phone cannot open, the
  goodbye is true, the socket that is sent to is the one that listens.
* Screens: what one shows with nothing under way is what is stored; what was
  keyed in is what is billed; a tick, a scan or a tap counts for the order, the
  guest or the line it was meant for.
* Business day, promos: the price is the one on the poster at every minute.
* Accounts: a station acts as the person it shows and as nobody after the
  sign-out; a PIN or a password handed over opens that person's account only.
* Stock room: the stored level is what stands on the shelf.

## Modules

| module | what it is |
|---|---|
| `Settlement` | orders, lines, payments, exit passes; every handler a read and a commit |
| `Clearance` | what the settlement promises: an order is let out once, with the payment that clears it |
| `OrderIntake` | how a round gets from a screen to the bill: tabs, outbox, network, `place_order` with its key |
| `ExitDoor` | exit passes: codes drawn, given out again, scanned, marked, expired |
| `StockLedger` | stock levels, the movements beside them, and the variance report |
| `LiveUpdates` | how a change reaches the staff's screens: Redis fan-out, tickets, sockets, reloads |
| `Alerts` | a guest's call: raised, answered, closed, escalated by the sweeper of every worker |
| `GuestVisit` | the guest's phone: session, cart, rounds and calls, and when a visit is over |
| `GuestBill` | the bill page: reloads that cross, the exit pass, feedback, the goodbye |
| `GuestChannel` | the guest's sockets and the one place per session a worker keeps |
| `Till` | the cashier's terminal: queue, form, tick, timer |
| `DoorScreen` | the guard's camera, typed code and verdict |
| `StationScreens` | bar and kitchen tickets over the outbox |
| `FloorOrders` | the attendant's floor by table |
| `CoversPicker` | a headcount that moves before it is saved |
| `FloorCalls` | the summons, the list of calls, the calls in hand |
| `OrderSheet` | the sheet a round is keyed in on, and its key |
| `Shifts` | clock-in, clock-out, unclosed shifts, the owner's corrections |
| `OwnerTables` | the owner's floor: tables added, edited, covered, served, taken off |
| `OwnerStaff` | accounts, PINs and passwords that can be shown once |
| `StockRoom` | the owner's nightly count, crates and deliveries against the shelf |
| `SignIn` | tokens, refreshes, sign-out and recovery on a shared tablet |
| `Promos` | the business day, promo windows, the price at every minute |
| `Handlers` | the workers that `ExitDoor`, `StockLedger` and `OrderIntake` share |
| `Screens` | the screens beside each other, one of them moving: what the theorems about screens are about |
| `MCSettlement`, `MCOrderIntake`, `MCHandlers`, `MCLiveUpdates`, `MCAlerts`, `MCScreens` | instances for TLC |
| `Sums` | what adding up over a finite set does, proved from the definition of `MapThenSumSet` |
| `SettlementProofs`, `OrderIntakeProofs`, `LiveUpdatesProofs`, `AlertsProofs` | proofs about the module each is named after |
| `DoorAndStockProofs` | proofs about `ExitDoor` and `StockLedger` |
| `TableScreensProofs` | proofs about the screens around a table: visit, bill, channel, floor, covers, calls, sheet, door |
| `HouseScreensProofs` | proofs about the screens of the house: till, stations, tables, staff, sign-in, shifts, stock room, promos |

The modules meet where the code does, and each takes the others as
its environment. `OrderIntake` decides how often a round is billed and keeps
orders open; `Settlement` takes a round as one request and decides what becomes
of the bill and whether an exit pass is inserted; `ExitDoor` starts with
that insert. `StockLedger` takes the sales and voids of the other two as
requests. `LiveUpdates` says which changes a screen may miss; `Alerts`, whose
changes they are, therefore lets a screen offer any alert to anybody. Only
`Settlement` has a worthwhile abstract specification, `Clearance`: it relates
two tables that several handlers write.

The server modules use one reading of the backend: a step of a handler is what
lies between two points at which another transaction's commit can become
visible, so SELECTs and the commit are steps of their own, and what a handler
has read stays in `task[w]`. Crashes lose `task[w]` and keep what was committed.

The screen modules use one reading of the pages. A page is a record of its
React state. What it shows is a set of operators (`Form`, `Rows`,
`Cards`, `Boxes`, ...), and a handler is an action whose guard is that the control is on screen
and enabled, so that whether a button waits for its own request is in the
guard. A call that changes something is sent, handled (or lost) and answered
(or not) in separate steps, in any order, wherever a property turns on it; so a page may
give up on a call that the server has carried out. What the page shows is thus never
assumed to be what the server has. The server's side of a page is one step per request where
another module already has the handlers' interleavings, and a read and a
commit where none has (`Shifts`, `OwnerStaff`).
Where a property has an excuse, it is a history variable of its own with the event in its
comment (`crossed`, `slips`, `hurried`, `undone`, ...), and the property says
that nothing else can break the promise.

### Settlement

State: `order`, `item`, `payment`, `passes` are the tables (`passes[o]` counts
the rows of `exit_passes` for `o`); `flagged` the payments with a
`payment_underpaid` audit row; `webhook` and `refused` Paystack's side; `task[w]`
what the handler running in worker `w` has read. Three history variables say where the
code loses track of the money: `overtaken`, the orders that had changed between the read and the
commit of a handler; `revived`, the lines a tap brought back after their void; `revoided`, those
of them that were voided again.

| action | code |
|---|---|
| `PlaceRead`, `PlaceCommit` | `place_order`: join an open order of the session or open a new one; the total is the one *read* plus the round |
| `StatusRead`, `StatusCommit` | `update_item_status`: 400 on voiding a paid line, void, any step over any other, auto-advance; all from the order as read |
| `PayRead`, `PayCommit`, `PayRefused` | `record_payment`; `PayRefused` is the unique violation on the second exit pass |
| `Checkout`, `Charge` | `initiate_gateway_payment`; the guest paying on Paystack's page (external) |
| `HookRead`, `HookSeen`, `HookFlag`, `HookConfirm`, `HookRefused` | the webhook: already confirmed, underpaid, confirmed, or refused by the constraint with a 500 |
| `Redeliver`, `Abort` | Paystack repeating a delivery (external); a worker dying or Postgres aborting before the commit |

Abstractions. A handler's SELECTs are one step and its writes another: what is
flushed early is invisible to others until the commit. A round is a set of
lines whose price sum is given by the constant `Subtotal`. Service charge and
VAT are one amount (their sum), in whole kobo. `Checkout` is one step, since
nothing looks at its row before the guest pays. A request that is refused
without a write is not a step. Rounds without lines and non-positive quantities are not
modelled.

### OrderIntake

State: the device's `call`, `answer`, `outbox` (IndexedDB, with `queuedAt` for
its autoincrement and `todo` for the listing a flush works through); the
network's `wire`; the server's `key`, `session`, `exists`, `owned` (orders) and
`applied` (how often a request was carried out); `task[w]`.

| action | code |
|---|---|
| `SubmitOffline`, `SubmitOnline`, `SubmitAnswered` | `submit` in `useOffline.tsx`: queue when the browser says offline, else call, and queue only on a network error or 5xx |
| `FlushStart`, `FlushNext`, `FlushAnswered` | `flush` in `offline.ts`: list once, send in order, remove what is final (2xx, any 4xx), stop at what is not |
| `NetworkFails` | `fetch` rejects: the request never arrives, arrives late, or is handled with nobody listening |
| `TurnedAway` | rejected on its merits (400, 404), or unjudged: a guest's round by the rate limit (429), staff's requests because `send` replays an expired token or one without the role (401, 403) |
| `Arrive`, `Look`, `OpenCommit`, `OpenRefused`, `JoinCommit`, `Finish` | `place_order`: key lookup, order to join, commit (or the unique violation), and `place_staff_order`'s second commit |
| `TapCommit` | `update_item_status`, of which only the last writer matters here |

Each browser tab has two clients, its taps and its flush, which know nothing
of each other. Requests are model values; a round is its own key. An order
sheet's round opens an order of its own; rounds of one guest join one. `limited` is any answer
that says nothing of the request, and `spurned` the requests that met one: the queue drops them
like any other 4xx, a staff round too. Tabs are never closed, and orders stay open.

### ExitDoor

State: `code`, `expires`, `used` are columns of `exit_passes`; `now` the clock;
`task[w]`; `admitted` and `turnedAway` what guards were told.

| action | code |
|---|---|
| `IssueRead`, `IssueCommit` | `_create_exit_pass` with `generate_short_code`: a code no live pass has, or a long one nobody checks, then the commit |
| `ScanRead` | `scan_exit_pass` finds the row, by token, or by code among all of the venue's passes; a scan that finds it spent, expired or missing is answered here |
| `ScanCommit`, `ScanAnswer` | the pass is marked and committed; then the guard is told |
| `Tick`, `Dies` | time; a worker dying |

`raced` and `overlapped` are history: codes two handlers gave out together, and
passes two scans met on. The properties name them as the one excuse.

### StockLedger

State: `level` is `menu_items.stock_quantity` (`Null`: not tracked), `ledger` is
`stock_movements`, where `at` is `created_at`, which Postgres sets to the *start* of
the transaction. `BeginWork` starts it, `Read` is the SELECT, `Commit` writes what
`record_movement` makes of the level read; `GivesUp` is every refusal or failure. The
kinds of request are the five entry points (`sale`, `void`, `adjust`,
`receive`, `count`), the owner's PATCH of an item (`edit`), which writes no
movement, and a station's tap (`tap`), which moves no stock but takes a voided line out of
"cancelled", so that it can be voided, and restored, again (`revived`). `lacked` is what the
log warns of: units of a movement that were not there. `LastCountAt`, `Since` and `Variance` are `_last_count_at`,
`_movements_since` and `get_variance`. Only columns that changed are written.
Values in money, the reorder list and the paging of the history are left out.

### LiveUpdates

State: `version` stands for everything that is stored; `redis`, `linked[w]`
(`manager._redis` is set), `listening[w]`, `air[w]` (published to `w` and not
dispatched); per screen its `socket`, `ticket`, `due` reloads, `replies` and `view`.

| action | code |
|---|---|
| `Store`, `Announce` | every handler: commit, then broadcast |
| `AnnounceFirst`, `StoreLast` | `escalate_stale_alerts`, the other way round |
| `ThroughRedis`, `Locally` (in `Broadcast`) | `_publish` and its fall-back to this worker's sockets, after which `_redis` is `None` |
| `Listened`, `ListenerBreaks`, `ListenerReturns` | `_listen_forever`; a dispatch that raises half way is logged, and the sockets it had not reached are not told |
| `TicketFetched`, `TicketExpires`, `Connect`, `Drop` | `useVenueChannel`'s one ticket per mount, thirty seconds, `useReconnectingWS`'s retries with that ticket |
| `Served`, `Shows`, `ReloadFails`, `AnswerLost` | the reload an event causes, answered by the server, shown when the answer arrives; a fetch that fails is swallowed and nothing asks again before the next event |

A screen is one mount of a page. Requests a screen has made and the server
has not answered count as one, because each is answered with what is stored at
that moment. `missed` and `raced` record why a screen may be behind for good:
it was off the channel while a change was announced, Redis, the handler or the dispatch failed on
the way, its reload failed; or one answer overtook another, or a sweeper announced what it had
not stored.

### Alerts

State: `rows` is the `alerts` table, `age` the two thresholds of 45 and 120 seconds,
`task[w]` a handler, `sweep[w]` the transaction of the worker's sweeper, `told`
what the guest last heard. `Raise`, `OpenToFloor`, `Announce` are `create_alert` with its two
commits and its broadcast; `AckRead`, `AckCommit`, `AckTells` are `acknowledge_alert`;
`ResolveRead`, `ResolveCommit` are `resolve_alert`; `SweepRead`,
`SweepAnnounces`, `SweepCommit` are `escalate_stale_alerts`, which announces
alert by alert and commits once. An alert on which two of these were at work
together is in `crossed`; one answered by somebody who saw that it was answered
already is in `again`. The kinds of alert and the loads the auto-assignment
balances are left out: `Raise` assigns or does not.

### The guest's pages

`GuestVisit`: `phone` is the table page and the bill page's hold on the session, `stored` the
outbox, `wire` what is sent, `table` the venue's orders. `Menu` answers
(`getSession` and the menu's `visit`) end a visit; `Fold` adds to the visit's line
what the page knows by itself. `GuestBill`: every event reloads the orders;
an answer is a snapshot that arrives when it does, and the venue moves lines any way it likes
meanwhile. `undone` are the orders whose served or voided line moved again, or whose payment
a stale tap wrote over; `late` those placed while the page was open. `GuestChannel`: the
table page opens one socket and never again, the bill page's reconnects; `PlaceTaken`
and `disconnect_customer` write the worker's one slot per session.

### Stations

* `Till` (`web/app/cashier/page.tsx`): `till` is queue, selected order, method, tick and
  success panel; `Wiped` is the timer of 2.4 s, which nobody cancels. `PaymentTaken` is the venue,
  `PaymentRecorded` the answer, and `PaymentFails` every call that fails for the page, one that
  was taken included. The amount is the page's own sum.
* `DoorScreen` (`web/app/security/page.tsx`): the camera may decode twice; the
  venue reads a pass, marks it and answers in three steps, in any order with other posts; meanwhile passes run out and
  other guards mark them (`PassLapses`).
* `StationScreens` (`bar`, `kitchen`): taps go through `submit` of the outbox, one client's queue;
  both stations write the same step of a line that either shows.
* `FloorOrders`, `FloorCalls`, `CoversPicker`, `OrderSheet` are the parts of the
  attendant's page that share no state but the socket: tables and lines, calls, the headcount, the sheet.
  A station's taps reach the floor's lines in any step over any other (`StationWrites`).
  `OrderSheet` keys a sheet, not a basket, and says so.
* `Shifts`: `button` is the header's control, `form` the owner's correction;
  requests read and commit in two steps, `flag_unclosed` is a third party.
* `SignIn`: `browser` is `localStorage`, `tab` the page with its store; four doors, `fetchMe` and other
  calls, the interceptor's refresh, the link of the recovery mail, and an epoch (`tokens_valid_after`).

### The owner's pages

* `OwnerTables`: `grid` is the venue's rows, `plan` the page with its copy; `meant` is what
  the owners last asked for.
* `OwnerStaff`: a PIN is compared with every account's (`CheckPin`), and stored later
  (`Create`, `SetPin`); `handed` and `given` are what was last shown as somebody's.
* `StockRoom`: `shelf` is what there is, `stock` what is stored; crates that have come or
  broken wait in `truck` and `broken` until the owner keys them in. How handlers
  that meet on a level harm it is `StockLedger`'s, so a count that is under way beside
  anything else is an excuse here.
* `Promos`: `Price` is `apply_promo` over `in_window` and the business weekday; `Advertised` is the poster.

## Runs

| run | configuration | what it shows | distinct states |
|---|---|---|---|
| `settlement_serial` | `MCSettlementSerial.cfg` | one worker, two orders, any tap, a crash and a repeated webhook: no webhook fails and every charge is confirmed or flagged (`ChargesComeThrough`) | 298,474 |
| `settlement_concurrent` | `MCSettlementConcurrent.cfg` | two interleaved handlers, any tap: a paid order has one pass and a confirmed payment, one till takes its money; bills match lines and a paid order was paid in full, but for orders two handlers met on and lines that came back (`MoneyAddsUp`); only a tap that read the order unpaid undoes a settlement (`SettledForGood`); `Clearance` is implemented | 707,360 |
| `settlement_stale_serve` | `MCSettlementStale.cfg` | violation: `SettledStaysSettled` | |
| `intake` | `MCOrderIntake.cfg` | staff rounds are billed once and claimed when confirmed, the queue is replayed in order, and what is queued is served unless that very request is turned away | 81,269 |
| `intake_dropped_key` | `MCOrderIntakeDroppedKey.cfg` | violation: `BilledAtMostOnce` | |
| `handlers` | `MCHandlers.cfg` | the door shares a code or lets two out only where two handlers met, and spends a pass on nobody only by a death; level, ledger, history and counts agree up to the causes each property names; a guest's round is billed again only after a failure | 948,269 |
| `door_reused_code` | `MCHandlersReusedCode.cfg` | violation: `ValidPassOpens` | |
| `stock_variance` | `MCHandlersVariance.cfg` | violation: `VarianceIsReported` | |
| `live_updates` | `MCLiveUpdates.cfg` | a screen that is behind is about to reload or has one of the named reasons; links heal | 97,959 |
| `alerts` | `MCAlerts.cfg` | nobody is rung twice, told a wrong name or sent back, unless two were at work together or one died; an unanswered alert reaches the owner | 358,933 |
| `screens` | `MCScreens.cfg` | seventeen promises of the pages, one each (`TableIsAsMeant`: a table that was edited is as its owner last asked) | 1,627,443 |
| `till_amount` | `TillAmount.cfg` | violation: `FormAsksWhatIsOwed` | |

Several modules in one run. `MCHandlers`, `Screens` and `MCOrderIntake` hold parts
that share no variable: `Init` picks one part, `Next` moves only that one, and
the others rest in their initial states. What TLC explores is the sum of the
parts, not their product, and each property is checked on its own part. Constants that mean
the same in several parts are shared. Some properties are conjunctions of two that
belong together: `MoneyAddsUp`, `SettledForGood`, `ChargesComeThrough`,
`MarksFit`, `LedgerExplains`, `QueueKeepsFaith`, `NewsIsTrue`, `SheetIsTrue`, `HoursAreTrue`;
their comments state the parts.

Bounds, and why they suffice. Every hazard here is a race of two: two handlers with
one row between them, a call and its replay, a message and a reload. Two
workers, one fault and the rows the two share are where each first happens, and
the mutants of `PROJECT.json` show that each property fails on these
instances when the code is a little wrong.

* `settlement_serial`: two orders, lines and payments, one crash, one repeated
  webhook; a second order because a session may open one after paying. It has one worker because two,
  with liveness, are out of reach; `ErrorsNeedMeeting` proves for any number what two can break.
  `settlement_concurrent`: one order, two lines and payments, two workers, no crash and no repeated
  webhook. A behaviour that has met on its order brings no voided line back, and the other way round
  (the constraint `OneTrouble`): `MoneyAddsUp` excuses the
  order that was met on, and no handler's write depends on whether a line had been void before.
  In both, a line costs 1000, a cashier keys in 1500, which covers one line
  and not two, and a tap asks for "delivered" or "cancelled" over any status: the steps in between
  are not told apart by a bill or by the auto-advance.
* `intake`: by staff, two tabs, two workers, two rounds of which one is rejected, at most one lost answer,
  one death, or one expired token alone (`Mishaps`); by a guest, one tab, two rounds on one order, a tap.
* `handlers`: the door has three passes, two short codes and a long one, two workers and three
  moments, so that a code is given out, dies and is given out again; the stock has any four of
  ten requests on two items, one untracked at first (a sale, its void, a tap and a second void; a sale, its void, a
  count, and one in between).
* `live_updates`: two workers, one screen, two changes, one fault (of Redis or a link, a socket, a handler, a
  dispatch, a reload or its answer).
* `alerts`: two workers, two attendants, one alert, one death.
* `screens`: two of whatever can cross (sessions, rounds, bills, calls, sockets, posts,
  sheets, passwords); one order on the floor with two lists of it, since what goes wrong there goes wrong
  order by order; one list of calls, one of a bill beside one that is there at once, and one order undone; two people, one reload
  more than it takes to be old. A promo day has six ticks, the rollover at the
  second, a week two days, and the windows one that wraps, one in the small hours, one that holds the
  rollover and one without width. A crate has two bottles.

Every run says `CHECK_DEADLOCK FALSE`: requests, ids and faults are finite in
an instance, and when they are used up the system rests. Nothing in the code
waits for a lock of its own, so there is no deadlock to look for beyond that;
the liveness properties say what must not be left undone.

Fairness, and why the code justifies it:

* `settlement_serial`: a handler that has begun ends (weak), and Paystack
  repeats a delivery until it gets a 200.
* `intake`: the 20 s interval flushes again and again, callbacks run, and
  handlers end (weak). A request on the wire is delivered if it can be again
  and again (strong), since a worker that is busy now is free later. Nobody
  has to tap, and failures are bounded. A request that was turned away (429, 401, 403) is excused, and no other.
* `live_updates`: Redis comes back, the listener's `while True` tries again,
  what is published is read, reloads are answered. Nothing is assumed about
  connecting before the ticket has expired, or of the people.
* `alerts`: time passes and each worker's sweeper loop runs every ten seconds,
  swallowing whatever a sweep raises. No handler, guest or attendant is
  assumed to do anything.
* `screens` and `handlers` check safety only.

## Proofs

Everything is proved for any number of rows, workers, clients and faults, from
the assumptions the modules name (`IdsAssumption`, `IntakeIds`, `DoorIds`,
`LiveIds`, `StockConstants` and the like: identifiers differ from `None`, prices and bounds are
naturals). Each argument is the usual one: an inductive invariant, stated in the component's
module beside the property it is for and checked by TLC before it was proved, a
lemma per action or group of actions, and a temporal step that puts them together. Of
the forty properties of the passing runs, all but those under "Only model-checked" have a theorem.

* `SettlementProofs`: the inductive invariant is `SettlementInv`. That a paid
  order has its pass (`SettledIsBacked`) is not inductive alone, because a
  webhook that read the order as paid confirms without inserting a pass; `SawSettledSawPass`
  and `TaskOwnsPayment` say what the handlers under way know. That
  the settlement implements `Clearance` follows step by step: a commit that inserts
  the pass is `Clear`, a confirmation that does not is `EnterLate`, all else stutters.
  `MoneyAlwaysAddsUp`, `SettlementStands` and `ErrorsNeedMeeting` are about the money, for any number of
  workers and any taps, with no hypothesis beyond the assumptions. The code does lose count, and the history
  variables say where: an order is `overtaken` once a handler commits over what has changed since it
  read, and a line that came back from its void (`revived`) is on no bill, a second void of it
  (`revoided`) is taken off twice. `MoneyInv` adds to the above what a handler *read* (`KnowsRows`: a round joined an
  order that still received, a till was given enough for the bill it saw) and that an order with a pass is paid
  unless overtaken (`PassIsSettled`). A commit then either finds its order as it read it, and the bill and the
  lines change together, or makes it overtaken. The sum is `Subtotal`, of which `SubtotalIsSum`
  says that it is additive. `SettledForGood` excuses one step only, the commit of a tap that
  read the order before it was settled; `settlement_stale_serve` shows that step.
* `OrderIntakeProofs`: `TypeOK` with `IntakeInv`. A staff round is billed exactly when an order
  carries its key, and at each stage a handler has (or has not) placed
  it; for `ConfirmedIsOwned` one must also know that an answer goes to the
  client that waits for that very request. `StaffRoundsBilledOnce` is about the
  rounds keyed in by staff, whatever guests send beside them; for a guest's it is false
  (`intake_dropped_key`). `QueueKeepsItsFaith` needs to know of every listing a flush
  works through that it is in the order of the taps, and that what is no longer queued
  was judged (`DrainInv`). Being turned away unjudged is such a verdict, of that request alone (`spurned`): with two
  tabs, one flush may drop a request that the other still sends, out of order, which an attempt to prove the
  property without it showed. `TwiceOnlyByFailure`
  has one tab as its hypothesis, since two that flush the same round bill it
  twice without a failure; `OnceInv` says that a calm device has each request in one place.
* `DoorAndStockProofs`, the door: `DoorTypeOK` with `DoorInv`, which adds to the properties what
  handlers hold: a code about to be given out has no live holder, a scan about
  to answer has marked its pass.
* `DoorAndStockProofs`, the stock: `WorkInv` (a request is handled once), `LedgerInv` (it moves each
  item once, and a sale all items that are tracked) and `AloneInv`: a handler nobody has met on an item
  has read the level as it is, began after every movement of it, and, if it is a void, finds its
  line uncancelled. So what it commits is the newest movement and carries the level
  (`HistoryReads`), and a void pairs with the one sale movement it undoes; a second void of that line has a
  tap between the two (`RestoredOnce`, from `VoidsStand`: a voided line stays so until a tap later than its void). What the
  ledger and a period add up to (`LedgerExplains`, `PeriodAdds`) is `SumsInv`: a commit adds one row an
  item, and by `Sums` its quantity to the sum; `CountsInv` says of every count,
  not only of the last, that its item starts afresh there. The
  assumption is `StockConstants`, which says what a request may ask for and which
  `MCHandlers` assumes of its constants.
* `LiveUpdatesProofs`: a shape, `LinksInv`, and that nobody is forgotten. `StaleHasReason`
  looks at screens that show something; its inductive form looks at the answers on
  their way and the requests as well, and at whether a change is announced and not yet stored. A lost
  reload, a lost answer and a dispatch that raises each put the screens they leave behind among the `missed`.
* `AlertsProofs`: `TypeOK` with `AlertsInv`. A handler or sweep that decides on a row it has
  read is right only if nobody else writes it meanwhile. `OneAtATime` says that an alert which
  was never crossed has at most one at work on it, `KnowsRow` that this one knows the row as it is;
  from these follow that what it commits goes forwards (`NeverBackwards`, an
  action property) and that what it announces was not announced yet (`RungIsKept`, which says of
  each level that rang that it is stored or about to be).
* `TableScreensProofs` and `HouseScreensProofs`: one part per screen, with one invariant, and a theorem about
  `Screens` (or, for the two modules it extends, about their own specification). In each
  the property speaks of a page at rest and the invariant of what is on
  its way: which requests and answers are under way, what was typed or shown when they were made,
  and which of them has been overtaken. Examples:
  - every list the bill page shows, or that is on its way to it, calls paid and served only what still
    is or has been undone since, and lacks only what was placed after the page was opened (`BillInv`);
  - a line that is off the bill is voided, or was revived or served by a tap on an old list (`FloorInv`);
  - a verdict under way is about a pass that was put to the page, and a valid one was valid when it was shown
    (`DoorInv`); a tick has at most one payment more than slips, and none more while something can be posted (`TillInv`);
  - the only socket open at the phone's end is the page's own, and a second one at the worker's end
    was left behind (`ChannelInv`);
  - a round of a session the phone has left is paid, or was refused, or had not arrived when the menu called
    the visit settled (`VisitInv`); what the visit's line counts are rounds that have left the phone for this
    visit, and fewer rounds add up to no more (`FiguresInv`, `SumGrows`);
  - while no two requests have met, PINs differ, a PIN that is about to be stored is nobody's, and what was shown is set (`StaffInv`);
  - whatever is in flight carries the token of the one who is signed in, and there is one refresh or
    sign-in at a time (`SignInInv`);
  - a correction about to be written carries what the clock recorded (`OriginalsInv`);
  - what the stored level lacks of the shelf is in crates to key in or in
    requests not carried out: a sum over what is on its way (`StoreInv`);
  - the price at a minute is the poster's by a case distinction on how a window and
    the night's rollover wrap, for a day of any length. The invariant (`PromosInv`) only says that the rows
    are rows of the form.

  The assumptions are the `ASSUME`s of `Screens`, each with the code that justifies it: names that
  stand for nobody are nobody's, the chips and what is typed are numbers, a
  menu is finite, times are of a day, a crate holds a bottle or more.

Sums. `MapThenSumSet` is a recursive function on subsets, and induction theorems with
a predicate as parameter are out of the provers' reach. `Sums` spells the induction out for each
fact, from a smallest subset at which it fails: the function exists, an element more
adds its value, equal values give equal sums, and so on. The proofs that use it only show that
a sum in the model is a `Sum` of a function.

What proving changed in a model. `StockRoom` had a delivery whose answer closes the
form leave the requests of *other* deliveries at that form; the page unmounts it
(`web/app/owner/stock/page.tsx:331-333`), so they are `Orphaned` too. `StoreInv` was not inductive without.

Only model-checked: all liveness (`ChargesComeThrough`, `EverythingIsServed`, `AllCatchUp`,
`ReachesOwner`), which takes fairness. Of `ChargesComeThrough`, the half that is safety is
proved as far as it goes with any number of workers (`ErrorsNeedMeeting`). The action properties are proved.

## What the runs found

Disagreements that a run shows (`findings` in `PROJECT.json`):

* **Stale serve.** `app/routers/orders.py:261-262` lets "settled" win over
  "served", but looks at a status read before the payment committed. A paid
  order becomes `fully_served`, and owes again (`settlement_stale_serve`).
* **Dropped key.** A round that joins an order keeps its key only if the order has
  none, and an order opened with a key has one. The replay of a round whose
  answer was lost is billed twice (`intake_dropped_key`).
* **Reused code.** Codes of dead passes are given out again, and a scan looks
  among dead passes too: a guest with a valid pass may be told "expired" (`door_reused_code`).
* **Variance.** The report counts movements strictly after the last count, so
  the count's own discrepancy is never on it (`stock_variance`).
* **The till's amount.** The cashier's form posts the sum of price times quantity, without service
  charge and VAT and with voided lines in it; where a venue charges either, every payment is
  refused (`till_amount`).

Seen while modelling, and kept in the models as the code has them. On the server:

* A failed publish sets `_redis = None`. Only a listener that subscribes again
  sets it back, so a worker whose subscription stays up is cut off for good.
* "Stored so the sweeper never re-raises the same alert": production runs four
  workers (`docker-compose.prod.yml:76`), each with a sweeper, and two may read
  the same level. One that stalls writes an older level over a newer one.
* Two handlers that meet on an order lose a round or a void from its total, join a round to an order that is paid by then, or
  make a webhook answer 500; `MoneyAddsUp` and `RefusedWhenOvertaken` say that nothing else does.
* `update_item_status` lets a stale tap revive a voided line (served, and not on the bill); voided again, its price comes off
  and its stock goes back a second time. A line that was served can go back, also on a paid order.
* "A request is removed from the outbox only after the server has actually accepted it"
  (`web/lib/offline.ts:18-19`): a staff round replayed with an expired token gets a 401 (`send` in `useOffline.tsx:16-25` does
  not refresh it) and is dropped (`offline.ts:143`), as is a guest's that meets the rate limit.
* A clock-out, unlike a correction, does not look whether it ends after it started.
* "A PIN has to identify exactly one person at a venue" (`app/routers/staff.py:46`) is compared and
  then written, with no constraint: two owners at once give two people one PIN.
* A table that is edited with its zone's box emptied keeps its zone (`exclude_none`), though the toast says
  updated; a table taken off leaves its open order on no card of the floor.
* `promos` windows with the 6 AM rollover inside change their weekday half-way.

On the screens:

* `venueChannel.ts:115` says a ticket is "Fetched fresh on each connect,
  including reconnects"; it is fetched once per mount, so a reconnect after
  thirty seconds is refused for ever.
* `acknowledge_alert` is to "Clear it from every other screen"; the staff page
  shows a toast and leaves the summons up.
* Two tabs of a guest that flush the same queued round, which joins an order, bill it twice without any failure.
* A refresh that crosses a sign-out puts the tokens back; one that fails on the network clears
  them; a failed `fetchMe` leaves the spinner.
* A cash payment that was recorded and whose answer is lost leaves the form and its tick for the next row.
* A scan whose answer is lost says "DENY ACCESS", whether or not the pass was marked.
* Attendants cannot take payment although the page has the buttons: nothing sets `canTakePayment`.
* `owner/orders` offers "Mark Fully Served", a `PATCH /orders/{id}/status` the backend has no route for.
* The timeline calls a paid order's unserved lines "Served".
* The keys of the PIN pad stay live while a PIN is being saved; the answer to "Add Member" that comes
  into an open pad shows one person's digits under another's name; of two password resets that cross, the
  one on screen may be the dead one.
* "Create promo" and "Add Member" are not switched off by their own requests.
* A cancelled count keeps its boxes for the next one, rows that the filter hides are submitted too; a
  delivery booked again after a lost answer is on the shelf twice; the page's first return, on an
  empty list, hides the "Book in a delivery" it is meant to offer; and what closes on a
  delivery's answer is the form that is open by then.

## Not modelled

* Analytics, exports, audit, telemetry: read-only SQL over what other modules write, or log rows in
  the caller's transaction.
* Menu import, images, mail, WhatsApp, HTTP clients, migrations, seeds: text,
  files and I/O. Paystack is in `Settlement` as the environment.
* The menu editor (but for the stock level its PATCH writes), the venue's settings, a night's note
  and entitlements: single rows one owner edits and nobody else writes.
* The owner's live board (`owner/tonight`) and order list: they show what the
  attendant's floor shows (`FloorOrders`, `LiveUpdates`) and write nothing.
* In modelled parts: wording, layout, sounds, search and filters, money's digits, the redirect of the online
  payment (its charge is in `Settlement`), rate limits but the guests', promos for some items only and
  the PATCH of a promo, which no page sends, and the totals of the timesheet.

## Plan

1. `ChargesComeThrough` with two workers, on an instance that TLC can finish with fairness.
2. In `OrderIntake`: tabs that close between a call and its answer.
3. `OwnerStaff` with `SignIn`: the PIN pad that takes the first account a PIN fits, with two owners.
4. Liveness of the screens: a page that is behind gets a list in the end, given
   the `visibilitychange` reloads; it needs `LiveUpdates` beside one screen.

A run is about what one can wait for. A new part goes into `MCScreens` as long as
that run stays under three minutes.
