------------------------------ MODULE StockRoom ------------------------------
(***************************************************************************)
(* The owner's stock page over one article: the nightly count in crates    *)
(* and loose bottles, the buttons that add or take off a crate, and the    *)
(* delivery that is keyed in from a waybill.  Beside the level the venue   *)
(* has stored the module keeps what stands on the shelf; the two part when *)
(* crates arrive or break, and the owner keys in what has.  None of the    *)
(* requests carries a key, so one that is sent again counts again.  How    *)
(* handlers that meet on a level harm it is StockLedger's.                 *)
(***************************************************************************)
EXTENDS Integers, FiniteSets, FiniteSetsExt

CONSTANTS
  Pack,     \* bottles in a crate
  Openings, \* bottles on the shelf at first
  MaxShelf, \* ... and at most
  MaxPosts, \* requests altogether
  MaxMoves  \* crates that arrive or break, bottles sold

Blank  == -1
NoBox  == [packs |-> Blank, loose |-> Blank]
NoForm == [open |-> FALSE, packs |-> 0, busy |-> FALSE]

VARIABLES
  store,    \* the page: the count and its boxes, the delivery's form
  bookings, \* requests on their way, and those whose answer is
  posts,    \* how many there have been
  stock,    \* menu_items.stock_quantity
  shelf,    \* the bottles there are
  truck,    \* crates that have arrived and that the owner has not keyed in
  broken,   \* crates that have broken and that the owner has not keyed in
  moves,    \* how often something has moved
  because   \* why the stored level may be off by now

storeroom == <<store, bookings, posts, stock, shelf, truck, broken, moves, because>>

-----------------------------------------------------------------------------
\* The page.

\* A form over the whole page takes its taps.
Buttons  == ~store.form.open /\ ~store.counting
Boxes    == ~store.form.open /\ store.counting
SaveBar  == Boxes /\ ~store.saving
Filled   == store.form.open /\ store.form.packs > 0
Venue    == UNCHANGED <<stock, shelf, truck, broken, moves>>

\* Boxes that are blank count as none; with both blank the row is skipped.
Payload(b) == (IF b.packs = Blank THEN 0 ELSE b.packs) * Pack
              + (IF b.loose = Blank THEN 0 ELSE b.loose)

\* "Cancel count" leaves the boxes as they are, for the next count to find.
ToggleCount ==
  /\ ~store.form.open
  /\ store' = [store EXCEPT !.counting = ~@]
  /\ Venue /\ UNCHANGED <<bookings, posts, because>>

\* The owner counts what is there, crates and loose bottles; a box that would
\* say zero may stay blank, but not both.
TypeCount(b) ==
  /\ Boxes /\ b # store.box
  /\ b.packs \in {shelf \div Pack} \union (IF shelf < Pack THEN {Blank} ELSE {})
  /\ b.loose \in {shelf % Pack} \union (IF shelf % Pack = 0 THEN {Blank} ELSE {})
  /\ b # NoBox
  /\ store' = [store EXCEPT !.box = b, !.stale = FALSE]
  /\ Venue /\ UNCHANGED <<bookings, posts, because>>

OpenForm ==
  /\ ~store.form.open
  /\ store' = [store EXCEPT !.form = [NoForm EXCEPT !.open = TRUE]]
  /\ Venue /\ UNCHANGED <<bookings, posts, because>>

\* What the waybill says.
TypeDelivery ==
  /\ store.form.open /\ truck # store.form.packs
  /\ store' = [store EXCEPT !.form.packs = truck]
  /\ Venue /\ UNCHANGED <<bookings, posts, because>>

\* What is on its way from a form that closes finds another form or none.
Orphaned(bs) == {[b EXCEPT !.here = FALSE] : b \in bs}

CloseForm ==
  /\ store.form.open
  /\ store' = [store EXCEPT !.form = NoForm]
  /\ bookings' = Orphaned(bookings)
  /\ Venue /\ UNCHANGED <<posts, because>>

-----------------------------------------------------------------------------
\* Requests.

Post(kind, n, stale) ==
  /\ posts < MaxPosts
  /\ posts' = posts + 1
  /\ bookings' = bookings \union
       {[kind |-> kind, id |-> posts, units |-> n, stale |-> stale,
         here |-> kind = "receive", at |-> "sent"]}

\* A count that is under way beside anything else.
Crosses(kind) ==
  IF bookings # {} /\ (kind = "count" \/ \E b \in bookings : b.kind = "count")
  THEN because \union {"crossed"} ELSE because

SubmitCount ==
  /\ SaveBar /\ store.box # NoBox
  /\ store' = [store EXCEPT !.saving = TRUE]
  /\ Post("count", Payload(store.box), store.stale)
  /\ because' = Crosses("count")
  /\ Venue

\* One crate off, for one that has broken.
TakeOff ==
  /\ Buttons /\ broken > 0
  /\ Post("adjust", -Pack, FALSE)
  /\ broken' = broken - 1
  /\ because' = Crosses("adjust")
  /\ UNCHANGED <<store, stock, shelf, truck, moves>>

\* One crate on, without the form.
PutOn ==
  /\ Buttons /\ truck > 0
  /\ Post("adjust", Pack, FALSE)
  /\ truck' = truck - 1
  /\ because' = Crosses("adjust")
  /\ UNCHANGED <<store, stock, shelf, broken, moves>>

\* Mutant: the button is not switched off by its own request.
NeverBusy(f) == TRUE
Idle(f)      == ~f.busy

BookIn ==
  /\ Filled /\ Idle(store.form)
  /\ Post("receive", store.form.packs * Pack, FALSE)
  /\ store' = [store EXCEPT !.form.busy = TRUE]
  /\ truck' = IF truck > store.form.packs THEN truck - store.form.packs ELSE 0
  /\ because' = Crosses("receive")
  /\ UNCHANGED <<stock, shelf, broken, moves>>

-----------------------------------------------------------------------------
\* The venue.

Becomes(b, c) == bookings' = (bookings \ {b}) \union {c} /\ UNCHANGED posts

\* What submit_count sets the level to, or what the others add to it.
Level(b)   == IF b.kind = "count" THEN b.units ELSE stock + b.units
\* record_movement stores no level below zero.
Floored(n) == IF n < 0 THEN 0 ELSE n

\* adjust_stock, receive_delivery and submit_count, each of one commit.  What
\* had arrived or broken by the count is in it.
Booked(b) ==
  LET n == Level(b)
  IN  /\ b.at = "sent"
      /\ Becomes(b, [b EXCEPT !.at = "ok"])
      /\ stock' = Floored(n)
      /\ because' = because \union (IF n < 0 THEN {"floored"} ELSE {})
                            \union (IF b.stale THEN {"stale"} ELSE {})
                            \union (IF b.kind = "count" /\ Filled THEN {"crossed"} ELSE {})
      /\ truck' = IF b.kind = "count" THEN 0 ELSE truck
      /\ broken' = IF b.kind = "count" THEN 0 ELSE broken
      /\ UNCHANGED <<store, shelf, moves>>

\* The request is lost, or the answer to one that was carried out is.
BookingFails(b) ==
  /\ b.at \in {"sent", "ok"}
  /\ Becomes(b, [b EXCEPT !.at = "failed"])
  /\ because' = IF b.at = "ok" THEN because \union {"lost"} ELSE because
  /\ UNCHANGED <<store, stock, shelf, truck, broken, moves>>

Answered(b, at) == b.at = at /\ bookings' = bookings \ {b}

\* The boxes are emptied, also of what has been typed since.
CountSaved(b) ==
  /\ b.kind = "count" /\ Answered(b, "ok")
  /\ store' = [store EXCEPT !.saving = FALSE, !.counting = FALSE, !.box = NoBox,
                            !.stale = FALSE]
  /\ Venue /\ UNCHANGED <<posts, because>>

\* onClose closes the form that is open by now.
DeliveryBooked(b) ==
  /\ b.kind = "receive" /\ b.at = "ok"
  /\ bookings' = Orphaned(bookings \ {b})
  /\ store' = [store EXCEPT !.form = NoForm]
  /\ UNCHANGED <<posts, stock, shelf, truck, broken, moves, because>>

Adjusted(b) ==
  /\ b.kind = "adjust" /\ Answered(b, "ok")
  /\ Venue /\ UNCHANGED <<store, posts, because>>

\* A toast: the owner believes that nothing has been booked.
NotBooked(b) ==
  /\ Answered(b, "failed")
  /\ store' = CASE b.kind = "count" -> [store EXCEPT !.saving = FALSE]
                [] b.here           -> [store EXCEPT !.form.busy = FALSE]
                [] OTHER            -> store
  /\ truck' = IF b.units > 0 /\ b.kind # "count" THEN truck + b.units \div Pack ELSE truck
  /\ broken' = IF b.units < 0 THEN broken + 1 ELSE broken
  /\ UNCHANGED <<posts, stock, shelf, moves, because>>

-----------------------------------------------------------------------------
\* The shelf.  A count that is in the boxes or on its way gets old.

Moves(n) ==
  /\ moves < MaxMoves /\ shelf + n \in 0 .. MaxShelf
  /\ moves' = moves + 1
  /\ shelf' = shelf + n
  /\ store' = [store EXCEPT !.stale = store.box # NoBox]
  /\ bookings' = {[b EXCEPT !.stale = b.kind = "count" /\ b.at = "sent"] : b \in bookings}

CrateArrives == /\ Moves(Pack)
                /\ truck' = truck + 1
                /\ UNCHANGED <<posts, stock, broken, because>>

CrateBreaks  == /\ Moves(-Pack)
                /\ broken' = broken + 1
                /\ UNCHANGED <<posts, stock, truck, because>>

\* deplete_for_sale takes off what is there, and no more.
Sold == /\ Moves(-1)
        /\ stock' = Floored(stock - 1)
        /\ because' = IF stock > 0 THEN because ELSE because \union {"floored"}
        /\ UNCHANGED <<posts, truck, broken>>

StoreInit ==
  /\ stock \in Openings /\ shelf = stock
  /\ store = [counting |-> FALSE, box |-> NoBox, stale |-> FALSE, saving |-> FALSE,
              form |-> NoForm]
  /\ bookings = {} /\ posts = 0 /\ truck = 0 /\ broken = 0 /\ moves = 0 /\ because = {}

StoreNext ==
  \/ ToggleCount \/ OpenForm \/ TypeDelivery \/ CloseForm
  \/ \E p, l \in Blank .. MaxShelf : TypeCount([packs |-> p, loose |-> l])
  \/ SubmitCount \/ TakeOff \/ PutOn \/ BookIn
  \/ \E b \in bookings : \/ Booked(b) \/ BookingFails(b) \/ CountSaved(b)
                         \/ DeliveryBooked(b) \/ Adjusted(b) \/ NotBooked(b)
  \/ CrateArrives \/ CrateBreaks \/ Sold

StoreSpec == StoreInit /\ [][StoreNext]_storeroom

-----------------------------------------------------------------------------
\* With nothing on its way and nothing left to key in, the stored level is what
\* stands on the shelf, however counts, crates and deliveries are mixed; unless
\* an answer was lost (and the owner booked it again), a count was saved after
\* something had moved, or beside another request or a delivery already typed, or
\* more was taken off than was stored.
LevelIsShelf ==
  bookings = {} /\ truck = 0 /\ broken = 0 /\ because = {} => stock = shelf

\* Why: what the level lacks of the shelf is with the owner, as crates to key in or
\* back, or in a request that has not been carried out ...
Awaited(b) == IF b.kind = "count" \/ b.at = "ok" THEN 0 ELSE b.units
OnTheWay   == MapThenSumSet(Awaited, bookings)
Balanced   == shelf = stock + Pack * truck - Pack * broken + OnTheWay

\* ... while a count is alone, and says what stands there, ...
CountsAlone ==
  /\ store.box # NoBox /\ ~store.stale => Payload(store.box) = shelf
  /\ \A b \in bookings : b.kind = "count" =>
       /\ bookings = {b}
       /\ b.at = "sent" /\ ~b.stale => b.units = shelf

\* ... and a form takes no more off the truck than is on it.
FormsCovered ==
  /\ store.form.open /\ ~store.form.busy => store.form.packs <= truck
  /\ \A b \in bookings : b.here /\ b.at # "ok" =>
       Pack * store.form.packs <= Pack * truck + b.units

\* Requests are numbered; a form has one under way.
Booking == [kind : {"count", "adjust", "receive"}, id : Nat, units : Int, stale : BOOLEAN,
            here : BOOLEAN, at : {"sent", "ok", "failed"}]
Box     == [packs : Nat \union {Blank}, loose : Nat \union {Blank}]
Page    == [counting : BOOLEAN, box : Box, stale : BOOLEAN, saving : BOOLEAN,
            form : [open : BOOLEAN, packs : Nat, busy : BOOLEAN]]
Listed(bs) ==
  /\ bs \subseteq Booking /\ IsFiniteSet(bs)
  /\ \A b, c \in bs : b.id = c.id => b = c
OfItsKind(b) ==
  /\ b.kind = "count" => b.units >= 0
  /\ b.kind = "adjust" => b.units \in {Pack, -Pack}
  /\ b.kind = "receive" => \E n \in Nat \ {0} : b.units = n * Pack
StoreTyped ==
  /\ store \in Page
  /\ stock \in Nat /\ shelf \in Nat /\ truck \in Nat /\ broken \in Nat /\ posts \in Nat
  /\ Listed(bookings)
  /\ \A b \in bookings :
       /\ b.id < posts /\ OfItsKind(b)
       /\ b.here => b.kind = "receive" /\ store.form.open /\ store.form.busy
       /\ \A c \in bookings : b.here /\ c.here => b = c

StoreInv == StoreTyped /\ (because = {} => Balanced /\ CountsAlone /\ FormsCovered)
=============================================================================
