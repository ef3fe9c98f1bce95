----------------------------- MODULE GuestVisit -----------------------------
(***************************************************************************)
(* A guest's visit as the phone sees it: the table page with its cart and  *)
(* its session, the bill page, and what the venue does with the rounds.    *)
(*                                                                         *)
(* A session token ties the phone's rounds to one bill.  The browser keeps *)
(* it per table, and the page gives it up on its own authority in two      *)
(* cases: the business night is over, or the menu's answer says that the   *)
(* visit is settled.  A round that is still on its way then lands on the   *)
(* bill the phone has just left.                                           *)
(*                                                                         *)
(* The panels of the pages appear as sets of what they offer; a handler is *)
(* an action whose guard is that the panel on screen offers it.            *)
(***************************************************************************)
EXTENDS Naturals, FiniteSets, FiniteSetsExt

CONSTANTS
  Dishes,      \* what is on the menu
  Cooked,      \* the dishes the kitchen makes; the bar makes the others
  MaxCart,     \* what goes into one round
  MaxRounds, MaxSessions, MaxNights

Rounds   == 1 .. MaxRounds
Sessions == 1 .. MaxSessions
Carts    == [Dishes -> 0 .. MaxCart]

VARIABLES
  phone,   \* the table page, the cart's store and the browser's storage
  wire,    \* rounds whose POST is on its way
  stored,  \* rounds in the phone's outbox
  made,    \* per round: its session and its cart when it was made
  table,   \* the venue: the order of each round, the lines, the orders' status
  night    \* the business night by the phone's clock

guest == <<phone, wire, stored, made, table, night>>

NoLine   == [orders |-> 0, items |-> 0]
Nothing  == [d \in Dishes |-> 0]
Count(c) == MapThenSumSet(LAMBDA d : c[d], Dishes)

-----------------------------------------------------------------------------
\* The venue.  A round's lines move together; an order is known by the round
\* that opened it.

OrdersOf(s)  == {o \in Rounds : table.status[o] # "none" /\ made[o].session = s}
RoundsOn(o)  == {r \in Rounds : table.on[r] = o}
Live(o)      == {r \in RoundsOn(o) : table.line[r] # "void"}
Owing(o)     == table.status[o] # "paid" /\ Live(o) # {}

\* Mutant: one paid order is taken for a settled visit.
AnyPaid(s) == \E o \in OrdersOf(s) : table.status[o] = "paid"

\* What the menu's answer says about the visit.
Settled(s) == OrdersOf(s) # {} /\ \A o \in OrdersOf(s) : table.status[o] = "paid"
ItemsOf(rounds) == MapThenSumSet(LAMBDA r : Count(made[r].cart), rounds)
VisitLine(s) ==
  [orders |-> Cardinality(OrdersOf(s)),
   items  |-> ItemsOf(UNION {Live(o) : o \in OrdersOf(s)})]

\* What the guest had in this visit, to be offered again.
OrderedIn(s) == {d \in Dishes : \E o \in OrdersOf(s) :
                                  \E r \in RoundsOn(o) : made[r].cart[d] > 0}

\* place_order: an open order of the session takes the round, if there is one.
Lands(r) ==
  LET joinable == {o \in OrdersOf(made[r].session) : table.status[o] \in {"open", "partly"}}
      order    == IF joinable = {} THEN r ELSE CHOOSE o \in joinable : TRUE
  IN  table' = [table EXCEPT
        !.on[r] = order, !.line[r] = "pending",
        !.status[order] = IF joinable = {} THEN "open" ELSE @]

\* update_item_status, for all lines of a round.
Serve(r, to) ==
  LET o    == table.on[r]
      line == [table.line EXCEPT ![r] = to]
      live == {q \in RoundsOn(o) : line[q] # "void"}
      done == {q \in live : line[q] = "delivered"}
  IN  /\ table.line[r] = "pending"
      /\ to = "void" => table.status[o] # "paid"
      /\ table' = [table EXCEPT
           !.line = line,
           !.status[o] = IF @ = "paid" \/ done = {} THEN @
                         ELSE IF done = live THEN "served" ELSE "partly"]
      /\ UNCHANGED <<phone, wire, stored, made, night>>

\* The till or the webhook settles an order; the pass is issued with it.
Settle(o) ==
  /\ table.status[o] \notin {"none", "paid"} /\ Live(o) # {}
  /\ table' = [table EXCEPT !.status[o] = "paid"]
  /\ UNCHANGED <<phone, wire, stored, made, night>>

-----------------------------------------------------------------------------
\* Sessions.

\* A new token, kept with the night it was made on.
MintSession(p) ==
  [p EXCEPT !.session = p.minted + 1, !.saved = p.minted + 1,
            !.savedNight = night, !.minted = @ + 1]

\* The saved token if it is tonight's, a new one otherwise.
OpenSession(p) ==
  IF p.saved # 0 /\ p.savedNight = night THEN [p EXCEPT !.session = p.saved]
  ELSE MintSession(p)

CanMint == phone.minted < MaxSessions
CanOpen == OpenSession(phone).session <= MaxSessions

\* The component's own state when it mounts; the cart's store outlives it.
FreshPage == [menu |-> "none", visit |-> NoLine, again |-> {},
              cartOpen |-> FALSE, orderSent |-> FALSE, sentTo |-> "none", placing |-> 0]

\* The guest scans the sticker: a page load, which starts with an empty cart
\* and leaves nobody to hear of a POST under way ...
ScanTable ==
  /\ CanOpen
  /\ phone' = [OpenSession(phone) EXCEPT !.page = "table", !.cart = Nothing,
                                         !.waiting = {}, !.ui = FreshPage]
  /\ UNCHANGED <<wire, stored, made, table, night>>

\* ... or comes back from the bill inside the app.
BackToMenu ==
  /\ phone.page = "bill" /\ CanOpen
  /\ phone' = [OpenSession(phone) EXCEPT !.page = "table", !.ui = FreshPage]
  /\ UNCHANGED <<wire, stored, made, table, night>>

\* The visit is over at this table: the page starts another at once, and asks
\* for the menu again.
MenuSaysSettled ==
  /\ phone.page = "table" /\ phone.ui.menu = "none" /\ CanMint
  /\ Settled(phone.session)
  /\ phone' = [MintSession(phone) EXCEPT !.late = @ \union stored \union wire]
  /\ UNCHANGED <<wire, stored, made, table, night>>

MenuArrives ==
  /\ phone.page = "table" /\ phone.ui.menu = "none"
  /\ ~Settled(phone.session)
  /\ phone' = [phone EXCEPT !.ui.menu = "shown", !.ui.visit = VisitLine(phone.session),
                            !.ui.again = OrderedIn(phone.session)]
  /\ UNCHANGED <<wire, stored, made, table, night>>

\* A 404: the sticker belongs to no table any more.  Nothing is offered.
DeadCode ==
  /\ phone.page = "table" /\ phone.ui.menu = "none"
  /\ phone' = [phone EXCEPT !.ui.menu = "dead"]
  /\ UNCHANGED <<wire, stored, made, table, night>>

DeadCodeScreen == phone.ui.menu = "dead"
Loaded == phone.page = "table" /\ phone.ui.menu = "shown" /\ ~DeadCodeScreen

-----------------------------------------------------------------------------
\* The table page's panels.

\* The sheet of the cart covers the rest of the page.
Uncovered     == Loaded /\ ~phone.ui.cartOpen
Menu          == IF Uncovered THEN Dishes ELSE {}
InCart        == {d \in Dishes : phone.cart[d] > 0}
CartTotal     == Count(phone.cart)
VisitButton   == Uncovered /\ phone.ui.visit.orders > 0
OrderAgain    == IF Uncovered THEN phone.ui.again ELSE {}
ReviewButton  == Uncovered /\ CartTotal > 0

\* The cart's sheet ends in one of two panels, and orderSent alone says which.
SentPanel     == Loaded /\ phone.ui.cartOpen /\ phone.ui.orderSent
CheckoutPanel == Loaded /\ phone.ui.cartOpen /\ ~phone.ui.orderSent

PageStep == UNCHANGED <<wire, stored, made, table, night>>

AddToCart(d) ==
  /\ Loaded /\ d \in Menu \union OrderAgain \union InCart
  /\ CartTotal < MaxCart
  /\ phone' = [phone EXCEPT !.cart[d] = @ + 1]
  /\ PageStep

UpdateQuantity(d) ==
  /\ d \in InCart /\ Loaded
  /\ phone' = [phone EXCEPT !.cart[d] = @ - 1]
  /\ PageStep

ReviewOrder ==
  /\ ReviewButton
  /\ phone' = [phone EXCEPT !.ui.cartOpen = TRUE]
  /\ PageStep

\* The backdrop and the cross close the sheet and leave orderSent alone ...
CloseCart ==
  /\ phone.ui.cartOpen
  /\ phone' = [phone EXCEPT !.ui.cartOpen = FALSE]
  /\ PageStep

\* ... only this button clears it.
AddMoreItems ==
  /\ SentPanel
  /\ phone' = [phone EXCEPT !.ui.orderSent = FALSE, !.ui.cartOpen = FALSE]
  /\ PageStep

-----------------------------------------------------------------------------
\* Placing a round.

NextRound == 1 + Cardinality({r \in Rounds : made[r].session # 0})

\* The key, the session and the lines are those of the tap.
PlaceOrder ==
  /\ CheckoutPanel /\ phone.ui.placing = 0 /\ CartTotal > 0 /\ NextRound \in Rounds
  /\ phone' = [phone EXCEPT !.ui.placing = NextRound, !.waiting = @ \union {NextRound}]
  /\ wire' = wire \union {NextRound}
  /\ made' = [made EXCEPT ![NextRound] = [session |-> phone.session, cart |-> phone.cart,
                                          opened |-> phone.savedNight]]
  /\ UNCHANGED <<stored, table, night>>

\* Where the confirmation says the round went.
SentTo(c) ==
  LET ordered == {d \in Dishes : c[d] > 0}
  IN  IF ordered \subseteq Cooked THEN "kitchen"
      ELSE IF ordered \intersect Cooked = {} THEN "bar" ELSE "both"

\* Mutant: the items are added once more for the order.
FoldsTwice(r) == [orders |-> phone.ui.visit.orders + 1,
                  items  |-> phone.ui.visit.items + 2 * Count(made[r].cart)]

\* The round joins the figures of the visit without asking the server.
Fold(r) == [orders |-> phone.ui.visit.orders + 1,
            items  |-> phone.ui.visit.items + Count(made[r].cart)]

\* The rest of placeOrder once the round is accepted or kept in the outbox.
\* The cart's store is emptied, of what was added meanwhile too; the page has
\* state to set only if it is still the one that placed the round.
Confirm(r) ==
  phone' = [phone EXCEPT
    !.cart = Nothing, !.waiting = @ \ {r},
    !.ui = IF @.placing # r THEN @
           ELSE [@ EXCEPT !.visit = Fold(r), !.orderSent = TRUE, !.placing = 0,
                          !.sentTo = SentTo(made[r].cart)]]

PlaceAccepted(r) ==
  /\ r \in wire
  /\ wire' = wire \ {r}
  /\ Lands(r)
  /\ IF r \in phone.waiting THEN Confirm(r) ELSE UNCHANGED phone
  /\ UNCHANGED <<stored, made, night>>

\* The network fails: the outbox keeps the round, if there is anybody to put
\* it there.
PlaceFails(r) ==
  /\ r \in wire
  /\ wire' = wire \ {r}
  /\ IF r \in phone.waiting THEN stored' = stored \union {r} /\ Confirm(r)
     ELSE UNCHANGED <<stored, phone>>
  /\ UNCHANGED <<made, table, night>>

\* A 4xx: the cart stays, and so does the sheet.
PlaceRefused(r) ==
  /\ r \in wire
  /\ wire' = wire \ {r}
  /\ phone' = [phone EXCEPT !.waiting = @ \ {r},
                            !.ui.placing = IF @ = r THEN 0 ELSE @]
  /\ UNCHANGED <<stored, made, table, night>>

\* The outbox gets through, whichever page is open.
Replay(r) ==
  /\ r \in stored
  /\ stored' = stored \ {r}
  /\ Lands(r)
  /\ UNCHANGED <<phone, wire, made, night>>

\* From the visit's line or from the confirmation.
ViewBill ==
  /\ VisitButton \/ SentPanel
  /\ phone' = [phone EXCEPT !.page = "bill", !.ui = FreshPage]
  /\ UNCHANGED <<wire, stored, made, table, night>>

\* The checkout's redirect and callback load pages: the cart is gone, and
\* whoever waited for an answer.
PayOnline ==
  /\ phone.page = "bill"
  /\ phone' = [phone EXCEPT !.cart = Nothing, !.waiting = {}]
  /\ UNCHANGED <<wire, stored, made, table, night>>

-----------------------------------------------------------------------------
\* Both pages closed; a POST under way goes on in no page.
LeaveTable ==
  /\ phone.page \in {"table", "bill"}
  /\ phone' = [phone EXCEPT !.page = "away", !.cart = Nothing, !.waiting = {}, !.ui = FreshPage]
  /\ UNCHANGED <<wire, stored, made, table, night>>

\* Six in the morning.
NightPasses ==
  /\ night < MaxNights
  /\ night' = night + 1
  /\ UNCHANGED <<phone, wire, stored, made, table>>

GuestInit ==
  /\ phone = [page |-> "away", session |-> 0, saved |-> 0, savedNight |-> 0,
              minted |-> 0, cart |-> Nothing, waiting |-> {}, late |-> {}, ui |-> FreshPage]
  /\ wire = {} /\ stored = {} /\ night = 0
  /\ made = [r \in Rounds |-> [session |-> 0, cart |-> Nothing, opened |-> 0]]
  /\ table = [on     |-> [r \in Rounds |-> 0],
              line   |-> [r \in Rounds |-> "absent"],
              status |-> [r \in Rounds |-> "none"]]

GuestNext ==
  \/ ScanTable \/ BackToMenu \/ MenuSaysSettled \/ MenuArrives \/ DeadCode
  \/ \E d \in Dishes : AddToCart(d) \/ UpdateQuantity(d)
  \/ ReviewOrder \/ CloseCart \/ AddMoreItems \/ PlaceOrder
  \/ ViewBill \/ PayOnline \/ LeaveTable \/ NightPasses
  \/ \E r \in Rounds :
       \/ PlaceAccepted(r) \/ PlaceFails(r) \/ PlaceRefused(r)
       \/ Replay(r) \/ Settle(r) \/ \E to \in {"delivered", "void"} : Serve(r, to)

GuestSpec == GuestInit /\ [][GuestNext]_guest

-----------------------------------------------------------------------------
Stages == {"none", "open", "partly", "served", "paid"}
GuestTypeOK ==
  /\ phone.page \in {"away", "table", "bill"}
  /\ phone.session \in 0 .. MaxSessions /\ phone.cart \in Carts
  /\ phone.waiting \subseteq wire /\ phone.ui.placing \in phone.waiting \union {0}
  /\ stored \union wire \subseteq Rounds /\ stored \intersect wire = {}
  /\ table.on \in [Rounds -> 0 .. MaxRounds] /\ table.status \in [Rounds -> Stages]

\* The promise of guestSession.ts:19-21, with its limits: an unpaid round of
\* tonight that is on no bill the phone can open was still on its way when the
\* menu said that its visit was settled.
Owes(r) == table.on[r] # 0 /\ Owing(table.on[r]) /\ table.line[r] # "void"
StrandedNeedsOutbox ==
  \A r \in Rounds :
    Owes(r) /\ made[r].session # phone.session /\ made[r].opened = night => r \in phone.late

\* The visit's line is put together from the menu's answer and from what the
\* page adds to it by itself, and never claims more than the guest has sent.
Sent == {r \in Rounds : made[r].session = phone.session
                         /\ (r \in wire \union stored \/ table.on[r] # 0)}
VisitNeverOverstates == phone.ui.visit.items <= ItemsOf(Sent)

\* Why: a token is one night's, so that tonight's rounds are the phone's own or
\* those of a session that the menu called settled; what is on a paid order then
\* stays paid, and what is on none was refused, or lost, or was on its way.
SessionsKept ==
  /\ DOMAIN phone = {"page", "session", "saved", "savedNight", "minted", "cart", "waiting",
                     "late", "ui"}
  /\ phone.session \in Nat /\ phone.minted \in Nat /\ phone.savedNight \in Nat /\ night \in Nat
  /\ phone.saved = phone.session /\ phone.session <= phone.minted /\ phone.savedNight <= night
  /\ phone.page = "table" => phone.session # 0
RoundsMade ==
  /\ DOMAIN made = Rounds /\ \A r \in Rounds : made[r].session \in Nat /\ made[r].opened \in Nat
  /\ \E n \in 0 .. MaxRounds : \A r \in Rounds : made[r].session # 0 <=> r <= n
  /\ wire \union stored \subseteq {r \in Rounds : made[r].session # 0}
  /\ wire \intersect stored = {}
  /\ \A r \in Rounds : made[r].session # 0 =>
       /\ made[r].session <= phone.minted /\ made[r].opened <= night
       /\ made[r].session = phone.session => made[r].opened = phone.savedNight
OrdersKept ==
  /\ DOMAIN table = {"on", "line", "status"} /\ DOMAIN table.line = Rounds
  /\ table.on \in [Rounds -> 0 .. MaxRounds] /\ table.status \in [Rounds -> Stages]
  /\ \A r \in Rounds :
       /\ r \in wire \union stored => table.on[r] = 0
       /\ table.status[r] # "none" => table.on[r] = r
       /\ table.on[r] # 0 => /\ made[r].session # 0 /\ table.status[table.on[r]] # "none"
                            /\ made[table.on[r]].session = made[r].session
LeftBehind ==
  \A r \in Rounds :
    made[r].session \notin {0, phone.session} /\ made[r].opened = night =>
      \/ r \in phone.late
      \/ /\ r \notin wire \union stored
         /\ table.on[r] # 0 => table.status[table.on[r]] = "paid"
VisitInv == SessionsKept /\ RoundsMade /\ OrdersKept /\ LeftBehind

\* And what the visit's line says has left the phone: the page adds a round when its
\* POST is over, to the visit it was placed in.
Counted == {r \in Rounds : made[r].session = phone.session
                            /\ (r \in stored \/ table.on[r] # 0)}
FiguresInv ==
  /\ DOMAIN phone.ui = {"menu", "visit", "again", "cartOpen", "orderSent", "sentTo", "placing"}
  /\ phone.cart \in [Dishes -> Nat] /\ \A r \in Rounds : made[r].cart \in [Dishes -> Nat]
  /\ phone.ui.visit.items \in 0 .. ItemsOf(Counted)
  /\ phone.ui.menu = "none" => phone.ui.placing = 0 /\ phone.ui.visit.items = 0
  /\ phone.ui.placing # 0 => /\ phone.ui.placing \in Rounds
                             /\ made[phone.ui.placing].session = phone.session
=============================================================================
