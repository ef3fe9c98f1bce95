-------------------------------- MODULE Till --------------------------------
(***************************************************************************)
(* The cashier's terminal: the queue it has listed, the order whose form   *)
(* is open, the tick that says that the cash is there, and the timer that  *)
(* clears the form 2.4 seconds after a payment, whatever it shows by then. *)
(***************************************************************************)
EXTENDS Naturals, FiniteSets

CONSTANTS
  NightOrders, \* the orders of the night
  MaxLines,    \* lines on one order
  MaxTimers    \* payments whose timer is still running

NoOrder == "none"
NoCall  == [order |-> NoOrder, amount |-> 0, method |-> "cash", taken |-> FALSE]
Methods == {"cash", "transfer"}

VARIABLES
  till,   \* the page: its React state
  posted, \* the payment it waits for an answer to, taken by the venue or not yet
  owing,  \* the venue: per order its lines, the voided ones, its status
  charge, \* service charge and VAT on an order with lines
  onTick, \* cash payments taken on the tick as it is now
  slips   \* on that tick: panels of a recorded payment that were left for the next
          \* form before their timer, and cash payments whose answer was lost

cashDesk == <<till, posted, owing, charge, onTick, slips>>
venue    == <<owing, charge>>

-----------------------------------------------------------------------------
\* The venue.

Live(o)    == owing[o].lines - owing[o].voided
DueOf(o)   == IF Live(o) = 0 THEN 0 ELSE Live(o) + charge
IsUnpaid(o) == owing[o].status # "paid" /\ owing[o].lines > 0
NeedsPayment(o) == owing[o].status = "fully_served"

OrderChanges ==
  /\ \E o \in NightOrders :
       /\ owing[o].status # "paid"
       /\ \/ /\ owing[o].lines < MaxLines /\ owing[o].status = "open"
             /\ owing' = [owing EXCEPT ![o].lines = @ + 1]
          \/ /\ Live(o) > 0
             /\ owing' = [owing EXCEPT ![o].voided = @ + 1]
          \/ /\ Live(o) > 0 /\ owing[o].status = "open"
             /\ owing' = [owing EXCEPT ![o].status = "fully_served"]
  /\ UNCHANGED <<till, posted, charge, onTick, slips>>

\* record_payment: an order that is not paid, and an amount that covers it.
Accepts(p) == owing[p.order].status # "paid" /\ p.amount >= DueOf(p.order)

-----------------------------------------------------------------------------
\* The screen.

\* The queue as the page lists it: what is ready to pay first, then the rest.
\* The sum of a row is that of its lines, voided ones and no charges.
Row(o)      == [total |-> owing[o].lines, ready |-> NeedsPayment(o)]
QueueNow    == [o \in {t \in NightOrders : IsUnpaid(t)} |-> Row(o)]
ReadyToPay  == {o \in DOMAIN till.queue : till.queue[o].ready}
StillServing == DOMAIN till.queue \ ReadyToPay
OpenTables  == ReadyToPay \union StillServing

RecordedPanel == till.done
Form          == ~till.done /\ till.selected # NoOrder
MethodButtons == IF Form THEN Methods ELSE {}
ReferenceBox  == Form /\ till.method # "cash"
CashTick      == Form /\ till.method = "cash"
ConfirmButton == Form /\ posted = NoCall /\ (till.method = "cash" => till.ticked)

Cleared(t) == [t EXCEPT !.selected = NoOrder, !.ticked = FALSE, !.reference = FALSE]

LoadOrders ==
  /\ till' = [till EXCEPT !.queue = QueueNow]
  /\ UNCHANGED <<posted, venue, onTick, slips>>

\* The row's order as it was listed; the tick and the reference stay.
SelectOrder(o) ==
  /\ o \in OpenTables
  /\ till' = [till EXCEPT !.selected = o, !.total = till.queue[o].total, !.done = FALSE]
  /\ slips' = IF RecordedPanel THEN slips + 1 ELSE slips
  /\ UNCHANGED <<posted, venue, onTick>>

ChooseMethod(m) ==
  /\ m \in MethodButtons \ {till.method}
  /\ till' = [till EXCEPT !.method = m]
  /\ UNCHANGED <<posted, venue, onTick, slips>>

TickCash ==
  /\ CashTick
  /\ till' = [till EXCEPT !.ticked = ~@]
  /\ onTick' = 0 /\ slips' = 0
  /\ UNCHANGED <<posted, venue>>

TypeReference ==
  /\ ReferenceBox
  /\ till' = [till EXCEPT !.reference = ~@]
  /\ UNCHANGED <<posted, venue, onTick, slips>>

\* processPayment: the tick for cash, a reference for a transfer, and the sum
\* of the form.
ProcessPayment ==
  /\ ConfirmButton
  /\ till.method = "transfer" => till.reference
  /\ posted' = [order |-> till.selected, amount |-> till.total,
                 method |-> till.method, taken |-> FALSE]
  /\ UNCHANGED <<till, venue, onTick, slips>>

\* The venue records it; the page does not know yet.
PaymentTaken ==
  /\ posted # NoCall /\ ~posted.taken /\ Accepts(posted)
  /\ owing' = [owing EXCEPT ![posted.order].status = "paid"]
  /\ onTick' = IF posted.method = "cash" THEN onTick + 1 ELSE onTick
  /\ posted' = [posted EXCEPT !.taken = TRUE]
  /\ UNCHANGED <<till, charge, slips>>

\* The answer is about the order that was posted, whatever is selected now.
PaymentRecorded ==
  /\ posted.taken /\ till.timers < MaxTimers
  /\ till' = [till EXCEPT !.done = TRUE, !.timers = @ + 1]
  /\ posted' = NoCall
  /\ UNCHANGED <<venue, onTick, slips>>

\* A refusal, a call that got nowhere, or a payment that was taken and whose
\* answer is lost: the page keeps the form and its tick in each.  One that is
\* taken after the page gave up is one taken just before.
PaymentFails ==
  /\ posted # NoCall
  /\ posted' = NoCall
  /\ slips' = IF posted.taken /\ posted.method = "cash" THEN slips + 1 ELSE slips
  /\ UNCHANGED <<till, venue, onTick>>

\* Mutant: the form is closed and the tick stays.
OnlyCloses(t) == [t EXCEPT !.selected = NoOrder]

\* What the timer clears.
Wiped(t) == Cleared(t)

TimerFires ==
  /\ till.timers > 0
  /\ till' = [Wiped(till) EXCEPT !.timers = @ - 1, !.done = FALSE, !.queue = QueueNow]
  /\ onTick' = IF till'.ticked THEN onTick ELSE 0
  /\ slips' = IF till'.ticked THEN slips ELSE 0
  /\ UNCHANGED <<posted, venue>>

Cancel ==
  /\ Form
  /\ till' = Cleared(till)
  /\ onTick' = 0 /\ slips' = 0
  /\ UNCHANGED <<posted, venue>>

TillInit ==
  /\ till = [queue |-> <<>>, selected |-> NoOrder, total |-> 0, method |-> "cash",
             ticked |-> FALSE, reference |-> FALSE, done |-> FALSE, timers |-> 0]
  /\ posted = NoCall
  /\ owing = [o \in NightOrders |-> [lines |-> 0, voided |-> 0, status |-> "open"]]
  /\ charge \in {0, 1}
  /\ onTick = 0 /\ slips = 0

TillNext ==
  \/ OrderChanges \/ LoadOrders \/ TickCash \/ TypeReference \/ ProcessPayment
  \/ PaymentTaken \/ PaymentRecorded \/ PaymentFails \/ TimerFires \/ Cancel
  \/ \E o \in NightOrders : SelectOrder(o)
  \/ \E m \in Methods : ChooseMethod(m)

TillSpec == TillInit /\ [][TillNext]_cashDesk

-----------------------------------------------------------------------------
\* "cashier must physically tick this" (schemas/payment.py:35): a tick covers
\* one cash payment, and one more for every time a recorded payment's panel was
\* left for the next form before its timer had cleared the tick, or the answer
\* of one that was taken was lost and the page kept the tick.
TickCoversOnePayment == onTick <= 1 + slips

\* "Amount must cover the grand total incl. service charge and VAT"
\* (payment_service.py:32-33), "this must never drift from what the cashier's
\* queue considers settled" (tableLive.ts:12-13): over a queue that is up to
\* date, the form asks for, and posts, what the order owes.
FormAsksWhatIsOwed ==
  Form /\ IsUnpaid(till.selected) /\ till.queue = QueueNow
       /\ till.total = owing[till.selected].lines
    => till.total = DueOf(till.selected)

\* Why: while the last cash payment's panel stands, or its answer is under way,
\* nothing can be posted; whatever else ends that is one of the slips.
TillTypeOK ==
  /\ DOMAIN till = {"queue", "selected", "total", "method", "ticked", "reference",
                    "done", "timers"}
  /\ DOMAIN posted = {"order", "amount", "method", "taken"}
  /\ till.timers \in Nat /\ onTick \in Nat /\ slips \in Nat
  /\ till.done \in BOOLEAN /\ posted.taken \in BOOLEAN
OneUnderWay ==
  /\ till.done => posted = NoCall
  /\ till.done \/ posted.taken => onTick <= slips + 1
  /\ ~till.done /\ ~(posted.taken /\ posted.method = "cash") => onTick <= slips
TillInv == TillTypeOK /\ OneUnderWay
=============================================================================
