----------------------------- MODULE GuestBill ------------------------------
(***************************************************************************)
(* The bill page: what it shows of the visit's orders, which it fetches as *)
(* often as something happens, so that answers may cross, and what it      *)
(* offers the guest to do about it.                                        *)
(***************************************************************************)
EXTENDS Naturals, FiniteSets

CONSTANTS
  Bills,      \* the orders of one visit, numbered as they were opened
  MaxAnswers, \* lists on their way at a time, beside one that is there at once
  MaxUndone   \* orders that lose again what had been settled

VARIABLES
  bill,    \* the page: its React state
  answers, \* lists of orders on their way to the page
  due,     \* the venue: per order, whether it is paid, and where its lines are
  undone,  \* orders that lost what had been settled: a line served or voided moved
           \* again, or a tap that had read the order unpaid wrote over the payment
  late     \* orders placed while this page was open

billing == <<bill, answers, due, undone, late>>
pageVars == <<bill, answers>>

Unplaced == [status |-> "none", lines |-> "none"]

-----------------------------------------------------------------------------
\* The venue.  An order's lines move together; "coming" is any step before they
\* are delivered, and what is not paid is open, served or not.

\* From the menu in another tab or on another phone, from the attendant's sheet,
\* or from this phone before the page is opened again.
RoundPlaced(o) ==
  /\ due[o] = Unplaced
  /\ due' = [due EXCEPT ![o] = [status |-> "open", lines |-> "coming"]]
  /\ late' = late \union {o}
  /\ UNCHANGED <<pageVars, undone>>

Final == {"delivered", "cancelled"}

\* A tap of a station or an attendant.  Any step is written over any other; only
\* an order that is paid cannot lose its lines.
LineMoves(o, to) ==
  /\ due[o] # Unplaced
  /\ to = "cancelled" => due[o].status # "paid"
  /\ due' = [due EXCEPT ![o].lines = to]
  /\ undone' = IF due[o].lines \in Final \ {to} THEN undone \union {o} ELSE undone
  /\ Cardinality(undone') <= MaxUndone
  /\ UNCHANGED <<pageVars, late>>

\* A tap that has read the order before it was paid, and commits afterwards: a
\* void goes through, and serving the last line makes the order unpaid again.
StaleTap(o, to) ==
  /\ due[o].status = "paid"
  /\ due' = [due EXCEPT ![o] =
               [status |-> IF to = "delivered" THEN "open" ELSE "paid", lines |-> to]]
  /\ undone' = undone \union {o} /\ Cardinality(undone') <= MaxUndone
  /\ UNCHANGED <<pageVars, late>>

\* There is something to pay.
Payable(o) == due[o].status = "open" /\ due[o].lines # "cancelled"

\* Till or webhook.
PaymentConfirmed(o) ==
  /\ Payable(o)
  /\ due' = [due EXCEPT ![o].status = "paid"]
  /\ UNCHANGED <<pageVars, undone, late>>

-----------------------------------------------------------------------------
\* The page's calls.

\* get_bill, and what a fetch of the newest order's pass can find: the guard or
\* the clock may have spent it.  The page keeps nothing of the pass but what it
\* draws.
BillNow == due
PassNow == IF \E o \in Bills : due[o].status = "paid" \/ o \in undone
           THEN {"valid", "spent"} ELSE {"none"}

\* load: on mount and on every event of the guest's channel.  Nothing says which
\* of two answers is the later one.
LoadOrders ==
  /\ Cardinality(answers) < MaxAnswers
  /\ answers' = answers \union {BillNow}
  /\ UNCHANGED <<bill, due, undone, late>>

OrdersArrive(a) ==
  /\ bill' = [bill EXCEPT !.orders = a]
  /\ answers' = answers \ {a}
  /\ UNCHANGED <<due, undone, late>>

\* A list that is there at once, past those that are still on their way.
LoadsAtOnce ==
  /\ bill' = [bill EXCEPT !.orders = BillNow]
  /\ UNCHANGED <<answers, due, undone, late>>

Keeps == UNCHANGED <<answers, due, undone, late>>

-----------------------------------------------------------------------------
\* What the page works out from the orders it has ...

Listed      == {o \in Bills : bill.orders[o].status # "none"}
\* Mutant: the first paid order settles the bill.
SomePaid    == \E o \in Listed : bill.orders[o].status = "paid"
AllPaid     == Listed # {} /\ \A o \in Listed : bill.orders[o].status = "paid"
StillComing == \E o \in Listed : bill.orders[o].lines = "coming"
Unpaid      == {o \in Listed : bill.orders[o].status # "paid"}

\* ... and what it shows and offers.
Heading ==
  IF ~AllPaid THEN "Your Bill"
  ELSE IF StillComing THEN "Paid - order on its way" ELSE "Your Night, Settled"
\* Where a line is on its way to the table; a voided one is not shown.
Tracker == IF StillComing
           THEN [o \in {l \in Listed : bill.orders[l].lines # "cancelled"} |->
                   bill.orders[o].lines]
           ELSE <<>>
Pill(o) ==
  IF bill.orders[o].status = "paid" /\ bill.orders[o].lines = "coming"
  THEN "Paid - still coming" ELSE bill.orders[o].status
OrderCards   == [o \in Listed |-> [pill |-> Pill(o), lines |-> bill.orders[o].lines]]
SummaryCard  == Listed # {}
SplitCard    == SummaryCard /\ ~AllPaid
\* In a venue that takes payments online (pay-options, asked for on mount).
PayCard      == IF SplitCard
                THEN {"cashier", "online"}
                ELSE {}
ReceiptButton == Listed # {}
PassCards    == {CASE pass = "valid" -> {"code", "caption"}
                   [] pass = "none"  -> {}
                   [] OTHER          -> {"caption"} : pass \in PassNow}
FeedbackCard == IF bill.feedbackOpen THEN "form" ELSE IF AllPaid THEN "button" ELSE "none"

\* One order at a time, the first that is not paid.
PayOnline ==
  /\ "online" \in PayCard /\ ~bill.paying
  /\ bill' = [bill EXCEPT !.paying = TRUE]
  /\ Keeps

\* A checkout opens and the page is left, as if it were mounted anew when the
\* guest is back ...
FreshPage == [orders |-> [o \in Bills |-> Unplaced], paying |-> FALSE, feedbackOpen |-> FALSE]
Mounts == bill' = FreshPage /\ answers' = {} /\ late' = {} /\ UNCHANGED <<due, undone>>

CheckoutOpens ==
  /\ bill.paying /\ \E o \in Bills : Payable(o)
  /\ Mounts

\* ... or the server refuses, for one because the order is paid by now.
PayRefused ==
  /\ bill.paying
  /\ bill' = [bill EXCEPT !.paying = FALSE]
  /\ Keeps

\* By way of the menu, or a reload.  Answers to a page that is gone are lost.
OpenAgain == bill # FreshPage /\ Mounts

OpenFeedback ==
  /\ FeedbackCard = "button"
  /\ bill' = [bill EXCEPT !.feedbackOpen = TRUE]
  /\ Keeps

\* About the first order the bill shows as paid; a failure leaves the form.
SubmitFeedback ==
  /\ FeedbackCard = "form"
  /\ bill' = [bill EXCEPT !.feedbackOpen = FALSE]
  /\ Keeps

-----------------------------------------------------------------------------
BillInit ==
  /\ bill = FreshPage /\ answers = {} /\ undone = {} /\ late = {}
  /\ due = [o \in Bills |-> Unplaced]

BillNext ==
  \/ \E o \in Bills :
       \/ RoundPlaced(o) \/ PaymentConfirmed(o)
       \/ \E to \in {"coming", "delivered", "cancelled"} : LineMoves(o, to)
       \/ \E to \in Final : StaleTap(o, to)
  \/ \E a \in answers : OrdersArrive(a)
  \/ LoadOrders \/ LoadsAtOnce \/ PayOnline \/ CheckoutOpens \/ PayRefused
  \/ OpenAgain \/ OpenFeedback \/ SubmitFeedback

BillSpec == BillInit /\ [][BillNext]_billing

-----------------------------------------------------------------------------
\* However the answers cross, the page says goodbye only to a guest whose orders
\* are paid and served, those it lists and those placed before it was opened,
\* and asks for feedback on a paid order: "saying settled over a drink that has
\* not been made reads as we are finished with you" (bill page:123-126).  Only
\* what the venue takes back afterwards is still shown as it was.
IsSettled(o) == due[o].status = "paid" /\ due[o].lines = "delivered"
GoodbyeIsTrue ==
  /\ Heading = "Your Night, Settled" =>
       \A o \in Listed \union (Bills \ late) :
         due[o] = Unplaced \/ IsSettled(o) \/ o \in undone
  /\ bill.feedbackOpen => \E o \in Bills : due[o].status = "paid" \/ o \in undone

\* Why: until it is undone, what is paid stays paid and what is served or voided
\* stays so, and a list is true of that however old it is; and what was placed
\* before the page was opened is on every list the page asks for.
Told(list) ==
  \A o \in Bills :
    /\ list[o].status = "paid" => due[o].status = "paid" \/ o \in undone
    /\ list[o].lines \in Final => due[o].lines = list[o].lines \/ o \in undone
    /\ list[o].lines \in {"none", "coming", "delivered", "cancelled"}
    /\ list[o].status # "none" <=> list[o].lines # "none"
Complete(list) ==
  \A o \in Bills : list[o].status = "none" => due[o].status = "none" \/ o \in late
BillTypeOK ==
  /\ DOMAIN bill = DOMAIN FreshPage
  /\ due \in [Bills -> [status : {"none", "open", "paid"},
                        lines : {"none", "coming", "delivered", "cancelled"}]]
  /\ \A o \in Bills :
       /\ due[o].lines = "cancelled" => due[o].status # "paid" \/ o \in undone
       /\ due[o].status # "none" <=> due[o].lines # "none"
ListsAreTrue ==
  /\ Told(bill.orders)
  /\ \A a \in answers : Told(a) /\ Complete(a)
  /\ bill.orders = FreshPage.orders \/ Complete(bill.orders)
  /\ bill.feedbackOpen => \E o \in Bills : due[o].status = "paid" \/ o \in undone
BillInv == BillTypeOK /\ ListsAreTrue
=============================================================================
