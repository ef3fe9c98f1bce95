----------------------------- MODULE Settlement -----------------------------
(***************************************************************************)
(* The money path of EasyServe: orders and their lines, the payments that  *)
(* settle them and the exit passes those payments issue.                   *)
(*                                                                         *)
(* Every HTTP handler is one database session at READ COMMITTED, the       *)
(* default of both SQLAlchemy and Postgres.  It SELECTs without locking,   *)
(* decides in Python on what it saw, and writes at commit.  A handler is   *)
(* therefore two steps of a worker here, a *Read and a *Commit, with any   *)
(* step of any other worker between them.  What is flushed early stays     *)
(* invisible to the others until the commit, so read and commit are the    *)
(* only instants that matter; the SELECTs of one handler count as one.     *)
(* The ORM writes a column only when its value differs from the one it     *)
(* loaded (Dirty below).  Amounts are whole kobo.                          *)
(*                                                                         *)
(* The history variables say where the code loses track of the money: an   *)
(* order two handlers met on, and a voided line that came back.            *)
(***************************************************************************)
EXTENDS Integers, FiniteSets

CONSTANTS
  Orders,       \* ids an order row can get
  Items,        \* ids an order line can get
  Payments,     \* ids a payment row can get
  Sessions,     \* guest session tokens
  Workers,      \* request handlers that run at the same time
  None,         \* the SQL NULL
  Subtotal,     \* Subtotal[S] is the sum of price * quantity over the lines S
  Tendered,     \* the amounts a cashier may key in
  ServicePct,   \* Venue.service_charge_pct
  VatPct,       \* Venue.vat_pct
  Targets,      \* Targets[s]: what a station may ask of a line that is s
  MaxAborts,    \* how many handlers may die before their commit
  MaxDups       \* how many webhooks Paystack sends again after a 200

OrderStatus == {"open", "partially_served", "fully_served", "paid"}
ItemStatus  == {"pending", "preparing", "ready", "delivered", "cancelled"}

ASSUME IdsAssumption ==
  None \notin Orders /\ None \notin Payments /\ None \notin Sessions
ASSUME SubtotalAssumption == Subtotal \in [SUBSET Items -> Nat]
ASSUME SubtotalIsSum ==
  \A S, T \in SUBSET Items :
    S \intersect T = {} => Subtotal[S \union T] = Subtotal[S] + Subtotal[T]
ASSUME TenderedAssumption == Tendered \subseteq Nat
ASSUME PctAssumption == ServicePct \in Nat /\ VatPct \in Nat
ASSUME TargetsAssumption == Targets \in [ItemStatus -> SUBSET ItemStatus]
ASSUME BoundsAssumption == MaxAborts \in Nat /\ MaxDups \in Nat

VARIABLES
  order,    \* orders table: status, session_token, total_amount, charges
  item,     \* order_items table: order_id and status
  payment,  \* payments table
  passes,   \* number of exit_passes rows per order
  flagged,  \* payments with a payment_underpaid audit row
  webhook,  \* charge.success of a payment: "none" before the guest has paid,
            \* "owed" until Paystack gets a 200 for it, then "acked"
  refused,  \* payments whose webhook was ever answered with a 500
  task,     \* per worker: the handler it is inside, with what it has read
  aborts,   \* handlers that died so far
  dups,     \* redeliveries so far
  overtaken,  \* history: orders that had changed when a handler wrote them back
  revived,    \* history: lines a tap brought back after they had been voided
  revoided    \* history: lines among these that were voided again

db      == <<order, item, payment, passes, flagged>>
gateway == <<webhook, refused, dups>>
history == <<overtaken, revived, revoided>>
vars    == <<db, gateway, task, aborts, history>>

-----------------------------------------------------------------------------
\* Bill arithmetic.

Rounded(n) == (n + 50) \div 100

\* apply_bill_charges: the service charge on the subtotal, VAT on both.
ChargesFor(total) ==
  LET service == Rounded(total * ServicePct)
  IN  service + Rounded((total + service) * VatPct)

GrandTotal(bill) == bill.total + bill.charges

\* The ORM's UPDATE leaves a column alone unless the handler changed it.
Dirty(now, seen, new) == IF new = seen THEN now ELSE new

\* What UPDATE orders leaves when a handler read `seen` and made it `new`.
Written(now, seen, new) ==
  [status  |-> Dirty(now.status, seen.status, new.status),
   session |-> Dirty(now.session, seen.session, new.session),
   total   |-> Dirty(now.total, seen.total, new.total),
   charges |-> Dirty(now.charges, seen.charges, new.charges)]

\* total_amount, and with it the charges.
WithTotal(bill, total) ==
  [bill EXCEPT !.total = total, !.charges = ChargesFor(total)]

-----------------------------------------------------------------------------
\* The rows before they are inserted, and a worker between two requests.

NoOrder   == [status |-> "absent", session |-> None, total |-> 0, charges |-> 0]
NoItem    == [order |-> None, status |-> "absent"]
NoPayment == [order |-> None, status |-> "absent", amount |-> 0,
              source |-> "till", split |-> FALSE]
NoLines   == [i \in Items |-> "absent"]
IdleTask  == [op |-> "idle", order |-> None, items |-> {}, target |-> "pending",
              pay |-> None, amount |-> 0, split |-> FALSE,
              bill |-> NoOrder, lines |-> NoLines]

Idle(w)     == task[w].op = "idle"
Begin(w, t) == Idle(w) /\ task' = [task EXCEPT ![w] = t]
Finish(w)   == task' = [task EXCEPT ![w] = IdleTask]

Placed(o)   == order[o].status # "absent"
Receives(o) == order[o].status \in {"open", "partially_served"}
LinesOf(o)  == [i \in Items |->
                  IF item[i].order = o THEN item[i].status ELSE "absent"]

\* What a handler has read of its order is not what is stored any more.
Stale(t) == \/ Placed(t.order) /\ t.bill # order[t.order]
            \/ t.op = "status" /\ t.lines # LinesOf(t.order)
Overtakes(t) ==
  overtaken' = IF Stale(t) THEN overtaken \union {t.order} ELSE overtaken

\* uuid4 ids: no row has the id and no handler is about to insert it.
FreshOrder(o)   == ~Placed(o) /\ \A w \in Workers : task[w].order # o
FreshItem(i)    == item[i].order = None /\ \A w \in Workers : i \notin task[w].items
FreshPayment(p) == payment[p].status = "absent" /\ \A w \in Workers : task[w].pay # p

Init ==
  /\ order = [o \in Orders |-> NoOrder]
  /\ item = [i \in Items |-> NoItem]
  /\ payment = [p \in Payments |-> NoPayment]
  /\ passes = [o \in Orders |-> 0]
  /\ flagged = {}
  /\ webhook = [p \in Payments |-> "none"]
  /\ refused = {}
  /\ task = [w \in Workers |-> IdleTask]
  /\ aborts = 0
  /\ dups = 0
  /\ overtaken = {} /\ revived = {} /\ revoided = {}

-----------------------------------------------------------------------------
\* place_order.  A round joins an order of its session that still receives,
\* read here, or opens a new one.

\* Mutant: the filter on the order's status is forgotten.
JoinsAnyOrder(s, o) == Placed(o) /\ order[o].session = s

JoinsOrder(s, o) == Receives(o) /\ order[o].session = s
OpensOrder(s, o) == FreshOrder(o) /\ ~\E q \in Orders : JoinsOrder(s, q)

PlaceRead(w) ==
  \E s \in Sessions, o \in Orders, S \in (SUBSET Items) \ {{}} :
    /\ \A i \in S : FreshItem(i)
    /\ JoinsOrder(s, o) \/ OpensOrder(s, o)
    /\ Begin(w, [IdleTask EXCEPT !.op = "place", !.order = o, !.items = S,
                                 !.bill = [order[o] EXCEPT !.session = s]])
    /\ UNCHANGED <<db, gateway, aborts, history>>

PlaceCommit(w) ==
  LET t   == task[w]
      new == WithTotal(t.bill, t.bill.total + Subtotal[t.items])
  IN  /\ t.op = "place"
      /\ order' = [order EXCEPT ![t.order] =
                     IF t.bill.status = "absent"
                     THEN [new EXCEPT !.status = "open"]
                     ELSE Written(@, t.bill, new)]
      /\ item' = [i \in Items |-> IF i \in t.items
                                  THEN [order |-> t.order, status |-> "pending"]
                                  ELSE item[i]]
      /\ Finish(w) /\ Overtakes(t)
      /\ UNCHANGED <<payment, passes, flagged, gateway, aborts, revived, revoided>>

-----------------------------------------------------------------------------
\* update_item_status.

\* Mutant: the 400 is forgotten.
NeverRefused(o, target) == FALSE

\* The 400 leaves everything alone, so such a request is simply not a step.
VoidRefused(o, target) == order[o].status = "paid" /\ target = "cancelled"

StatusRead(w) ==
  \E i \in Items : \E target \in ItemStatus :
    LET o == item[i].order IN
    /\ o # None
    /\ target \in Targets[item[i].status]
    /\ ~VoidRefused(o, target)
    /\ Begin(w, [IdleTask EXCEPT !.op = "status", !.order = o, !.items = {i},
                                 !.target = target, !.bill = order[o],
                                 !.lines = LinesOf(o)])
    /\ UNCHANGED <<db, gateway, aborts, history>>

\* The lines a tap voids, and those it brings back: any status may follow any.
Voids(t)   == {i \in t.items : t.target = "cancelled" /\ t.lines[i] # "cancelled"}
Revives(t) == {i \in t.items : t.target # "cancelled" /\ t.lines[i] = "cancelled"}

\* Voiding takes the line off the bill, which stops at zero; nothing puts a line
\* that is brought back on it again.
Voided(t) ==
  IF Voids(t) # {}
  THEN WithTotal(t.bill, IF t.bill.total < Subtotal[t.items]
                         THEN 0 ELSE t.bill.total - Subtotal[t.items])
  ELSE t.bill

\* Mutant: the auto-advance without its guard on "paid".
AdvancedOverPaid(status, lines) ==
  LET active    == {i \in Items : lines[i] \notin {"absent", "cancelled"}}
      delivered == {i \in active : lines[i] = "delivered"}
  IN  IF active = {} \/ delivered = {} THEN status
      ELSE IF delivered = active THEN "fully_served" ELSE "partially_served"

\* The auto-advance, from the lines the handler saw.
Advanced(status, lines) ==
  LET active    == {i \in Items : lines[i] \notin {"absent", "cancelled"}}
      delivered == {i \in active : lines[i] = "delivered"}
  IN  IF active = {} \/ delivered = {} \/ status = "paid" THEN status
      ELSE IF delivered = active THEN "fully_served" ELSE "partially_served"

StatusCommit(w) ==
  LET t     == task[w]
      lines == [i \in Items |-> IF i \in t.items THEN t.target ELSE t.lines[i]]
      new   == [Voided(t) EXCEPT !.status = Advanced(@, lines)]
  IN  /\ t.op = "status"
      /\ order' = [order EXCEPT ![t.order] = Written(@, t.bill, new)]
      /\ item' = [i \in Items |-> IF i \in t.items
                    THEN [item[i] EXCEPT !.status = Dirty(@, t.lines[i], t.target)]
                    ELSE item[i]]
      /\ revived' = revived \union Revives(t)
      /\ revoided' = revoided \union (Voids(t) \intersect revived)
      /\ Finish(w) /\ Overtakes(t)
      /\ UNCHANGED <<payment, passes, flagged, gateway, aborts>>

-----------------------------------------------------------------------------
\* record_payment: money taken at the till, refused on what the read shows.

PayRead(w) ==
  \E o \in Orders, p \in Payments, amount \in Tendered, split \in BOOLEAN :
    /\ Placed(o) /\ order[o].status # "paid"
    /\ split \/ amount >= GrandTotal(order[o])
    /\ FreshPayment(p)
    /\ Begin(w, [IdleTask EXCEPT !.op = "pay", !.order = o, !.pay = p,
                                 !.amount = amount, !.split = split,
                                 !.bill = order[o]])
    /\ UNCHANGED <<db, gateway, aborts, history>>

\* Mutant: exit_passes without its unique order_id.
InsertsAgain(o) == TRUE

\* exit_passes.order_id is unique: only the first pass of an order inserts.
PassInserts(o) == passes[o] = 0

PayCommit(w) ==
  LET t == task[w]
  IN  /\ t.op = "pay"
      /\ PassInserts(t.order)
      /\ order' = [order EXCEPT ![t.order].status = Dirty(@, t.bill.status, "paid")]
      /\ payment' = [payment EXCEPT ![t.pay] =
                       [order |-> t.order, status |-> "confirmed",
                        amount |-> t.amount, source |-> "till",
                        split |-> t.split]]
      /\ passes' = [passes EXCEPT ![t.order] = @ + 1]
      /\ Finish(w) /\ Overtakes(t)
      /\ UNCHANGED <<item, flagged, gateway, aborts, revived, revoided>>

\* The second one fails at the flush and the whole request rolls back.
PayRefused(w) ==
  /\ task[w].op = "pay"
  /\ ~PassInserts(task[w].order)
  /\ Finish(w)
  /\ UNCHANGED <<db, gateway, aborts, history>>

-----------------------------------------------------------------------------
\* The online path.  initiate_gateway_payment reads one order and inserts one
\* row no other handler looks at before the guest pays: one step.

Checkout ==
  \E o \in Orders, p \in Payments :
    /\ Placed(o) /\ order[o].status # "paid"
    /\ GrandTotal(order[o]) > 0
    /\ FreshPayment(p)
    /\ payment' = [payment EXCEPT ![p] =
                     [order |-> o, status |-> "pending",
                      amount |-> GrandTotal(order[o]), source |-> "gateway",
                      split |-> FALSE]]
    /\ UNCHANGED <<order, item, passes, flagged, gateway, task, aborts, history>>

\* Paystack: the guest pays what the checkout was opened for, at any time
\* later; Paystack then owes the backend a charge.success.
Charge(p) ==
  /\ payment[p].status = "pending"
  /\ webhook[p] = "none"
  /\ webhook' = [webhook EXCEPT ![p] = "owed"]
  /\ UNCHANGED <<db, refused, dups, task, aborts, history>>

\* Delivery is at least once.
Redeliver(p) ==
  /\ webhook[p] = "acked"
  /\ dups < MaxDups
  /\ webhook' = [webhook EXCEPT ![p] = "owed"]
  /\ dups' = dups + 1
  /\ UNCHANGED <<db, refused, task, aborts, history>>

\* confirm_gateway_payment on a payment it finds confirmed already.
HookSeen(p) ==
  /\ webhook[p] = "owed"
  /\ payment[p].status = "confirmed"
  /\ webhook' = [webhook EXCEPT ![p] = "acked"]
  /\ UNCHANGED <<db, refused, dups, task, aborts, history>>

HookRead(w, p) ==
  /\ webhook[p] = "owed"
  /\ payment[p].status = "pending"
  /\ Begin(w, [IdleTask EXCEPT !.op = "hook", !.pay = p,
                               !.order = payment[p].order,
                               !.amount = payment[p].amount,
                               !.bill = order[payment[p].order]])
  /\ UNCHANGED <<db, gateway, aborts, history>>

Underpaid(t) == t.amount < GrandTotal(t.bill)

\* Mutant: already_paid is read after the order has been marked paid.
NeverNeedsPass(t) == FALSE

NeedsPass(t) == t.bill.status # "paid"

HookFlag(w) ==
  LET t == task[w]
  IN  /\ t.op = "hook" /\ Underpaid(t)
      /\ flagged' = flagged \union {t.pay}
      /\ webhook' = [webhook EXCEPT ![t.pay] = "acked"]
      /\ Finish(w)
      /\ UNCHANGED <<order, item, payment, passes, refused, dups, aborts, history>>

HookConfirm(w) ==
  LET t == task[w]
  IN  /\ t.op = "hook" /\ ~Underpaid(t)
      /\ NeedsPass(t) => PassInserts(t.order)
      /\ payment' = [payment EXCEPT ![t.pay].status = "confirmed"]
      /\ order' = [order EXCEPT ![t.order].status = Dirty(@, t.bill.status, "paid")]
      /\ passes' = [passes EXCEPT ![t.order] = IF NeedsPass(t) THEN @ + 1 ELSE @]
      /\ webhook' = [webhook EXCEPT ![t.pay] = "acked"]
      /\ Finish(w) /\ Overtakes(t)
      /\ UNCHANGED <<item, flagged, refused, dups, aborts, revived, revoided>>

\* The unique violation is not caught: Paystack gets a 500 and will retry.
HookRefused(w) ==
  LET t == task[w]
  IN  /\ t.op = "hook" /\ ~Underpaid(t)
      /\ NeedsPass(t) /\ ~PassInserts(t.order)
      /\ refused' = refused \union {t.pay}
      /\ Finish(w) /\ Overtakes(t)
      /\ UNCHANGED <<db, webhook, dups, aborts, revived, revoided>>

\* The worker dies, or Postgres aborts the transaction: nothing is written.
Abort(w) ==
  /\ ~Idle(w)
  /\ aborts < MaxAborts
  /\ aborts' = aborts + 1
  /\ Finish(w)
  /\ UNCHANGED <<db, gateway, history>>

-----------------------------------------------------------------------------
Commit(w) ==
  \/ PlaceCommit(w) \/ StatusCommit(w)
  \/ PayCommit(w) \/ PayRefused(w)
  \/ HookFlag(w) \/ HookConfirm(w) \/ HookRefused(w)

Deliver(p) == HookSeen(p) \/ \E w \in Workers : HookRead(w, p)

Next ==
  \/ \E w \in Workers :
       PlaceRead(w) \/ StatusRead(w) \/ PayRead(w) \/ Commit(w) \/ Abort(w)
  \/ Checkout
  \/ \E p \in Payments : Charge(p) \/ Redeliver(p) \/ Deliver(p)

Spec == Init /\ [][Next]_vars

\* A handler that has started ends (the server runs it), and Paystack keeps
\* retrying a webhook until it is answered with a 200, so it gets through
\* however often the workers are busy.  Guests and staff owe us nothing.
Fairness ==
  /\ \A w \in Workers : WF_vars(Commit(w))
  /\ \A p \in Payments : SF_vars(Deliver(p))

FairSpec == Spec /\ Fairness

-----------------------------------------------------------------------------
OrderRow   == [status : OrderStatus \union {"absent"},
               session : Sessions \union {None}, total : Nat, charges : Nat]
PaymentRow == [order : Orders \union {None},
               status : {"absent", "pending", "confirmed"},
               amount : Nat, source : {"till", "gateway"}, split : BOOLEAN]
LineStatus == ItemStatus \union {"absent"}
Task       == [op : {"idle", "place", "status", "pay", "hook"},
               order : Orders \union {None}, items : SUBSET Items,
               target : ItemStatus, pay : Payments \union {None},
               amount : Nat, split : BOOLEAN, bill : OrderRow,
               lines : [Items -> LineStatus]]

\* Every variable holds rows of its table, and a handler knows what it is for.
TypeOK ==
  /\ order \in [Orders -> OrderRow]
  /\ item \in [Items -> [order : Orders \union {None}, status : LineStatus]]
  /\ payment \in [Payments -> PaymentRow]
  /\ \A p \in Payments : payment[p].status # "absent" => payment[p].order \in Orders
  /\ passes \in [Orders -> Nat]
  /\ flagged \subseteq Payments
  /\ webhook \in [Payments -> {"none", "owed", "acked"}]
  /\ refused \subseteq Payments
  /\ task \in [Workers -> Task]
  /\ \A w \in Workers : task[w].op # "idle" => task[w].order \in Orders
  /\ \A w \in Workers : task[w].op \in {"pay", "hook"} => task[w].pay \in Payments
  /\ \A w \in Workers :
       task[w].op = "hook" => payment[task[w].pay].status # "absent"
  /\ aborts \in Nat /\ dups \in Nat
  /\ overtaken \subseteq Orders /\ revived \subseteq Items /\ revoided \subseteq Items

Confirmed(p) == payment[p].status = "confirmed"
Settled(o)   == order[o].status = "paid"

\* An order shown as paid has its one exit pass and a confirmed payment behind
\* it: record_payment and confirm_gateway_payment write the three together, so
\* no interleaving of tills, webhooks and stations shows one without the others.
SettledIsBacked ==
  \A o \in Orders : Settled(o) =>
    /\ passes[o] = 1
    /\ \E p \in Payments : Confirmed(p) /\ payment[p].order = o

\* Whoever has paid gets out: the order of a confirmed payment has an exit pass,
\* also when the webhook skipped creating one because it saw the order paid.
ConfirmedHasPass ==
  \A p \in Payments : Confirmed(p) => passes[payment[p].order] = 1

\* Two tills never both take the money for one order, even when both read it
\* unpaid: record_payment's second exit pass breaks the unique constraint.
TillTakesOnce ==
  \A p, q \in Payments :
    /\ Confirmed(p) /\ payment[p].source = "till"
    /\ Confirmed(q) /\ payment[q].source = "till"
    /\ payment[p].order = payment[q].order
    => p = q

\* Why the three above hold: the parts of an inductive invariant.  A paid order
\* has a pass; a pass is single and paid for; only the online path leaves a
\* payment pending; a handler owns the payment id it is about to insert, a
\* webhook the payment it confirms, and a webhook that saw the order paid (and
\* so will create no pass) saw it with its pass.
SettledHasPass == \A o \in Orders : Settled(o) => passes[o] = 1
PassIsPaidFor ==
  \A o \in Orders :
    /\ passes[o] <= 1
    /\ passes[o] = 1 => \E p \in Payments : Confirmed(p) /\ payment[p].order = o
PendingIsOnline ==
  \A p \in Payments : payment[p].status = "pending" => payment[p].source = "gateway"
TaskOwnsPayment ==
  /\ \A w \in Workers : task[w].op = "pay" => payment[task[w].pay].status = "absent"
  /\ \A v, w \in Workers :
       task[v].op = "pay" /\ task[w].op = "pay" /\ task[v].pay = task[w].pay => v = w
  /\ \A w \in Workers : task[w].op = "hook" =>
       /\ payment[task[w].pay].order = task[w].order
       /\ payment[task[w].pay].source = "gateway"
SawSettledSawPass ==
  \A w \in Workers : task[w].op = "hook" /\ ~NeedsPass(task[w])
                       => passes[task[w].order] = 1

SettlementInv ==
  /\ TypeOK
  /\ SettledHasPass /\ PassIsPaidFor /\ ConfirmedHasPass /\ TillTakesOnce
  /\ PendingIsOnline /\ TaskOwnsPayment /\ SawSettledSawPass

\* A paid order has been paid in full: some confirmed payment of it is a split,
\* or covers the bill as it stands now, the charges included; unless a handler
\* wrote the order over what another had just written.
PaidInFull ==
  \A o \in Orders \ overtaken : Settled(o) =>
    \E p \in Payments :
      /\ Confirmed(p) /\ payment[p].order = o
      /\ payment[p].split \/ payment[p].amount >= GrandTotal(order[o])

\* Whatever stations tap, a voided line included: the bill is the subtotal of the
\* lines that are live, less those a tap brought back after their void, which
\* nobody pays for, and its service charge and VAT are those of that subtotal
\* (apply_bill_charges).  Voiding such a line once more takes its price off a
\* second time; and an order on which handlers meet loses count.
OnBill(o)    == {i \in Items : item[i].order = o /\ item[i].status # "cancelled"}
Charged(o)   == OnBill(o) \ revived
Accounted(o) == o \notin overtaken /\ \A i \in revoided : item[i].order # o
BillMatchesLines ==
  \A o \in Orders : Placed(o) /\ Accounted(o) =>
    /\ order[o].total = Subtotal[Charged(o)]
    /\ order[o].charges = ChargesFor(order[o].total)

\* What is billed is what is on the order, and what is settled was paid for in
\* full (order_service.py:126-128, payment_service.py:31-36).
MoneyAddsUp == PaidInFull /\ BillMatchesLines

\* "settled is the one that must win" (orders.py:261-262): serving a prepaid round,
\* or anything else, never turns a paid order back into one that owes.
SettledStaysSettled ==
  [][\A o \in Orders : Settled(o) => Settled(o)']_vars

\* A tap on the order ends here that read it before it was settled.
LateTap(o) ==
  \E w \in Workers : /\ task[w].op = "status" /\ task[w].order = o
                     /\ task[w].bill.status # "paid"
                     /\ task'[w].op = "idle"

\* What is settled stays settled, and "voiding a line after money has changed
\* hands ... that single transition stays closed" (orders.py:195-209, 256-272),
\* but for a tap whose handler read the order before the money was in: no other
\* handler, whenever it read what, reopens a paid order or voids a line of it.
SettledForGood ==
  [][\A o \in Orders : Settled(o) /\ ~LateTap(o) =>
       /\ Settled(o)'
       /\ \A i \in Items : item[i].order = o /\ item'[i].status = "cancelled"
                             => item[i].status = "cancelled"]_vars

\* "Always 200 -- Paystack retries anything else and we handle our own errors"
\* (payments.py:75): no webhook is ever answered with an error, as long as no
\* two handlers meet (RefusedWhenOvertaken below).
WebhookAlways200 == [][refused' = {}]_vars

\* Money that has moved on Paystack is accounted for: the payment ends up
\* confirmed, or flagged for the owner as short of the bill.
ChargedIsAccounted ==
  \A p \in Payments :
    webhook[p] = "owed" ~> (Confirmed(p) \/ p \in flagged)

\* Every charge comes through, and no webhook of it fails (payments.py:64-76).
ChargesComeThrough == WebhookAlways200 /\ ChargedIsAccounted

-----------------------------------------------------------------------------
\* Why these hold, however many handlers interleave.  Rows that are not there yet
\* are blank, ...
BlankRows ==
  /\ \A o \in Orders : ~Placed(o) => order[o] = NoOrder
  /\ \A i \in Items : item[i].order # None => Placed(item[i].order)
  /\ \A p \in Payments : payment[p].status # "absent" => Placed(payment[p].order)
  /\ \A i \in revived \union revoided : item[i].order # None

\* ... a pass means paid, unless the order was reopened, ...
PassIsSettled == \A o \in Orders \ overtaken : passes[o] # 0 => Settled(o)

\* ... the ids a handler inserts are its own, and what it read let it go on.
PlaceKnows(w) ==
  LET t == task[w]
  IN  /\ \A i \in t.items : /\ item[i].order = None
                             /\ \A v \in Workers \ {w} : i \notin task[v].items
      /\ \/ /\ ~Placed(t.order)
            /\ \E s \in Sessions : t.bill = [NoOrder EXCEPT !.session = s]
            /\ \A v \in Workers \ {w} : task[v].order # t.order
         \/ Placed(t.order) /\ t.bill.status \in {"open", "partially_served"}
StatusKnows(t) ==
  /\ Placed(t.order) /\ t.bill.status # "absent"
  /\ \E i \in Items : t.items = {i} /\ item[i].order = t.order
  /\ t.bill.status = "paid" => t.target # "cancelled"
PayKnows(t) ==
  /\ Placed(t.order) /\ t.bill.status # "paid"
  /\ t.split \/ t.amount >= GrandTotal(t.bill)
HookKnows(t) == Placed(t.order) /\ payment[t.pay].amount = t.amount
Knows(w) ==
  /\ task[w].op = "place" => PlaceKnows(w)
  /\ task[w].op = "status" => StatusKnows(task[w])
  /\ task[w].op = "pay" => PayKnows(task[w])
  /\ task[w].op = "hook" => HookKnows(task[w])
KnowsRows == \A w \in Workers : Knows(w)

\* A webhook is answered with an error (payments.py:75) only over an order that
\* some handler wrote, or was about to write, over what it had not read.
RefusedWhenOvertaken ==
  \A p \in refused : payment[p].status # "absent" /\ payment[p].order \in overtaken

MoneyInv == /\ SettlementInv /\ MoneyAddsUp /\ BlankRows /\ PassIsSettled
            /\ KnowsRows /\ RefusedWhenOvertaken

-----------------------------------------------------------------------------
\* Passes and confirmed payments, as the abstract specification sees them.
Clearing ==
  INSTANCE Clearance WITH
    cleared <- {o \in Orders : passes[o] > 0},
    settles <- [p \in Payments |-> IF Confirmed(p) THEN payment[p].order ELSE None]

\* The exit passes and confirmed payments the handlers leave in the database
\* only ever change as Clearance allows: an order is let out once, for good, in
\* the transaction that confirms a payment of it.
ImplementsClearance == Clearing!Spec

=============================================================================
