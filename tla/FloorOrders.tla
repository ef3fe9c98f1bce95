---------------------------- MODULE FloorOrders -----------------------------
(***************************************************************************)
(* The attendant's screen, its orders: the floor by table, the figure a    *)
(* table is let go on, the line that is "Served" with one tap on a list    *)
(* that may be behind, and the money that stays with the cashier.          *)
(***************************************************************************)
EXTENDS Naturals, FiniteSets, FiniteSetsExt

CONSTANTS
  Orders,    \* one line each, numbered as they were placed
  TableOf,   \* per order: its table
  MaxLists   \* lists on their way at a time

VARIABLES
  pad,      \* the page: its React state
  lists,    \* lists on their way to the page
  patches,  \* "Served" taps on their way: the orders
  running,  \* the venue: per order its status, its line, what it is billed
  blind     \* orders with a tap on a list that was behind, or overtaken by a void:
            \* the attendant's, or a station's that revived a voided line

floorDesk == <<pad, lists, patches, running, blind>>

Unplaced  == [status |-> "none", line |-> "none", billed |-> 0]
NoTable   == "none"

-----------------------------------------------------------------------------
\* The venue.

RoundPlaced(o) ==
  /\ running[o] = Unplaced
  /\ running' = [running EXCEPT ![o] = [status |-> "open", line |-> "pending", billed |-> 1]]
  /\ UNCHANGED <<pad, lists, patches, blind>>

\* update_item_status writes any step over any other: it asks what the line is
\* only when it is to be voided.  A voided line is made or served like any other,
\* and its price stays off the bill.
Written(o, step) ==
  LET served == running[o].status # "paid" /\ step = "delivered" IN
  [running EXCEPT ![o] = [status |-> IF served THEN "fully_served" ELSE running[o].status,
                          line |-> step, billed |-> running[o].billed]]

\* A tap on a ticket of the bar or the kitchen, made on the station's own list.
\* Over a voided line that list was behind, or the void has overtaken the tap.
StationWrites(o, step) ==
  /\ running[o] # Unplaced
  /\ running' = Written(o, step)
  /\ blind' = IF running[o].line = "cancelled" THEN blind \union {o} ELSE blind
  /\ UNCHANGED <<pad, lists, patches>>

\* Taken off the bill, which a paid one does not allow.
LineVoided(o) ==
  /\ running[o].line \in {"pending", "ready", "delivered"} /\ running[o].status # "paid"
  /\ running' = [running EXCEPT ![o].line = "cancelled", ![o].billed = 0]
  /\ blind' = IF o \in patches THEN blind \union {o} ELSE blind
  /\ UNCHANGED <<pad, lists, patches>>

OrderPaid(o) ==
  /\ running[o].status \notin {"none", "paid"} /\ running[o].billed > 0
  /\ running' = [running EXCEPT ![o].status = "paid"]
  /\ UNCHANGED <<pad, lists, patches, blind>>

\* The attendant's "Served".
LineServed(o) ==
  /\ o \in patches
  /\ patches' = patches \ {o}
  /\ running' = Written(o, "delivered")
  /\ UNCHANGED <<pad, lists, blind>>

ServeFails(o) ==
  /\ o \in patches
  /\ patches' = patches \ {o}
  /\ UNCHANGED <<pad, lists, running, blind>>

-----------------------------------------------------------------------------
\* What the page works out from the list it has.

NeedsPayment(o) == pad.list[o].status = "fully_served"
IsUnpaid(o)     == pad.list[o].status \notin {"none", "paid"}
ActiveOrders    == {o \in Orders : IsUnpaid(o)}

\* One entry per table with something unpaid on it.
OpenAt(t)    == {o \in ActiveOrders : TableOf[o] = t}
OwedAt(t)    == MapThenSumSet(LAMBDA o : pad.list[o].billed, OpenAt(t))
Since(t)     == CHOOSE o \in OpenAt(t) : \A p \in OpenAt(t) : o <= p
NeedsPaying(t) == \E o \in OpenAt(t) : NeedsPayment(o)
TableLive(t) == [open |-> OpenAt(t), owed |-> OwedAt(t), since |-> Since(t),
                 needsPaying |-> NeedsPaying(t)]
Floor        == {TableOf[o] : o \in ActiveOrders}
\* Walked in this order: who owes for what is served, then who sits longest.
WalksBefore(t, u) ==
  IF NeedsPaying(t) # NeedsPaying(u) THEN NeedsPaying(t) ELSE Since(t) < Since(u)

\* The panels.
UnpaidBanner == [count |-> Cardinality({o \in Orders : NeedsPayment(o)}),
                 value |-> MapThenSumSet(LAMBDA o : pad.list[o].billed,
                                         {o \in Orders : NeedsPayment(o)})]
\* Mutant: a tap serves whatever the line is.
AnyLine(o)      == IsUnpaid(o)
ServedButton(o) == IsUnpaid(o) /\ pad.list[o].line = "ready"
OrderCard(o)    == [status |-> pad.list[o].status, line |-> pad.list[o].line,
                    served |-> ServedButton(o)]
\* canTakePayment starts out FALSE and nothing ever sets it, whatever the owner's
\* switch says.
PayButtons(o)   == IF NeedsPayment(o) /\ pad.canTakePayment THEN {"cash", "pos"} ELSE {}
SendToCashier(o) == NeedsPayment(o) /\ ~pad.canTakePayment
\* The sheet of a table stays chosen while nothing runs there, unseen, and is
\* back by itself with the next guests' first round.
TableSheet == IF pad.tableSheet \in Floor
              THEN [o \in OpenAt(pad.tableSheet) |-> OrderCard(o)] ELSE <<>>

-----------------------------------------------------------------------------
\* On mount, on the venue's events and after a tap; answers may cross.
LoadOrders ==
  /\ Cardinality(lists) < MaxLists
  /\ lists' = lists \union {running}
  /\ UNCHANGED <<pad, patches, running, blind>>

OrdersArrive(l) ==
  /\ lists' = lists \ {l}
  /\ pad' = [pad EXCEPT !.list = l]
  /\ UNCHANGED <<patches, running, blind>>

OrdersFail(l) ==
  /\ lists' = lists \ {l}
  /\ UNCHANGED <<pad, patches, running, blind>>

\* From the order's card or from the sheet of its table.
MarkDelivered(o) ==
  /\ ServedButton(o)
  /\ patches' = patches \union {o}
  /\ blind' = IF pad.list[o].line # running[o].line THEN blind \union {o} ELSE blind
  /\ UNCHANGED <<pad, lists, running>>

OpenTable(t) ==
  /\ t \in Floor /\ TableSheet = <<>>
  /\ pad' = [pad EXCEPT !.tableSheet = t]
  /\ UNCHANGED <<lists, patches, running, blind>>

CloseTable ==
  /\ TableSheet # <<>>
  /\ pad' = [pad EXCEPT !.tableSheet = NoTable]
  /\ UNCHANGED <<lists, patches, running, blind>>

FloorInit ==
  /\ pad = [list |-> [o \in Orders |-> Unplaced], tableSheet |-> NoTable,
            canTakePayment |-> FALSE]
  /\ lists = {} /\ patches = {} /\ blind = {}
  /\ running = [o \in Orders |-> Unplaced]

FloorNext ==
  \/ \E o \in Orders, step \in {"pending", "ready", "delivered"} : StationWrites(o, step)
  \/ \E o \in Orders : \/ RoundPlaced(o) \/ LineVoided(o) \/ OrderPaid(o)
                       \/ LineServed(o) \/ ServeFails(o) \/ MarkDelivered(o) \/ OpenTable(TableOf[o])
  \/ \E l \in lists : OrdersArrive(l) \/ OrdersFail(l)
  \/ LoadOrders \/ CloseTable

FloorSpec == FloorInit /\ [][FloorNext]_floorDesk

-----------------------------------------------------------------------------
\* A round is not given away by accident: a served line that is not on the bill
\* was tapped by somebody whose list was behind, the attendant or a station, or
\* whose tap a void overtook (orders.py:211, 256: only a void looks at the line).
ServedIsBilled ==
  \A o \in Orders : running[o].line = "delivered" /\ running[o].billed = 0 => o \in blind

\* Why: a line that is not on the bill is voided, or was revived or served
\* blindly; the tap that would serve it was made on an old list, or the void has
\* overtaken it.
FloorTypeOK ==
  /\ DOMAIN pad = {"list", "tableSheet", "canTakePayment"}
  /\ running \in [Orders -> [status : {"none", "open", "fully_served", "paid"},
                            line : {"none", "pending", "ready", "delivered", "cancelled"},
                            billed : {0, 1}]]
BilledUntilVoid ==
  \A o \in Orders : running[o].line \in {"pending", "ready"} =>
                      running[o].billed = 1 \/ o \in blind
PlacedAsAWhole == \A o \in Orders : running[o].line = "none" => running[o] = Unplaced
TapsAreBlind ==
  \A o \in Orders : o \in patches /\ running[o].billed = 0 => o \in blind
FloorInv == FloorTypeOK /\ BilledUntilVoid /\ PlacedAsAWhole /\ TapsAreBlind /\ ServedIsBilled
=============================================================================
