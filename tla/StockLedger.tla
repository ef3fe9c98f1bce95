---------------------------- MODULE StockLedger ----------------------------
(***************************************************************************)
(* The stock level of each menu item, the ledger of movements beside it,   *)
(* and what the variance report makes of them (stock_service.py), with the *)
(* two places outside the service that touch a level: place_order and a    *)
(* void.  No handler locks the item: each begins its transaction, whose    *)
(* start is the created_at of its movements, reads the level, and commits  *)
(* a number it has worked out from what it read.                           *)
(*                                                                         *)
(* A request is [kind, reason, of, line]: "of" is how many units of which  *)
(* items (lines of one item are added up), "line" the sale and the item of *)
(* the line that a void takes off the bill or a station's tap sets to      *)
(* another step.  Bills and paid orders are Settlement's business.         *)
(***************************************************************************)
EXTENDS Handlers, Integers, FiniteSets, FiniteSetsExt

CONSTANTS
  Items,
  Opening,     \* per item: the level it was put on the menu with, or Null
  StockRequests, \* each is made once; Kind, Units and Undoes say what it asks
  Kind,        \* "sale", "void", "tap", "adjust", "receive", "count" or "edit"
  Reason,      \* the reason its movements are written with
  Units,       \* per request: a function from some items to integers
  Undoes,      \* per void or tap: the sale whose line it is about, Null for the others
  MaxRequests, \* how many of them a behaviour makes
  Null

Kinds   == {"sale", "void", "tap", "adjust", "receive", "count", "edit"}
OnLine  == {"void", "tap"}
Reasons == {"sale", "void", "restock", "waste", "count", "adjustment"}
Touches(r) == DOMAIN Units[r]

\* What the constants must be, for the module that gives them to assume.
StockConstants ==
  /\ Null \notin Int /\ Null \notin StockRequests /\ MaxRequests \in Nat
  /\ Opening \in [Items -> Nat \union {Null}]
  /\ Kind \in [StockRequests -> Kinds] /\ Reason \in [StockRequests -> Reasons]
  /\ Undoes \in [StockRequests -> StockRequests \union {Null}]
  /\ \A r \in StockRequests :
       /\ Touches(r) \subseteq Items /\ Units[r] \in [Touches(r) -> Int]
       /\ Kind[r] \in {"sale", "void", "receive"} => \A i \in Touches(r) : Units[r][i] > 0
       /\ Kind[r] \in {"count", "edit"} => \A i \in Touches(r) : Units[r][i] >= 0
       /\ Kind[r] \notin OnLine => Undoes[r] = Null
       /\ Kind[r] \in OnLine =>
            /\ Undoes[r] \in StockRequests /\ Kind[Undoes[r]] = "sale"
            /\ \E i \in Touches(Undoes[r]) : Units[r] = [j \in {i} |-> Units[Undoes[r]][i]]

VARIABLES
  level,    \* menu_items.stock_quantity
  ledger,   \* stock_movements
  sold,     \* the sales committed
  voided,   \* the lines cancelled: <<sale, item>>
  asked,    \* the requests made so far
  work,     \* per worker: the request, where it is, what it has read
  started,  \* counts transaction starts
  \* History.
  met,      \* items on which, or on lines of which, two handlers have been at
            \* work together
  edited,   \* items whose level was typed into the menu
  revived   \* lines that a tap has taken out of "cancelled", and when

shelfVars == <<level, ledger, sold, voided, asked, work, started, met, edited, revived>>

-----------------------------------------------------------------------------
NoWork == [req |-> Null, at |-> "idle", start |-> 0, read |-> Opening]

ShelfInit ==
  /\ level = Opening
  /\ ledger = {} /\ sold = {} /\ voided = {} /\ asked = {}
  /\ work = [w \in Workers |-> NoWork]
  /\ started = 0
  /\ met = {} /\ edited = {} /\ revived = {}

Known(l) == IF l = Null THEN 0 ELSE l
Line(r)  == <<Undoes[r], CHOOSE i \in Touches(r) : TRUE>>

\* Mutant: a line can be voided whatever became of it.
Cancellable(r) == Kind[r] = "void" => Undoes[r] \in sold

\* A tap needs a line on an order, a void one that is not cancelled as far as
\* this handler can see.
Allowed(r) ==
  /\ Kind[r] \in OnLine => Undoes[r] \in sold
  /\ Kind[r] = "void" => Line(r) \notin voided

\* The handler's transaction starts, and a void or a tap reads its line.
BeginWork(w, r) ==
  /\ work[w] = NoWork
  /\ r \notin asked /\ Allowed(r) /\ Cardinality(asked) < MaxRequests
  /\ asked' = asked \union {r}
  /\ started' = started + 1
  /\ work' = [work EXCEPT ![w] =
                [req |-> r, at |-> "begun", start |-> started + 1, read |-> Opening]]
  /\ met' = met \union {i \in Touches(r) : \E v \in Workers :
                          work[v].req # Null /\ i \in Touches(work[v].req)}
  /\ UNCHANGED <<level, ledger, sold, voided, edited, revived>>

\* The SELECT of the items; nothing refreshes them afterwards.
Read(w) ==
  /\ work[w].at = "begun"
  /\ work' = [work EXCEPT ![w].at = "read", ![w].read = level]
  /\ UNCHANGED <<level, ledger, sold, voided, asked, started, met, edited, revived>>

-----------------------------------------------------------------------------
\* What a request does to one item, given the level the handler has read.

\* Adjusting, receiving and counting start to track an item, from zero; a sale
\* or a void of an item that is not tracked leaves it alone, and so does every
\* other step of a line.
StartsTracking(r) == Kind[r] \in {"adjust", "receive", "count"}
Moves(r, l) == Kind[r] \notin {"edit", "tap"} /\ (l # Null \/ StartsTracking(r))

Delta(r, i, l) == CASE Kind[r] = "sale"  -> -Units[r][i]
                    [] Kind[r] = "count" -> Units[r][i] - Known(l)
                    [] OTHER             -> Units[r][i]

\* Levels are floored at zero; the ledger keeps the delta as it was asked for.
Floor(n) == IF n < 0 THEN 0 ELSE n

After(r, i, l) == Floor(Known(l) + Delta(r, i, l))

\* What the log warns of: units of a movement that were not there.
Lacked(r, i, l) == -(IF Known(l) + Delta(r, i, l) < 0 THEN Known(l) + Delta(r, i, l) ELSE 0)

\* The value written for an item: none for one that does not move.
Target(r, i, l) == CASE Kind[r] = "edit" -> Units[r][i]
                     [] Moves(r, l)      -> After(r, i, l)
                     [] OTHER            -> l

Movements(r, start, read) ==
  {[req |-> r, item |-> i, reason |-> Reason[r], at |-> start,
    delta |-> Delta(r, i, read[i]), balance |-> After(r, i, read[i]),
    lacked |-> Lacked(r, i, read[i])] :
     i \in {j \in Touches(r) : Moves(r, read[j])}}

\* Only a level that differs from the one read is part of the UPDATE, and then
\* it overwrites whatever is there by now.
Written(r, read) ==
  [i \in Items |-> IF i \in Touches(r) /\ Target(r, i, read[i]) # read[i]
                   THEN Target(r, i, read[i]) ELSE level[i]]

\* The lines that are cancelled after a request: update_item_status writes any
\* step over any other, and restores stock only on the way into "cancelled".
VoidedAfter(r) == CASE Kind[r] = "void" -> voided \union {Line(r)}
                    [] Kind[r] = "tap"  -> voided \ {Line(r)}
                    [] OTHER            -> voided

\* The one commit of each handler.
Commit(w) ==
  LET r == work[w].req
      read == work[w].read
  IN  /\ work[w].at = "read"
      /\ level' = Written(r, read)
      /\ ledger' = ledger \union Movements(r, work[w].start, read)
      /\ sold' = IF Kind[r] = "sale" THEN sold \union {r} ELSE sold
      /\ voided' = VoidedAfter(r)
      /\ revived' = IF Kind[r] = "tap" /\ Line(r) \in voided
                    THEN revived \union {[line |-> Line(r), at |-> work[w].start]} ELSE revived
      /\ edited' = IF Kind[r] = "edit" THEN edited \union Touches(r) ELSE edited
      /\ work' = [work EXCEPT ![w] = NoWork]
      /\ UNCHANGED <<asked, started, met>>

\* The handler is refused, fails or dies: nothing of it is kept.
GivesUp(w) ==
  /\ work[w] # NoWork
  /\ work' = [work EXCEPT ![w] = NoWork]
  /\ UNCHANGED <<level, ledger, sold, voided, asked, started, met, edited, revived>>

ShelfNext == \E w \in Workers :
          Read(w) \/ Commit(w) \/ GivesUp(w) \/ \E r \in StockRequests : BeginWork(w, r)

ShelfSpec == ShelfInit /\ [][ShelfNext]_shelfVars

-----------------------------------------------------------------------------
\* The report.

Rows(i)      == {m \in ledger : m.item = i}
Total(rows)  == MapThenSumSet(LAMBDA m : m.delta, rows)

\* _last_count_at: of the venue, not of an item; 0 when there was none.
LastCountAt == Max({0} \union {m.at : m \in {n \in ledger : n.reason = "count"}})

\* Mutant: at or after.
SinceCount(i, t) == {m \in Rows(i) : m.at >= t}

\* _movements_since, strictly after.
Since(i, t) == {m \in Rows(i) : m.at > t}

\* get_variance as the router calls it, without a "since".
Variance(i) ==
  IF LastCountAt = 0 THEN 0
  ELSE Total({m \in Since(i, LastCountAt) : m.reason = "count"})

-----------------------------------------------------------------------------
Movement == [req : StockRequests, item : Items, reason : Reasons, at : Nat,
             delta : Int, balance : Nat, lacked : Nat]
Work     == [req : StockRequests \union {Null}, at : {"idle", "begun", "read"},
             start : Nat, read : [Items -> Nat \union {Null}]]

\* Levels and balances are never negative; NULL means not tracked.
ShelfTypeOK ==
  /\ level \in [Items -> Nat \union {Null}]
  /\ ledger \subseteq Movement
  /\ sold \subseteq StockRequests /\ asked \subseteq StockRequests
  /\ voided \subseteq StockRequests \X Items
  /\ work \in [Workers -> Work]
  /\ started \in Nat
  /\ met \subseteq Items /\ edited \subseteq Items
  /\ revived \subseteq [line : StockRequests \X Items, at : Nat]

\* What movements did to the shelf, by the ledger and the log: what was asked
\* for, and what the floor at zero gave back of it.
Explained(rows) == MapThenSumSet(LAMBDA m : m.delta + m.lacked, rows)

\* "The ledger still records what was asked for, so the discrepancy stays
\* visible" (stock_service.py:51-52): a level is what the menu said plus the
\* whole ledger and what the log said was not there, to the unit, unless two
\* handlers met on the item or the level was typed into the menu.
DriftNeedsCause ==
  \A i \in Items :
    \/ Known(level[i]) = Known(Opening[i]) + Explained(Rows(i))
    \/ i \in met \/ i \in edited

\* "Level after this movement, so history reads without replaying the ledger"
\* (models/stock_movement.py): the newest movement of an item, by the start of
\* its transaction, carries the level on the shelf.
HistoryReads ==
  \A i \in Items :
    Rows(i) # {} =>
      \/ \A m \in Rows(i) : (\A n \in Rows(i) : n.at <= m.at) => m.balance = level[i]
      \/ i \in met \/ i \in edited

IsVoid(m)     == m.reason = "void" /\ Kind[m.req] = "void"
Revival(l, from, to) == \E v \in revived : v.line = l /\ from < v.at /\ v.at < to

\* A void puts the stock of its line back, and a second void of that line does
\* so only after a tap has revived it in between, unless two people were at the
\* line together; and the sale of the line has taken that much, unless the item
\* was not tracked yet.
RestoredOnce ==
  \A m \in ledger : IsVoid(m) =>
    \/ /\ \A n \in ledger :
            IsVoid(n) /\ Line(n.req) = Line(m.req) /\ n # m =>
              Revival(Line(m.req), m.at, n.at) \/ Revival(Line(m.req), n.at, m.at)
       /\ \/ \E n \in ledger : n.req = Undoes[m.req] /\ n.item = m.item /\ n.delta = -m.delta
          \/ Opening[m.item] = Null
    \/ m.item \in met

\* The ledger explains the shelf: its sum, its newest balance, and a void that
\* gives back what the sale took (stock_service.py:30-73, orders.py:211-247).
LedgerExplains == DriftNeedsCause /\ HistoryReads /\ RestoredOnce

\* What the last two follow from.  A request is handled once, ...
WorkInv ==
  \A w \in Workers :
    /\ work[w].req = Null <=> work[w] = NoWork
    /\ work[w].req # Null =>
         /\ work[w].req \in asked /\ work[w].start <= started
         /\ \A m \in ledger : m.req # work[w].req
         /\ \A v \in Workers : work[v].req = work[w].req => v = w
         /\ Kind[work[w].req] \in OnLine => Undoes[work[w].req] \in sold

\* ... moves each item once, and a sale all that are tracked ...
LedgerInv ==
  /\ \A m \in ledger :
       /\ m.req \in asked /\ m.at <= started /\ m.item \in Touches(m.req)
       /\ \A n \in ledger : n.req = m.req /\ n.item = m.item => n = m
  /\ \A s \in sold :
       /\ Kind[s] = "sale"
       /\ \A i \in Touches(s) :
            \/ Opening[i] = Null
            \/ \E n \in ledger : n.req = s /\ n.item = i /\ n.delta = -Units[s][i]
  /\ \A i \in Items : Opening[i] # Null =>
       level[i] # Null /\ \A w \in Workers : work[w].read[i] # Null

\* ... a line that was voided stays so until a tap later than that ...
VoidsStand ==
  /\ \A v \in revived : v.at <= started
  /\ \A m \in ledger : IsVoid(m) /\ m.item \notin met =>
       \/ Line(m.req) \in voided
       \/ \E v \in revived : v.line = Line(m.req) /\ m.at < v.at

\* ... and a handler nobody has met on an item knows it as it is.
AloneInv ==
  \A i \in Items \ met, w \in Workers :
    work[w].req # Null /\ i \in Touches(work[w].req) =>
      /\ \A v \in Workers : work[v].req # Null /\ i \in Touches(work[v].req) => v = w
      /\ work[w].at = "read" => work[w].read[i] = level[i]
      /\ \A m \in Rows(i) : m.at < work[w].start
      /\ \A v \in revived : v.line = Line(work[w].req) => v.at < work[w].start
      /\ Kind[work[w].req] = "void" => Line(work[w].req) \notin voided

\* "Movement and variance since the last count" (routers/stock.py): the last
\* count and the movements after it add up to the shelf, item by item, so that
\* the period the report shows starts at the count and leaves nothing out.
PeriodAdds ==
  \A m \in ledger :
    Kind[m.req] = "count" /\ m.at = LastCountAt =>
      \/ Known(level[m.item]) = Units[m.req][m.item] + Explained(Since(m.item, LastCountAt))
      \/ m.item \in met \/ m.item \in edited

\* ... because each count, not only the last, is where its item starts afresh.
CountsInv ==
  \A m \in ledger :
    Kind[m.req] = "count" =>
      \/ Known(level[m.item]) = Units[m.req][m.item] + Explained(Since(m.item, m.at))
      \/ m.item \in met \/ m.item \in edited

\* "What the books say should be on the shelf, versus what was counted"
\* (get_variance): the discrepancy the last count found is on the report.
VarianceIsReported ==
  \A m \in ledger :
    Kind[m.req] = "count" /\ m.at = LastCountAt /\ m.delta # 0 => Variance(m.item) # 0
=============================================================================
