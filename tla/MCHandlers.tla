----------------------------- MODULE MCHandlers ------------------------------
(***************************************************************************)
(* Three services whose handlers overlap, each by itself: the door, the    *)
(* stock of a beer that is tracked from the start and of a wine that is    *)
(* not yet, and two rounds of one guest with a tap of a station.  They     *)
(* share no state, so that a behaviour picks one of them at the start and  *)
(* the others stay as they are; the workers are the same ones.             *)
(***************************************************************************)
EXTENDS ExitDoor, StockLedger, OrderIntake, TLC

CONSTANT Shown \* the services to look into

VARIABLE which \* the service of this behaviour

\* Two sales, voids of their lines, a station's tap on one, a delivery, an
\* adjustment, a count, and a level that is typed into the menu.
KindOf == [r \in StockRequests |->
  CASE r \in {"round", "glass"}            -> "sale"
    [] r \in {"void", "revoid", "unglass"} -> "void"
    [] r = "serve"     -> "tap"
    [] r = "crate"     -> "receive"
    [] r = "waste"     -> "adjust"
    [] r = "stocktake" -> "count"
    [] r = "typed"     -> "edit"]
ReasonOf == [r \in StockRequests |->
  CASE KindOf[r] = "receive" -> "restock"
    [] KindOf[r] = "adjust"  -> "waste"
    [] KindOf[r] \in {"edit", "tap"} -> "adjustment"
    [] OTHER                 -> KindOf[r]]
UnitsOf == [r \in StockRequests |->
  CASE r = "round"     -> [i \in {"beer", "wine"} |-> IF i = "beer" THEN 3 ELSE 1]
    [] r \in {"glass", "unglass", "revoid", "serve", "stocktake"} -> [i \in {"beer"} |-> 1]
    [] r = "void"      -> [i \in {"wine"} |-> 1]
    [] r = "crate"     -> [i \in {"beer", "wine"} |-> 2]
    [] r = "waste"     -> [i \in {"wine"} |-> -1]
    [] r = "typed"     -> [i \in {"wine"} |-> 4]]
UndoesOf == [r \in StockRequests |->
  CASE r = "void" -> "round" [] r \in {"unglass", "revoid", "serve"} -> "glass" [] OTHER -> Null]

AtFirst == [i \in Items |-> IF i = "beer" THEN 2 ELSE Null]
OfGuest == [r \in Rounds |-> "s1"]
OfLine  == [t \in Taps |-> "l1"]

ASSUME ShelfRequests == StockConstants

OneInit ==
  /\ which \in Shown
  /\ DoorInit /\ ShelfInit /\ Init

OneNext ==
  /\ UNCHANGED which
  /\ \/ which = "door" /\ DoorNext /\ UNCHANGED <<shelfVars, vars>>
     \/ which = "shelf" /\ ShelfNext /\ UNCHANGED <<doorVars, vars>>
     \/ which = "guest" /\ Next /\ UNCHANGED <<doorVars, shelfVars>>

OneSpec == OneInit /\ [][OneNext]_<<which, doorVars, shelfVars, vars>>

\* Passes and workers are interchangeable in all three.
Doors == Permutations(Passes) \union Permutations(Workers)
=============================================================================
