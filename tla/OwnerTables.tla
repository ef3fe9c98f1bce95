---------------------------- MODULE OwnerTables ----------------------------
(***************************************************************************)
(* The owner's tables: who covers them, where they stand, what runs on     *)
(* them.  Two owners, or one on two devices, edit the same rows; nothing   *)
(* tells a screen that a row has changed, and what it sends is put together*)
(* from the copy it has: all attendants of the table, all boxes of a form. *)
(***************************************************************************)
EXTENDS Naturals, FiniteSets

CONSTANTS
  Tables,
  Attendants,
  Zones,      \* where a table may stand
  MaxFetches, \* lists on their way at a time
  MaxSaves    \* PATCHes on their way at a time

Unzoned == "Unzoned"
Gone    == [staff |-> {}, zone |-> Unzoned]

VARIABLES
  plan,     \* the page: its lists, and what lies over them
  grid,     \* the venue: the tables that exist and their rows
  fetches,  \* lists of tables on their way
  saves,    \* PATCHes on their way
  runs,     \* the venue: tables with an unpaid order
  meant,    \* per table: what the owners have asked for
  loose     \* tables where one of them asked on a card that was behind, or to
            \* empty a box, or where a request failed

tablePlan == <<plan, grid, fetches, saves, runs, meant, loose>>

Rows   == [staff : SUBSET Attendants, zone : Zones \union {Unzoned}]
NoSheet == [kind |-> "none", table |-> "none", row |-> Gone, zone |-> Unzoned]
At(t)   == {s \in saves : s.table = t}
CanSave == Cardinality(saves) < MaxSaves

-----------------------------------------------------------------------------
\* The page.

Listed    == DOMAIN plan.tables
Uncovered == {t \in Listed : plan.tables[t].staff = {}}
ByZone    == [z \in {plan.tables[t].zone : t \in Listed} |->
                {t \in Listed : plan.tables[t].zone = z}]
\* What runs on a table is worked out from a list of orders of its own, which
\* the venue's events keep fresh.
RunningPanel(t) == IF t \in plan.running THEN "orders" ELSE "nothing running"
\* An overlay has the table's row as it was when it was opened.
Detail   == IF plan.sheet.kind = "detail"
            THEN [names |-> plan.sheet.row.staff, panel |-> RunningPanel(plan.sheet.table)]
            ELSE [names |-> {}, panel |-> "none"]
EditForm == plan.sheet.kind = "edit"
QRSheet  == plan.sheet.kind = "qr"
AddForm  == plan.adding
Cards    == IF plan.sheet.kind = "none" THEN Listed ELSE {}

Venue == UNCHANGED <<grid, runs, meant>>

Fetched == IF Cardinality(fetches) < MaxFetches THEN fetches \union {grid'} ELSE fetches

Load ==
  /\ Venue
  /\ fetches' = Fetched
  /\ plan' = [plan EXCEPT !.running = runs]
  /\ UNCHANGED <<saves, loose>>

TablesArrive(f) ==
  /\ fetches' = fetches \ {f}
  /\ plan' = [plan EXCEPT !.tables = f]
  /\ Venue /\ UNCHANGED <<saves, loose>>

\* The orders alone, on the venue's events.
LoadOrders ==
  /\ plan' = [plan EXCEPT !.running = runs]
  /\ Venue /\ UNCHANGED <<fetches, saves, loose>>

Overlay(kind, t) ==
  plan' = [plan EXCEPT !.sheet = [kind |-> kind, table |-> t, row |-> plan.tables[t],
                                  zone |-> plan.tables[t].zone]]

OpenOverlay(kind, t) ==
  /\ t \in Cards
  /\ Overlay(kind, t)
  /\ Venue /\ UNCHANGED <<fetches, saves, loose>>

\* From the detail to the code or to the form, with the copy it has.
FromDetail(kind) ==
  /\ plan.sheet.kind = "detail"
  /\ plan' = [plan EXCEPT !.sheet.kind = kind]
  /\ Venue /\ UNCHANGED <<fetches, saves, loose>>

CloseOverlay ==
  /\ plan.sheet # NoSheet
  /\ plan' = [plan EXCEPT !.sheet = NoSheet]
  /\ Venue /\ UNCHANGED <<fetches, saves, loose>>

ShowAdd ==
  /\ plan.sheet.kind = "none"
  /\ plan' = [plan EXCEPT !.adding = ~@]
  /\ Venue /\ UNCHANGED <<fetches, saves, loose>>

TypeZone(z) ==
  /\ EditForm /\ z # plan.sheet.zone
  /\ plan' = [plan EXCEPT !.sheet.zone = z]
  /\ Venue /\ UNCHANGED <<fetches, saves, loose>>

-----------------------------------------------------------------------------
\* Requests.

\* Mutant: a second tap does not take the attendant off.
OnlyAdds(current, s) == current \union {s}
Toggled(current, s) == IF s \in current THEN current \ {s} ELSE current \union {s}

\* The request names everybody who is to cover the table.
ToggleAttendant(t, s) ==
  /\ t \in Cards /\ CanSave
  /\ saves' = saves \union {[kind |-> "staff", table |-> t,
                             value |-> Toggled(plan.tables[t].staff, s)]}
  /\ meant' = [meant EXCEPT ![t].staff = IF s \in plan.tables[t].staff THEN @ \ {s} ELSE @ \union {s}]
  /\ loose' = IF At(t) # {} \/ t \notin DOMAIN grid \/ plan.tables[t].staff # grid[t].staff
              THEN loose \union {t} ELSE loose
  /\ UNCHANGED <<plan, grid, fetches, runs>>

\* All boxes are sent, as they are; an empty one as nothing.
SaveEdit ==
  /\ EditForm /\ CanSave
  /\ LET t == plan.sheet.table
         z == plan.sheet.zone
     IN  /\ saves' = saves \union {[kind |-> "zone", table |-> t, value |-> z]}
         /\ meant' = [meant EXCEPT ![t].zone = IF z # plan.sheet.row.zone THEN z ELSE @]
         /\ loose' = IF \/ At(t) # {} \/ t \notin DOMAIN grid
                        \/ plan.sheet.row.zone # grid[t].zone
                        \/ z = Unzoned /\ plan.sheet.row.zone # Unzoned
                     THEN loose \union {t} ELSE loose
  /\ plan' = [plan EXCEPT !.sheet = NoSheet]
  /\ UNCHANGED <<grid, fetches, runs>>

\* update_table leaves out what is empty; assign-multi replaces the list.
Written(row, s) ==
  IF s.kind = "staff" THEN [row EXCEPT !.staff = s.value]
  ELSE IF s.value = Unzoned THEN row ELSE [row EXCEPT !.zone = s.value]

SaveServed(s) ==
  /\ s.table \in DOMAIN grid
  /\ saves' = saves \ {s}
  /\ grid' = [grid EXCEPT ![s.table] = Written(@, s)]
  /\ fetches' = Fetched
  /\ plan' = [plan EXCEPT !.running = runs]
  /\ UNCHANGED <<runs, meant, loose>>

\* The network, or the table is not there any more.
SaveFails(s) ==
  /\ saves' = saves \ {s}
  /\ loose' = loose \union {s.table}
  /\ Venue /\ UNCHANGED <<plan, fetches>>

CreateTable(t) ==
  /\ AddForm /\ t \notin DOMAIN grid /\ At(t) = {}
  /\ grid' = [u \in DOMAIN grid \union {t} |-> IF u = t THEN Gone ELSE grid[u]]
  /\ meant' = [meant EXCEPT ![t] = Gone]
  /\ plan' = [plan EXCEPT !.adding = FALSE, !.running = runs]
  /\ fetches' = Fetched
  /\ UNCHANGED <<saves, runs, loose>>

\* The row goes, whatever runs on the table: its orders are then at no table.
Deactivate(t) ==
  /\ t \in Cards \intersect DOMAIN grid
  /\ grid' = [u \in DOMAIN grid \ {t} |-> grid[u]]
  /\ runs' = runs \ {t}
  /\ loose' = loose \union {t}
  /\ plan' = [plan EXCEPT !.running = runs']
  /\ fetches' = Fetched
  /\ UNCHANGED <<saves, meant>>

-----------------------------------------------------------------------------
\* The other device, and the guests.

CoveredElsewhere(t, staff) ==
  /\ t \in DOMAIN grid
  /\ grid' = [grid EXCEPT ![t].staff = staff]
  /\ meant' = [meant EXCEPT ![t].staff = staff]
  /\ loose' = IF At(t) # {} THEN loose \union {t} ELSE loose
  /\ UNCHANGED <<plan, fetches, saves, runs>>

FloorMoves(t) ==
  /\ t \in DOMAIN grid
  /\ runs' = IF t \in runs THEN runs \ {t} ELSE runs \union {t}
  /\ UNCHANGED <<plan, grid, fetches, saves, meant, loose>>

TablesInit ==
  /\ grid = [t \in Tables |-> Gone]
  /\ plan = [tables |-> <<>>, running |-> {}, adding |-> FALSE, sheet |-> NoSheet]
  /\ fetches = {} /\ saves = {} /\ runs = {} /\ loose = {}
  /\ meant = grid

TablesNext ==
  \/ Load \/ LoadOrders \/ CloseOverlay \/ ShowAdd \/ SaveEdit
  \/ \E f \in fetches : TablesArrive(f)
  \/ \E k \in {"detail", "edit", "qr"}, t \in Tables : OpenOverlay(k, t)
  \/ \E k \in {"edit", "qr"} : FromDetail(k)
  \/ \E z \in Zones \union {Unzoned} : TypeZone(z)
  \/ \E t \in Tables, s \in Attendants : ToggleAttendant(t, s)
  \/ \E s \in saves : SaveServed(s) \/ SaveFails(s)
  \/ \E t \in Tables : CreateTable(t) \/ Deactivate(t) \/ FloorMoves(t)
  \/ \E t \in Tables, staff \in SUBSET Attendants : CoveredElsewhere(t, staff)

TablesSpec == TablesInit /\ [][TablesNext]_tablePlan

-----------------------------------------------------------------------------
\* With nothing on its way, a table is covered by whom the owners put there and
\* stands where they put it, unless one of them asked on a card that was behind
\* or beside another request, emptied the box of the zone, or was not served.
TableIsAsMeant ==
  \A t \in DOMAIN grid \ loose : At(t) = {} => grid[t] = meant[t]

\* Why: while nobody was careless with a table there is at most one request for
\* it, and what that will write is what was asked for.
TablesTypeOK ==
  /\ DOMAIN plan = {"tables", "running", "adding", "sheet"}
  /\ DOMAIN plan.sheet = DOMAIN NoSheet
  /\ plan.sheet.kind # "none" => plan.sheet.table \in Tables
  /\ DOMAIN grid \subseteq Tables /\ DOMAIN meant = Tables
  /\ \A t \in DOMAIN grid : grid[t] = [staff |-> grid[t].staff, zone |-> grid[t].zone]
  /\ \A s \in saves : s = [kind |-> s.kind, table |-> s.table, value |-> s.value]
OneSave ==
  \A t \in DOMAIN grid \ loose :
    /\ \A s, r \in At(t) : s = r
    /\ \A s \in At(t) : Written(grid[t], s) = meant[t]
TablesInv == TablesTypeOK /\ OneSave /\ TableIsAsMeant
=============================================================================
