------------------------- MODULE HouseScreensProofs -------------------------
(***************************************************************************)
(* Proofs about the screens of the house, for any number of orders, taps,  *)
(* tables, people, PINs, shifts, requests and promos: the cashier's till,  *)
(* the stations' tickets, the owner's tables and staff, signing in on a    *)
(* shared tablet, the shifts, and the price a night's promos give.         *)
(*                                                                         *)
(* Each part has an invariant of its module, stated there beside the       *)
(* property and why it is needed, and three lemmas about it: it holds at   *)
(* the start, every step of the screen keeps it, and it implies the        *)
(* property.  The theorem that follows is about Screens, where a step of   *)
(* another screen leaves this one as it is.                                *)
(***************************************************************************)
EXTENDS Screens, SequenceTheorems, Sums

-----------------------------------------------------------------------------
\* The cashier's till.
\* The till: a tick covers one cash payment and the slips made on it.
LEMMA TillStart == Cashier!TillInit => Cashier!TillInv
  BY DEF Cashier!TillInit, Cashier!TillInv, Cashier!TillTypeOK, Cashier!OneUnderWay,
     Cashier!NoCall, Cashier!NoOrder

LEMMA TillStep ==
  Cashier!TillInv /\ (Cashier!TillNext \/ UNCHANGED Cashier!cashDesk) => Cashier!TillInv'
<1> SUFFICES ASSUME Cashier!TillInv, Cashier!TillNext \/ UNCHANGED Cashier!cashDesk
             PROVE Cashier!TillInv'
  OBVIOUS
<1> USE DEF Cashier!TillInv, Cashier!TillTypeOK, Cashier!OneUnderWay
\* A step that leaves the calls and the panel alone keeps the count or resets it.
<1>1. ASSUME DOMAIN till' = DOMAIN till, UNCHANGED posted,
             till'.timers = till.timers, till'.done = till.done,
             \/ UNCHANGED <<onTick, slips>>
             \/ onTick' = 0 /\ slips' = 0
      PROVE  Cashier!TillInv'
  BY <1>1
<1>2. ASSUME Cashier!OrderChanges \/ Cashier!LoadOrders PROVE Cashier!TillInv'
  BY <1>1, <1>2 DEF Cashier!OrderChanges, Cashier!LoadOrders
<1>3. ASSUME Cashier!TickCash PROVE Cashier!TillInv'
  BY <1>1, <1>3 DEF Cashier!TickCash
<1>4. ASSUME Cashier!TypeReference PROVE Cashier!TillInv'
  BY <1>1, <1>4 DEF Cashier!TypeReference
<1>5. ASSUME Cashier!Cancel PROVE Cashier!TillInv'
  BY <1>1, <1>5 DEF Cashier!Cancel, Cashier!Cleared
<1>6. ASSUME NEW m \in Cashier!Methods, Cashier!ChooseMethod(m) PROVE Cashier!TillInv'
  BY <1>1, <1>6 DEF Cashier!ChooseMethod
<1>7. ASSUME NEW o \in NightOrders, Cashier!SelectOrder(o) PROVE Cashier!TillInv'
  <2>1. /\ DOMAIN till' = DOMAIN till /\ till'.timers = till.timers /\ till'.done = FALSE
        /\ UNCHANGED <<posted, onTick>>
    BY <1>7 DEF Cashier!SelectOrder
  <2>2. CASE till.done
    <3>1. slips' = slips + 1
      BY <1>7, <2>2 DEF Cashier!SelectOrder, Cashier!RecordedPanel
    <3>2. onTick <= slips + 1
      BY <2>2
    <3>3. slips' \in Nat /\ onTick' <= slips' /\ onTick' <= slips' + 1
      BY <2>1, <3>1, <3>2
    <3> QED BY <2>1, <3>1, <3>3
  <2>3. CASE ~till.done
    <3>1. slips' = slips
      BY <1>7, <2>3 DEF Cashier!SelectOrder, Cashier!RecordedPanel
    <3> QED BY <2>1, <2>3, <3>1
  <2> QED BY <2>2, <2>3
<1>8. ASSUME Cashier!ProcessPayment PROVE Cashier!TillInv'
  <2>1. ~till.done /\ posted = Cashier!NoCall
    BY <1>8 DEF Cashier!ProcessPayment, Cashier!ConfirmButton, Cashier!Form
  <2>2. posted.taken = FALSE
    BY <2>1 DEF Cashier!NoCall
  <2>3. onTick <= slips
    BY <2>1, <2>2
  <2>4. /\ DOMAIN posted' = {"order", "amount", "method", "taken"} /\ posted'.taken = FALSE
        /\ UNCHANGED <<till, onTick, slips>>
    BY <1>8 DEF Cashier!ProcessPayment
  <2> QED BY <2>1, <2>3, <2>4
<1>9. ASSUME Cashier!PaymentTaken PROVE Cashier!TillInv'
  <2>1. /\ ~till.done /\ posted.taken = FALSE /\ onTick <= slips
    BY <1>9 DEF Cashier!PaymentTaken
  <2>2. /\ DOMAIN posted' = DOMAIN posted /\ posted'.taken = TRUE
        /\ posted'.method = posted.method /\ UNCHANGED <<till, slips>>
    BY <1>9 DEF Cashier!PaymentTaken
  <2>3. onTick' = IF posted.method = "cash" THEN onTick + 1 ELSE onTick
    BY <1>9 DEF Cashier!PaymentTaken
  <2>4. onTick' \in Nat /\ onTick' <= slips + 1
    BY <2>1, <2>3
  <2>5. posted.method # "cash" => onTick' <= slips
    BY <2>1, <2>3
  <2>6. ~(posted'.taken /\ posted'.method = "cash") => onTick' <= slips'
    BY <2>2, <2>5
  <2> QED BY <2>1, <2>2, <2>4, <2>6
<1>10. ASSUME Cashier!PaymentRecorded PROVE Cashier!TillInv'
  <2>1. /\ DOMAIN till' = DOMAIN till /\ till'.done = TRUE /\ till'.timers = till.timers + 1
        /\ posted.taken = TRUE /\ posted' = Cashier!NoCall /\ UNCHANGED <<onTick, slips>>
    BY <1>10 DEF Cashier!PaymentRecorded
  <2>2. onTick <= slips + 1 /\ till.timers + 1 \in Nat
    BY <2>1
  <2>3. posted'.taken = FALSE /\ DOMAIN posted' = {"order", "amount", "method", "taken"}
    BY <2>1 DEF Cashier!NoCall
  <2>4. Cashier!TillTypeOK'
    BY <2>1, <2>2, <2>3
  <2>5. onTick' <= slips' + 1
    BY <2>1, <2>2
  <2>6. Cashier!OneUnderWay'
    BY <2>1, <2>5
  <2> QED BY <2>4, <2>6
<1>11. ASSUME Cashier!PaymentFails PROVE Cashier!TillInv'
  <2>1. ~till.done /\ posted' = Cashier!NoCall /\ UNCHANGED <<till, onTick>>
    BY <1>11 DEF Cashier!PaymentFails
  <2>2. slips' = IF posted.taken /\ posted.method = "cash" THEN slips + 1 ELSE slips
    BY <1>11 DEF Cashier!PaymentFails
  <2>3. onTick <= slips'
    BY <2>1, <2>2
  <2> QED BY <2>1, <2>2, <2>3 DEF Cashier!NoCall
<1>12. ASSUME Cashier!TimerFires PROVE Cashier!TillInv'
  <2>1. /\ DOMAIN till' = DOMAIN till /\ till'.timers = till.timers - 1 /\ till'.ticked = FALSE
        /\ till'.done = FALSE /\ UNCHANGED posted /\ till.timers > 0
    BY <1>12 DEF Cashier!TimerFires, Cashier!Wiped, Cashier!Cleared
  <2>2. onTick' = 0 /\ slips' = 0
    BY <1>12, <2>1 DEF Cashier!TimerFires
  <2>3. posted.taken \in BOOLEAN /\ till'.timers \in Nat
    BY <2>1
  <2>4. Cashier!TillTypeOK'
    BY <2>1, <2>2, <2>3
  <2>5. onTick' <= slips' /\ onTick' <= slips' + 1
    BY <2>2
  <2>6. Cashier!OneUnderWay'
    BY <2>1, <2>5
  <2> QED BY <2>4, <2>6
<1>13. ASSUME UNCHANGED Cashier!cashDesk PROVE Cashier!TillInv'
  BY <1>1, <1>13 DEF Cashier!cashDesk
<1> QED BY <1>2, <1>3, <1>4, <1>5, <1>6, <1>7, <1>8, <1>9, <1>10, <1>11, <1>12, <1>13
        DEF Cashier!TillNext

LEMMA TillSafe == Cashier!TillInv => Cashier!TickCoversOnePayment
  BY DEF Cashier!TillInv, Cashier!TillTypeOK, Cashier!OneUnderWay,
     Cashier!TickCoversOnePayment

\* For any queue: a tick of "cash received" covers one cash payment, and one more
\* for every recorded payment left too soon and every answer that was lost
\* (cashier page:123-144).
THEOREM OneTickOnePayment == Spec => []TickCoversOnePayment
<1>1. Init => Cashier!TillInv
  BY TillStart DEF Init
<1>2. Cashier!TillInv /\ [Next]_vars => Cashier!TillInv'
  <2> SUFFICES ASSUME Cashier!TillInv, [Next]_vars PROVE Cashier!TillInv'
    OBVIOUS
  <2>1. Cashier!TillNext \/ UNCHANGED Cashier!cashDesk
    BY DEF Next, Only, vars, cashierVars, Cashier!cashDesk
  <2> QED BY <2>1, TillStep
<1>3. Cashier!TillInv => TickCoversOnePayment
  BY TillSafe DEF TickCoversOnePayment
<1> QED BY <1>1, <1>2, <1>3, PTL DEF Spec

-----------------------------------------------------------------------------
\* The tickets of a station.
\* The first tap of a queue is all of it.
LEMMA FirstOfQueue == ASSUME NEW S, NEW x \in S PROVE Append(<<>>, x) = <<x>>
<1>1. <<>> \in Seq(S) /\ <<x>> \in Seq(S)
  OBVIOUS
<1>2. Append(<<>>, x) = <<>> \o <<x>>
  BY <1>1, AppendIsConcat
<1> QED BY <1>1, <1>2, ConcatEmptySeq

LEMMA StationStart == Ticket!StationInit => Ticket!StationInv
  BY DEF Ticket!StationInit, Ticket!StationInv, Ticket!StationTypeOK, Ticket!OneTap,
     Ticket!Moves, Ticket!Steps

LEMMA StationTap ==
  ASSUME Ticket!StationInv, NEW s \in Screens, NEW m \in Ticket!Moves, m = shows[s] + 1,
         Ticket!Mark(s, m)
  PROVE  Ticket!StationInv'
<1> USE DEF Ticket!StationInv, Ticket!StationTypeOK
<1>1. Ticket!StationTypeOK'
  <2>1. UNCHANGED <<shows, step>> /\ taps' \in Nat
    BY DEF Ticket!Mark
  <2>2. queue' \in [Screens -> Seq(Ticket!Moves)]
    <3>1. CASE queue' = [queue EXCEPT ![s] = Append(@, m)]
      <4>1. Append(queue[s], m) \in Seq(Ticket!Moves)
        OBVIOUS
      <4> QED BY <3>1, <4>1
    <3> QED BY <3>1 DEF Ticket!Mark
  <2>3. \A c \in stationCalls' : c \in [tap : Nat, screen : Screens, to : Ticket!Moves]
    BY DEF Ticket!Mark
  <2> QED BY <2>1, <2>2, <2>3
<1>2. ASSUME ~hurried' PROVE Ticket!OneTap'
  <2>1. ~hurried /\ stationCalls = {} /\ (\A t \in Screens : queue[t] = <<>>) /\ shows[s] = step
          /\ step' = step
    BY <1>2 DEF Ticket!Mark, Ticket!Outstanding
  <2>2. CASE stationCalls' = stationCalls \union {[tap |-> taps + 1, screen |-> s, to |-> m]}
               /\ UNCHANGED queue
    <3> DEFINE tap == [tap |-> taps + 1, screen |-> s, to |-> m]
    <3>1. tap.to = step + 1
      BY <2>1
    <3> HIDE DEF tap
    <3>2. stationCalls' = {tap}
      BY <2>1, <2>2 DEF tap
    <3> QED BY <2>1, <2>2, <3>1, <3>2 DEF Ticket!OneTap
  <2>3. CASE queue' = [queue EXCEPT ![s] = Append(@, m)] /\ UNCHANGED stationCalls
    <3>1. queue'[s] = <<step + 1>> /\ \A t \in Screens : t # s => queue'[t] = <<>>
      <4>1. Append(queue[s], m) = <<step + 1>>
        BY <2>1, FirstOfQueue
      <4> QED BY <2>1, <2>3, <4>1
    <3> QED BY <2>1, <2>3, <3>1 DEF Ticket!OneTap
  <2> QED BY <2>2, <2>3 DEF Ticket!Mark
<1> QED BY <1>1, <1>2 DEF Ticket!OneTap

LEMMA StationStep ==
  Ticket!StationInv /\ (Ticket!StationNext \/ UNCHANGED Ticket!stations) => Ticket!StationInv'
<1> SUFFICES ASSUME Ticket!StationInv, Ticket!StationNext \/ UNCHANGED Ticket!stations
             PROVE Ticket!StationInv'
  OBVIOUS
<1> USE DEF Ticket!StationInv, Ticket!StationTypeOK
<1>1. ASSUME NEW s \in Screens, Ticket!MarkPreparing(s) \/ Ticket!MarkReady(s)
               \/ Ticket!MarkDelivered(s)
      PROVE  Ticket!StationInv'
  <2>1. PICK m \in 2 .. 4 : m \in Ticket!BarTicket(s) /\ Ticket!Mark(s, m)
    BY <1>1 DEF Ticket!MarkPreparing, Ticket!MarkReady, Ticket!MarkDelivered
  <2>2. m = shows[s] + 1 /\ m \in Ticket!Moves
    BY <2>1 DEF Ticket!BarTicket, Ticket!Moves, Ticket!Steps
  <2> QED BY <2>1, <2>2, StationTap
<1>2. ASSUME NEW s \in Screens, Ticket!LoadOrders(s) PROVE Ticket!StationInv'
  BY <1>2 DEF Ticket!LoadOrders, Ticket!OneTap
<1>3. ASSUME NEW s \in Screens, Ticket!Flushed(s) PROVE Ticket!StationInv'
  <2>1. queue[s] \in Seq(Ticket!Moves) /\ queue[s] # <<>>
          /\ queue' = [queue EXCEPT ![s] = Tail(queue[s])]
        /\ step' = Head(queue[s]) /\ UNCHANGED <<shows, stationCalls, taps, hurried>>
    BY <1>3 DEF Ticket!Flushed, Ticket!Apply
  <2>2. step' \in 1 .. 4
    BY <2>1 DEF Ticket!Moves, Ticket!Steps
  <2>3. Ticket!StationTypeOK'
    BY <2>1, <2>2
  <2>4. ASSUME ~hurried PROVE Ticket!OneTap'
    <3>1. queue[s] = <<step + 1>> /\ (\A t \in Screens : queue[t] # <<>> => t = s)
      BY <2>1, <2>4 DEF Ticket!OneTap
    <3>2. \A t \in Screens : queue'[t] = <<>>
      BY <2>1, <3>1
    <3>3. stationCalls = {}
      BY <2>1, <2>4 DEF Ticket!OneTap
    <3> QED BY <2>1, <3>2, <3>3 DEF Ticket!OneTap
  <2> QED BY <2>1, <2>3, <2>4 DEF Ticket!OneTap
<1>4. ASSUME NEW c \in stationCalls, Ticket!Served(c) PROVE Ticket!StationInv'
  <2>1. stationCalls' = stationCalls \ {c} /\ step' = c.to /\ UNCHANGED <<shows, queue, taps,
          hurried>>
    BY <1>4 DEF Ticket!Served, Ticket!Apply
  <2>2. Ticket!StationTypeOK'
    BY <2>1 DEF Ticket!Moves, Ticket!Steps
  <2>3. ASSUME ~hurried PROVE Ticket!OneTap'
    <3>1. stationCalls' = {} /\ \A t \in Screens : queue'[t] = <<>>
      BY <2>1, <2>3 DEF Ticket!OneTap
    <3> QED BY <3>1 DEF Ticket!OneTap
  <2> QED BY <2>1, <2>2, <2>3 DEF Ticket!OneTap
<1>5. ASSUME NEW c \in stationCalls, Ticket!Fails(c) PROVE Ticket!StationInv'
  <2>1. stationCalls' = stationCalls \ {c} /\ queue' = [queue EXCEPT ![c.screen] = Append(@, c.to)]
        /\ UNCHANGED <<shows, step, taps, hurried>> /\ c.screen \in Screens /\ c.to \in Ticket!Moves
    BY <1>5 DEF Ticket!Fails
  <2>2. Ticket!StationTypeOK'
    BY <2>1
  <2>3. ASSUME ~hurried PROVE Ticket!OneTap'
    <3>1. stationCalls' = {} /\ c.to = step + 1 /\ \A t \in Screens : queue[t] = <<>>
      BY <2>1, <2>3 DEF Ticket!OneTap
    <3>2. queue'[c.screen] = <<step' + 1>> /\ \A t \in Screens : t # c.screen => queue'[t] = <<>>
      <4>1. Append(queue[c.screen], c.to) = <<step + 1>>
        BY <2>1, <3>1, FirstOfQueue
      <4> QED BY <2>1, <3>1, <4>1
    <3> QED BY <2>1, <3>1, <3>2 DEF Ticket!OneTap
  <2> QED BY <2>1, <2>2, <2>3 DEF Ticket!OneTap
<1>6. ASSUME UNCHANGED Ticket!stations PROVE Ticket!StationInv'
  BY <1>6 DEF Ticket!stations, Ticket!OneTap
<1> QED BY <1>1, <1>2, <1>3, <1>4, <1>5, <1>6 DEF Ticket!StationNext

LEMMA StationForward ==
  Ticket!StationInv
    /\ (Ticket!StationNext \/ UNCHANGED Ticket!stations) => (step' < step => hurried)
<1> SUFFICES ASSUME Ticket!StationInv, Ticket!StationNext \/ UNCHANGED Ticket!stations, ~hurried
             PROVE ~(step' < step)
  OBVIOUS
<1> USE DEF Ticket!StationInv, Ticket!StationTypeOK
<1>1. ASSUME NEW s \in Screens, Ticket!Flushed(s) PROVE ~(step' < step)
  <2>1. queue[s] # <<>> /\ step' = Head(queue[s])
    BY <1>1 DEF Ticket!Flushed, Ticket!Apply
  <2>2. queue[s] = <<step + 1>>
    BY <2>1 DEF Ticket!OneTap
  <2> QED BY <2>1, <2>2
<1>2. ASSUME NEW c \in stationCalls, Ticket!Served(c) PROVE ~(step' < step)
  <2>1. step' = c.to /\ c.to = step + 1
    BY <1>2 DEF Ticket!Served, Ticket!Apply, Ticket!OneTap
  <2> QED BY <2>1
<1>3. ASSUME step' = step PROVE ~(step' < step)
  BY <1>3
<1>4. ASSUME NEW s \in Screens, Ticket!MarkPreparing(s) \/ Ticket!MarkReady(s)
               \/ Ticket!MarkDelivered(s) \/ Ticket!LoadOrders(s)
      PROVE step' = step
  BY <1>4 DEF Ticket!MarkPreparing, Ticket!MarkReady, Ticket!MarkDelivered, Ticket!LoadOrders,
     Ticket!Mark
<1>5. ASSUME NEW c \in stationCalls, Ticket!Fails(c) PROVE step' = step
  BY <1>5 DEF Ticket!Fails
<1>6. UNCHANGED Ticket!stations => step' = step
  BY DEF Ticket!stations
<1> QED BY <1>1, <1>2, <1>3, <1>4, <1>5, <1>6 DEF Ticket!StationNext

\* For any stations and taps: a ticket line goes backwards only by taps made in a
\* hurry (useOffline.tsx:85).
THEOREM TicketsGoForward == Spec => BackwardsNeedsHurry
<1>1. Init => Ticket!StationInv
  BY StationStart DEF Init
<1>2. [Next]_vars => Ticket!StationNext \/ UNCHANGED Ticket!stations
  BY DEF Next, Only, vars, ticketVars, Ticket!stations
<1>3. Ticket!StationInv /\ [Next]_vars => Ticket!StationInv'
  BY <1>2, StationStep
<1>4. Ticket!StationInv /\ [Next]_vars => [step' < step => hurried]_Ticket!stations
  BY <1>2, StationForward
<1> QED BY <1>1, <1>3, <1>4, PTL DEF Spec, BackwardsNeedsHurry, Ticket!BackwardsNeedsHurry

-----------------------------------------------------------------------------
\* The owner's page of tables.
LEMMA TablesStart == Plan!TablesInit => Plan!TablesInv
<1> SUFFICES ASSUME Plan!TablesInit PROVE Plan!TablesInv
  OBVIOUS
<1>1. /\ grid = [t \in ServiceTables |-> Plan!Gone] /\ saves = {} /\ meant = grid
      /\ plan = [tables |-> <<>>, running |-> {}, adding |-> FALSE, sheet |-> Plan!NoSheet]
  BY DEF Plan!TablesInit
<1>2. DOMAIN plan = {"tables", "running", "adding", "sheet"} /\ plan.sheet = Plan!NoSheet
  BY <1>1
<1>3. Plan!Gone = [staff |-> Plan!Gone.staff, zone |-> Plan!Gone.zone] /\ plan.sheet.kind = "none"
  BY <1>2 DEF Plan!Gone, Plan!NoSheet
<1>4. Plan!TablesTypeOK
  BY <1>1, <1>2, <1>3 DEF Plan!TablesTypeOK
<1>5. Plan!OneSave /\ Plan!TableIsAsMeant
  BY <1>1 DEF Plan!OneSave, Plan!TableIsAsMeant, Plan!At
<1> QED BY <1>4, <1>5 DEF Plan!TablesInv

\* The page alone.
LEMMA TablesOnPage ==
  ASSUME Plan!TablesInv, UNCHANGED <<grid, saves, meant, loose>>, DOMAIN plan' = DOMAIN plan,
         DOMAIN plan'.sheet = DOMAIN Plan!NoSheet,
         plan'.sheet.kind # "none" => plan'.sheet.table \in ServiceTables
  PROVE  Plan!TablesInv'
<1>1. Plan!TablesTypeOK'
  BY DEF Plan!TablesInv, Plan!TablesTypeOK
<1>2. \A t : Plan!At(t)' = Plan!At(t)
  BY DEF Plan!At
<1>3. Plan!OneSave' /\ Plan!TableIsAsMeant'
  BY <1>2 DEF Plan!TablesInv, Plan!OneSave, Plan!TableIsAsMeant
<1> QED BY <1>1, <1>3 DEF Plan!TablesInv

\* One table's row, its request or what is meant for it.
LEMMA OneTable ==
  ASSUME Plan!TablesInv, Plan!TablesTypeOK', NEW u \in ServiceTables,
         \A t \in ServiceTables \ {u} :
           /\ t \in DOMAIN grid' <=> t \in DOMAIN grid
           /\ t \in DOMAIN grid => grid'[t] = grid[t]
           /\ meant'[t] = meant[t]
           /\ Plan!At(t)' = Plan!At(t),
         loose \subseteq loose',
         u \in DOMAIN grid' \ loose' =>
           /\ \A s, r \in Plan!At(u)' : s = r
           /\ \A s \in Plan!At(u)' : Plan!Written(grid'[u], s) = meant'[u]
           /\ Plan!At(u)' = {} => grid'[u] = meant'[u]
  PROVE  Plan!TablesInv'
<1>1. ASSUME NEW t \in DOMAIN grid' \ loose'
      PROVE  /\ \A s, r \in Plan!At(t)' : s = r
             /\ \A s \in Plan!At(t)' : Plan!Written(grid'[t], s) = meant'[t]
             /\ Plan!At(t)' = {} => grid'[t] = meant'[t]
  <2>1. t \in ServiceTables
    BY DEF Plan!TablesTypeOK
  <2>2. CASE t = u
    BY <2>2
  <2>3. CASE t # u
    BY <2>1, <2>3 DEF Plan!TablesInv, Plan!OneSave, Plan!TableIsAsMeant
  <2> QED BY <2>2, <2>3
<1>2. Plan!OneSave'
  BY <1>1 DEF Plan!OneSave
<1>3. Plan!TableIsAsMeant'
  BY <1>1 DEF Plan!TableIsAsMeant
<1> QED BY <1>2, <1>3 DEF Plan!TablesInv

LEMMA TablesStep ==
  Plan!TablesInv /\ (Plan!TablesNext \/ UNCHANGED Plan!tablePlan) => Plan!TablesInv'
<1> SUFFICES ASSUME Plan!TablesInv, Plan!TablesNext \/ UNCHANGED Plan!tablePlan
             PROVE Plan!TablesInv'
  OBVIOUS
<1>0. /\ Plan!TablesTypeOK /\ DOMAIN plan = {"tables", "running", "adding", "sheet"}
      /\ DOMAIN plan.sheet = DOMAIN Plan!NoSheet
      /\ plan.sheet.kind # "none" => plan.sheet.table \in ServiceTables
      /\ DOMAIN Plan!NoSheet = {"kind", "table", "row", "zone"}
  BY DEF Plan!TablesInv, Plan!TablesTypeOK, Plan!NoSheet
<1>1. ASSUME Plan!Load \/ Plan!LoadOrders \/ Plan!CloseOverlay \/ Plan!ShowAdd
      PROVE Plan!TablesInv'
  <2>1. UNCHANGED <<grid, saves, meant, loose>>
    BY <1>1 DEF Plan!Load, Plan!LoadOrders, Plan!CloseOverlay, Plan!ShowAdd, Plan!Venue
  <2>2. \/ plan' = [plan EXCEPT !.running = runs] \/ plan' = [plan EXCEPT !.sheet = Plan!NoSheet]
        \/ plan' = [plan EXCEPT !.adding = ~plan.adding]
    BY <1>1 DEF Plan!Load, Plan!LoadOrders, Plan!CloseOverlay, Plan!ShowAdd
  <2>3. DOMAIN plan' = DOMAIN plan /\ plan'.sheet \in {plan.sheet, Plan!NoSheet}
    BY <1>0, <2>2
  <2>4. DOMAIN plan'.sheet = DOMAIN Plan!NoSheet
          /\ (plan'.sheet.kind # "none" => plan'.sheet.table \in ServiceTables)
    BY <1>0, <2>3 DEF Plan!NoSheet
  <2> QED BY <2>1, <2>3, <2>4, TablesOnPage
<1>2. ASSUME NEW f \in fetches, Plan!TablesArrive(f) PROVE Plan!TablesInv'
  <2>1. UNCHANGED <<grid, saves, meant, loose>> /\ plan' = [plan EXCEPT !.tables = f]
    BY <1>2 DEF Plan!TablesArrive, Plan!Venue
  <2>2. DOMAIN plan' = DOMAIN plan /\ plan'.sheet = plan.sheet
    BY <1>0, <2>1
  <2> QED BY <1>0, <2>1, <2>2, TablesOnPage
<1>3. ASSUME NEW k, NEW t \in ServiceTables, Plan!OpenOverlay(k, t) PROVE Plan!TablesInv'
  <2> DEFINE over == [kind |-> k, table |-> t, row |-> plan.tables[t], zone |-> plan.tables[t].zone]
  <2>1. UNCHANGED <<grid, saves, meant, loose>> /\ plan' = [plan EXCEPT !.sheet = over]
    BY <1>3 DEF Plan!OpenOverlay, Plan!Overlay, Plan!Venue
  <2>2. DOMAIN over = {"kind", "table", "row", "zone"} /\ over.table = t
    OBVIOUS
  <2> HIDE DEF over
  <2>3. DOMAIN plan' = DOMAIN plan /\ plan'.sheet = over
    BY <1>0, <2>1
  <2> QED BY <1>0, <2>1, <2>2, <2>3, TablesOnPage
<1>4. ASSUME NEW k, Plan!FromDetail(k) PROVE Plan!TablesInv'
  <2>1. /\ UNCHANGED <<grid, saves, meant, loose>> /\ plan' = [plan EXCEPT !.sheet.kind = k]
        /\ plan.sheet.kind = "detail"
    BY <1>4 DEF Plan!FromDetail, Plan!Venue
  <2>2. DOMAIN plan' = DOMAIN plan /\ plan'.sheet = [plan.sheet EXCEPT !.kind = k]
    BY <1>0, <2>1
  <2>3. DOMAIN plan'.sheet = DOMAIN plan.sheet /\ plan'.sheet.table = plan.sheet.table
    BY <1>0, <2>2
  <2> QED BY <1>0, <2>1, <2>2, <2>3, TablesOnPage
<1>5. ASSUME NEW z, Plan!TypeZone(z) PROVE Plan!TablesInv'
  <2>1. /\ UNCHANGED <<grid, saves, meant, loose>> /\ plan' = [plan EXCEPT !.sheet.zone = z]
    BY <1>5 DEF Plan!TypeZone, Plan!Venue
  <2>2. DOMAIN plan' = DOMAIN plan /\ plan'.sheet = [plan.sheet EXCEPT !.zone = z]
    BY <1>0, <2>1
  <2>3. /\ DOMAIN plan'.sheet = DOMAIN plan.sheet /\ plan'.sheet.table = plan.sheet.table
        /\ plan'.sheet.kind = plan.sheet.kind
    BY <1>0, <2>2
  <2> QED BY <1>0, <2>1, <2>2, <2>3, TablesOnPage
<1>6. ASSUME NEW t \in ServiceTables, NEW s \in Attendants, Plan!ToggleAttendant(t, s)
      PROVE Plan!TablesInv'
  <2> DEFINE value == Plan!Toggled(plan.tables[t].staff, s)
             new == [kind |-> "staff", table |-> t, value |-> value]
  <2>1. /\ saves' = saves \union {new} /\ UNCHANGED <<plan, grid>>
        /\ loose' = IF Plan!At(t) # {} \/ t \notin DOMAIN grid
             \/ plan.tables[t].staff # grid[t].staff
                    THEN loose \union {t} ELSE loose
        /\ meant' = [meant EXCEPT ![t].staff = IF s \in plan.tables[t].staff THEN @ \ {s} ELSE @ \union {s}]
    BY <1>6 DEF Plan!ToggleAttendant
  <2>2. new.table = t /\ new.kind = "staff" /\ new.value = value
        /\ new = [kind |-> new.kind, table |-> new.table, value |-> new.value]
    OBVIOUS
  <2>3. plan.tables[t].staff = grid[t].staff /\ meant[t] = grid[t]
        => meant'[t] = [grid[t] EXCEPT !.staff = value]
    BY <2>1 DEF Plan!Toggled, Plan!TablesTypeOK, Plan!TablesInv
  <2> HIDE DEF new, value
  <2>4. Plan!TablesTypeOK'
    BY <1>0, <2>1, <2>2 DEF Plan!TablesTypeOK
  <2>5. \A u \in ServiceTables \ {t} : Plan!At(u)' = Plan!At(u) /\ meant'[u] = meant[u]
    BY <1>0, <2>1, <2>2 DEF Plan!At, Plan!TablesTypeOK
  <2>6. Plan!At(t)' = Plan!At(t) \union {new}
    BY <2>1, <2>2 DEF Plan!At
  <2>7. ASSUME t \in DOMAIN grid' \ loose'
        PROVE  Plan!At(t)' = {new} /\ Plan!Written(grid'[t], new) = meant'[t]
    <3>1. Plan!At(t) = {} /\ plan.tables[t].staff = grid[t].staff /\ t \in DOMAIN grid \ loose
      BY <2>1, <2>7
    <3>2. meant[t] = grid[t]
      BY <3>1 DEF Plan!TablesInv, Plan!TableIsAsMeant
    <3>3. Plan!Written(grid[t], new) = [grid[t] EXCEPT !.staff = value]
      BY <2>2 DEF Plan!Written
    <3> QED BY <2>1, <2>3, <2>6, <3>1, <3>2, <3>3
  <2>8. loose \subseteq loose'
    BY <2>1
  <2> QED BY <2>1, <2>4, <2>5, <2>7, <2>8, OneTable
<1>7. ASSUME Plan!SaveEdit PROVE Plan!TablesInv'
  <2>0. PICK t \in ServiceTables : t = plan.sheet.table
    BY <1>0, <1>7 DEF Plan!SaveEdit, Plan!EditForm
  <2>z. PICK z : z = plan.sheet.zone
    OBVIOUS
  <2> DEFINE new == [kind |-> "zone", table |-> t, value |-> z]
  <2>1. /\ saves' = saves \union {new} /\ UNCHANGED grid
             /\ plan' = [plan EXCEPT !.sheet = Plan!NoSheet]
        /\ loose' = IF \/ Plan!At(t) # {} \/ t \notin DOMAIN grid
                       \/ plan.sheet.row.zone # grid[t].zone
                       \/ z = Plan!Unzoned /\ plan.sheet.row.zone # Plan!Unzoned
                    THEN loose \union {t} ELSE loose
        /\ meant' = [meant EXCEPT ![t].zone = IF z # plan.sheet.row.zone THEN z ELSE @]
    BY <1>7, <2>0, <2>z DEF Plan!SaveEdit
  <2>2. new.table = t /\ new.kind = "zone" /\ new.value = z
        /\ new = [kind |-> new.kind, table |-> new.table, value |-> new.value]
    OBVIOUS
  <2>3. DOMAIN plan' = DOMAIN plan /\ plan'.sheet = Plan!NoSheet
    BY <1>0, <2>1
  <2> HIDE DEF new
  <2>4. Plan!TablesTypeOK'
    BY <1>0, <2>1, <2>2, <2>3 DEF Plan!TablesTypeOK, Plan!NoSheet
  <2>5. \A u \in ServiceTables \ {t} : Plan!At(u)' = Plan!At(u) /\ meant'[u] = meant[u]
    BY <1>0, <2>1, <2>2 DEF Plan!At, Plan!TablesTypeOK
  <2>6. Plan!At(t)' = Plan!At(t) \union {new}
    BY <2>1, <2>2 DEF Plan!At
  <2>7. ASSUME t \in DOMAIN grid' \ loose'
        PROVE  Plan!At(t)' = {new} /\ Plan!Written(grid'[t], new) = meant'[t]
    <3>1. /\ Plan!At(t) = {} /\ plan.sheet.row.zone = grid[t].zone /\ t \in DOMAIN grid \ loose
          /\ z = Plan!Unzoned => plan.sheet.row.zone = Plan!Unzoned
      BY <2>1, <2>7
    <3>2. meant[t] = grid[t] /\ grid[t] = [staff |-> grid[t].staff, zone |-> grid[t].zone]
      BY <1>0, <3>1 DEF Plan!TablesInv, Plan!TableIsAsMeant, Plan!TablesTypeOK
    <3>3. Plan!Written(grid[t],
            new) = IF z = Plan!Unzoned THEN grid[t] ELSE [grid[t] EXCEPT !.zone = z]
      BY <2>2 DEF Plan!Written
    <3>4. meant'[t] = [grid[t] EXCEPT !.zone = IF z # plan.sheet.row.zone THEN z ELSE grid[t].zone]
      BY <1>0, <2>1, <3>2 DEF Plan!TablesTypeOK
    <3>5. CASE z = plan.sheet.row.zone
      <4>1. z = grid[t].zone
        BY <3>1, <3>5
      <4>2. meant'[t] = [grid[t] EXCEPT !.zone = grid[t].zone]
        BY <3>4, <3>5
      <4>3. Plan!Written(grid[t], new) = grid[t]
              \/ Plan!Written(grid[t], new) = [grid[t] EXCEPT !.zone = grid[t].zone]
        BY <3>3, <4>1
      <4>4. [grid[t] EXCEPT !.zone = grid[t].zone] = meant[t]
        BY <3>2
      <4> QED BY <2>1, <2>6, <3>1, <3>2, <4>2, <4>3, <4>4
    <3>6. CASE z # plan.sheet.row.zone
      <4>1. z # Plan!Unzoned
        BY <3>1, <3>6
      <4> QED BY <2>1, <2>6, <3>1, <3>3, <3>4, <3>6, <4>1
    <3> QED BY <3>5, <3>6
  <2>8. loose \subseteq loose'
    BY <2>1
  <2> QED BY <2>1, <2>4, <2>5, <2>7, <2>8, OneTable
<1>8. ASSUME NEW s \in saves, Plan!SaveServed(s) PROVE Plan!TablesInv'
  <2>0. PICK t : t = s.table
    OBVIOUS
  <2>1. /\ t \in DOMAIN grid /\ saves' = saves \ {s}
             /\ grid' = [grid EXCEPT ![t] = Plan!Written(grid[t], s)]
        /\ plan' = [plan EXCEPT !.running = runs] /\ UNCHANGED <<meant, loose>>
    BY <1>8, <2>0 DEF Plan!SaveServed
  <2>2. t \in ServiceTables /\ DOMAIN grid' = DOMAIN grid /\ grid'[t] = Plan!Written(grid[t], s)
        /\ \A u \in DOMAIN grid : u # t => grid'[u] = grid[u]
    BY <1>0, <2>1 DEF Plan!TablesTypeOK
  <2>3. DOMAIN plan' = DOMAIN plan /\ plan'.sheet = plan.sheet
    BY <1>0, <2>1
  <2> DEFINE new == Plan!Written(grid[t], s)
  <2>9. grid[t] = [staff |-> grid[t].staff, zone |-> grid[t].zone]
    BY <1>0, <2>1 DEF Plan!TablesTypeOK
  <2>4. new = [staff |-> new.staff, zone |-> new.zone]
    BY <2>9 DEF Plan!Written
  <2> HIDE DEF new
  <2>10. grid'[t] = new
    BY <2>2 DEF new
  <2>5. Plan!TablesTypeOK'
    BY <1>0, <2>1, <2>2, <2>3, <2>4, <2>10 DEF Plan!TablesTypeOK
  <2>6. \A u \in ServiceTables \ {t} : Plan!At(u)' = Plan!At(u)
    BY <2>0, <2>1 DEF Plan!At
  <2>7. Plan!At(t)' = Plan!At(t) \ {s} /\ s \in Plan!At(t)
    BY <2>0, <2>1 DEF Plan!At
  <2>8. t \notin loose => Plan!At(t)' = {} /\ grid'[t] = meant[t]
    BY <2>1, <2>2, <2>7 DEF Plan!TablesInv, Plan!OneSave
  <2> QED BY <2>1, <2>2, <2>5, <2>6, <2>8, OneTable
<1>9. ASSUME NEW s \in saves, Plan!SaveFails(s) PROVE Plan!TablesInv'
  <2>1. saves' = saves \ {s} /\ loose' = loose \union {s.table} /\ UNCHANGED <<plan, grid, meant>>
    BY <1>9 DEF Plan!SaveFails, Plan!Venue
  <2>2. Plan!TablesTypeOK'
    BY <1>0, <2>1 DEF Plan!TablesTypeOK
  <2>3. \A u \in DOMAIN grid' \ loose' : Plan!At(u)' = Plan!At(u) /\ u \in DOMAIN grid \ loose
    BY <2>1 DEF Plan!At
  <2>4. Plan!OneSave' /\ Plan!TableIsAsMeant'
    BY <2>1, <2>3 DEF Plan!TablesInv, Plan!OneSave, Plan!TableIsAsMeant
  <2> QED BY <2>2, <2>4 DEF Plan!TablesInv
<1>10. ASSUME NEW t \in ServiceTables, Plan!CreateTable(t) PROVE Plan!TablesInv'
  <2>1. /\ t \notin DOMAIN grid /\ Plan!At(t) = {} /\ UNCHANGED <<saves, loose>>
        /\ grid' = [u \in DOMAIN grid \union {t} |-> IF u = t THEN Plan!Gone ELSE grid[u]]
        /\ meant' = [meant EXCEPT ![t] = Plan!Gone]
        /\ plan' = [plan EXCEPT !.adding = FALSE, !.running = runs]
    BY <1>10 DEF Plan!CreateTable
  <2>2. DOMAIN plan' = DOMAIN plan /\ plan'.sheet = plan.sheet
    BY <1>0, <2>1
  <2>3. DOMAIN grid' = DOMAIN grid \union {t} /\ grid'[t] = Plan!Gone
        /\ \A u \in DOMAIN grid : u # t => grid'[u] = grid[u]
    BY <2>1
  <2>4. DOMAIN meant' = ServiceTables /\ meant'[t] = Plan!Gone /\ \A u \in ServiceTables \ {t} :
          meant'[u] = meant[u]
    BY <1>0, <2>1 DEF Plan!TablesTypeOK
  <2>5. Plan!Gone = [staff |-> Plan!Gone.staff, zone |-> Plan!Gone.zone]
    BY DEF Plan!Gone
  <2>6. Plan!TablesTypeOK'
    BY <1>0, <2>1, <2>2, <2>3, <2>4, <2>5 DEF Plan!TablesTypeOK
  <2>7. \A u : Plan!At(u)' = Plan!At(u)
    BY <2>1 DEF Plan!At
  <2> QED BY <2>1, <2>3, <2>4, <2>6, <2>7, OneTable
<1>11. ASSUME NEW t \in ServiceTables, Plan!Deactivate(t) PROVE Plan!TablesInv'
  <2>1. /\ grid' = [u \in DOMAIN grid \ {t} |-> grid[u]] /\ loose' = loose \union {t}
        /\ plan' = [plan EXCEPT !.running = runs'] /\ UNCHANGED <<saves, meant>>
    BY <1>11 DEF Plan!Deactivate
  <2>2. DOMAIN plan' = DOMAIN plan /\ plan'.sheet = plan.sheet
    BY <1>0, <2>1
  <2>3. DOMAIN grid' = DOMAIN grid \ {t} /\ \A u \in DOMAIN grid' : grid'[u] = grid[u]
    BY <2>1
  <2>4. Plan!TablesTypeOK'
    BY <1>0, <2>1, <2>2, <2>3 DEF Plan!TablesTypeOK
  <2>5. \A u : Plan!At(u)' = Plan!At(u)
    BY <2>1 DEF Plan!At
  <2> QED BY <2>1, <2>3, <2>4, <2>5, OneTable
<1>12. ASSUME NEW t \in ServiceTables, NEW staff, Plan!CoveredElsewhere(t, staff)
       PROVE Plan!TablesInv'
  <2>1. /\ t \in DOMAIN grid /\ grid' = [grid EXCEPT ![t].staff = staff]
        /\ meant' = [meant EXCEPT ![t].staff = staff] /\ UNCHANGED <<plan, saves>>
        /\ loose' = IF Plan!At(t) # {} THEN loose \union {t} ELSE loose
    BY <1>12 DEF Plan!CoveredElsewhere
  <2>2. /\ DOMAIN grid' = DOMAIN grid /\ DOMAIN meant' = ServiceTables
        /\ grid'[t] = [grid[t] EXCEPT !.staff = staff]
             /\ meant'[t] = [meant[t] EXCEPT !.staff = staff]
        /\ \A u \in DOMAIN grid : u # t => grid'[u] = grid[u]
        /\ \A u \in ServiceTables : u # t => meant'[u] = meant[u]
    BY <1>0, <2>1 DEF Plan!TablesTypeOK
  <2>3. grid'[t] = [staff |-> grid'[t].staff, zone |-> grid'[t].zone]
    BY <1>0, <2>1, <2>2 DEF Plan!TablesTypeOK
  <2>4. Plan!TablesTypeOK'
    BY <1>0, <2>1, <2>2, <2>3 DEF Plan!TablesTypeOK
  <2>5. \A u : Plan!At(u)' = Plan!At(u)
    BY <2>1 DEF Plan!At
  <2>6. t \notin loose' => Plan!At(t) = {} /\ grid'[t] = meant'[t]
    BY <2>1, <2>2 DEF Plan!TablesInv, Plan!TableIsAsMeant
  <2>7. loose \subseteq loose'
    BY <2>1
  <2> QED BY <2>2, <2>4, <2>5, <2>6, <2>7, OneTable
<1>13. ASSUME NEW t, Plan!FloorMoves(t) PROVE Plan!TablesInv'
  BY <1>0, <1>13, TablesOnPage DEF Plan!FloorMoves
<1>14. ASSUME UNCHANGED Plan!tablePlan PROVE Plan!TablesInv'
  BY <1>0, <1>14, TablesOnPage DEF Plan!tablePlan
<1> QED BY <1>1, <1>2, <1>3, <1>4, <1>5, <1>6, <1>7, <1>8, <1>9, <1>10, <1>11, <1>12, <1>13,
           <1>14
        DEF Plan!TablesNext

LEMMA TablesSafe == Plan!TablesInv => Plan!TableIsAsMeant
  BY DEF Plan!TablesInv

\* For any tables and attendants: a table is covered by whom the owners put there,
\* unless they were careless with it (owner tables page:158-164).
THEOREM TableAsMeant == Spec => []TableIsAsMeant
<1>1. Init => Plan!TablesInv
  BY TablesStart DEF Init
<1>2. Plan!TablesInv /\ [Next]_vars => Plan!TablesInv'
  <2> SUFFICES ASSUME Plan!TablesInv, [Next]_vars PROVE Plan!TablesInv'
    OBVIOUS
  <2>1. Plan!TablesNext \/ UNCHANGED Plan!tablePlan
    BY DEF Next, Only, vars, planVars, Plan!tablePlan
  <2> QED BY <2>1, TablesStep
<1>3. Plan!TablesInv => TableIsAsMeant
  BY TablesSafe DEF TableIsAsMeant
<1> QED BY <1>1, <1>2, <1>3, PTL DEF Spec

-----------------------------------------------------------------------------
\* The owner's page of staff.
LEMMA StaffStart == People # {} /\ Pins # {} /\ Team!StaffInit => Team!StaffInv
<1> SUFFICES ASSUME People # {}, Pins # {}, Team!StaffInit PROVE Team!StaffInv
  OBVIOUS
<1>1. Team!First \in People /\ Team!Opening \in Pins
  BY DEF Team!First, Team!Opening
<1>2. DOMAIN team = {Team!First} /\ \A p \in DOMAIN team : team[p] \in Team!Account
  BY <1>1 DEF Team!StaffInit, Team!Account
<1>3. /\ DOMAIN desk = {"list", "form", "pad", "slip"} /\ DOMAIN desk.list = DOMAIN team
      /\ desk.form = Team!NoForm /\ desk.pad = Team!NoPad
  BY DEF Team!StaffInit, Team!Roster
<1>4. asked = {} /\ asks = 0 /\ rosters = {} /\ beside = FALSE /\ fumbled = FALSE
  BY DEF Team!StaffInit
<1>5. handed = [p \in People |-> 0] /\ given = [p \in People |-> 0]
  BY DEF Team!StaffInit
<1>6. Team!StaffTypeOK
  <2>1. desk.form \in [open : BOOLEAN, who : People \union {Team!Nobody}, pin : Pins \union {0}]
    BY <1>3 DEF Team!NoForm
  <2>2. desk.pad \in [who : People \union {Team!Nobody}, pin : Pins \union {0},
                      saving : BOOLEAN, saved : BOOLEAN]
    BY <1>3 DEF Team!NoPad
  <2>3. handed \in [People -> Pins \union {0}] /\ given \in [People -> Nat]
    BY <1>5
  <2> QED BY <1>1, <1>2, <1>3, <1>4, <2>1, <2>2, <2>3 DEF Team!StaffTypeOK
<1>7. Team!Known /\ Team!OnePad
  BY <1>3, <1>4 DEF Team!Known, Team!OnePad
<1>8. Team!PinsApart /\ Team!AnswersAreTrue /\ Team!ShownIsSet
  BY <1>2, <1>4, <1>5 DEF Team!PinsApart, Team!AnswersAreTrue, Team!ShownIsSet
<1> QED BY <1>6, <1>7, <1>8 DEF Team!StaffInv

\* What leaves the accounts as they are, and checks or carries out nothing.
LEMMA StaffQuiet ==
  ASSUME Team!StaffInv, Team!StaffTypeOK', Team!Known', Team!OnePad', UNCHANGED <<team,
         beside>>,
         fumbled => fumbled',
         \A r \in asked' : r.at \in {"checked", "ok"} => r \in asked,
         \A p \in People :
           \/ handed'[p] = handed[p]
           \/ ~fumbled' /\ ~beside => p \in DOMAIN team /\ team[p].pin = handed'[p],
         \A p \in People :
           \/ given'[p] = given[p]
           \/ ~beside => p \in DOMAIN team /\ team[p].password = given'[p]
  PROVE  Team!StaffInv'
<1>1. ASSUME ~beside PROVE Team!PinsApart'
  <2>1. Team!PinsApart
    BY <1>1 DEF Team!StaffInv
  <2>2. \A r : Team!Taken(r)' <=> Team!Taken(r)
    BY DEF Team!Taken
  <2> QED BY <2>1, <2>2 DEF Team!PinsApart
<1>2. ASSUME ~beside PROVE Team!AnswersAreTrue'
  BY <1>2 DEF Team!StaffInv, Team!AnswersAreTrue
<1>3. ASSUME ~beside PROVE Team!ShownIsSet'
  BY <1>3 DEF Team!StaffInv, Team!ShownIsSet
<1> QED BY <1>1, <1>2, <1>3 DEF Team!StaffInv

PadPages == [who : People \union {Team!Nobody}, pin : Pins \union {0}, saving : BOOLEAN, saved :
  BOOLEAN]

\* The page alone.
LEMMA StaffPage ==
  ASSUME Team!StaffInv, UNCHANGED <<team, asked, asks, handed, given, beside>>,
         DOMAIN desk' = DOMAIN desk, fumbled' \in BOOLEAN, fumbled => fumbled',
         desk'.form \in [open : BOOLEAN, who : People \union {Team!Nobody},
         pin : Pins \union {0}],
         desk'.pad \in PadPages, DOMAIN desk'.list \subseteq DOMAIN team,
         rosters' \subseteq rosters,
         desk'.pad # Team!NoPad => desk'.pad.who \in DOMAIN team,
         desk.pad.saving =>
           desk'.pad.saving /\ (~fumbled' => desk'.pad.who = desk.pad.who
                                             /\ desk'.pad.pin = desk.pad.pin)
  PROVE  Team!StaffInv'
<1>1. Team!StaffTypeOK'
  BY DEF Team!StaffInv, Team!StaffTypeOK, PadPages, Team!OfPin
<1>2. Team!Known'
  BY DEF Team!StaffInv, Team!Known
<1>3. Team!OnePad'
  BY DEF Team!StaffInv, Team!OnePad
<1>4. UNCHANGED <<team, beside>> /\ \A r \in asked' : r.at \in {"checked", "ok"} => r \in asked
  OBVIOUS
<1>5. \A p \in People : handed'[p] = handed[p] /\ given'[p] = given[p]
  OBVIOUS
<1> QED BY <1>1, <1>2, <1>3, <1>4, <1>5, StaffQuiet

LEMMA StaffPages ==
  ASSUME Team!StaffInv,
         \/ Team!CloseSlip \/ \E l \in rosters : Team!ListArrives(l)
         \/ \E open \in BOOLEAN : Team!ShowForm(open)
         \/ \E p \in People, n \in Pins : Team!TypePerson(p, n)
         \/ \E n \in Pins \union {0} : Team!PressKeys(n)
         \/ \E p \in People : Team!OpenPad(p)
  PROVE  Team!StaffInv'
<1>0. Team!StaffTypeOK /\ Team!Known /\ Team!OnePad
  BY DEF Team!StaffInv
<1>1. ASSUME Team!CloseSlip PROVE Team!StaffInv'
  <2>1. /\ DOMAIN desk' = DOMAIN desk /\ desk'.form = desk.form /\ desk'.pad = desk.pad
        /\ desk'.list = desk.list
    BY <1>0, <1>1 DEF Team!CloseSlip, Team!StaffTypeOK
  <2> QED BY <1>0, <1>1, <2>1, StaffPage DEF Team!CloseSlip, Team!OffPage, Team!StaffTypeOK,
             Team!Known, PadPages
<1>2. ASSUME NEW l \in rosters, Team!ListArrives(l) PROVE Team!StaffInv'
  <2>1. /\ DOMAIN desk' = DOMAIN desk /\ desk'.form = desk.form /\ desk'.pad = desk.pad
        /\ desk'.list = l
    BY <1>0, <1>2 DEF Team!ListArrives, Team!StaffTypeOK
  <2> QED BY <1>0, <1>2, <2>1, StaffPage DEF Team!ListArrives, Team!StaffTypeOK, Team!Known,
             PadPages
<1>3. ASSUME NEW open \in BOOLEAN, Team!ShowForm(open) PROVE Team!StaffInv'
  <2>1. /\ DOMAIN desk' = DOMAIN desk /\ desk'.pad = desk.pad /\ desk'.list = desk.list
        /\ desk'.form = [desk.form EXCEPT !.open = open]
    BY <1>0, <1>3 DEF Team!ShowForm, Team!StaffTypeOK
  <2>2. desk'.form \in [open : BOOLEAN, who : People \union {Team!Nobody}, pin : Pins \union {0}]
    BY <1>0, <2>1 DEF Team!StaffTypeOK
  <2> QED BY <1>0, <1>3, <2>1, <2>2, StaffPage DEF Team!ShowForm, Team!OffPage,
             Team!StaffTypeOK, Team!Known, PadPages
<1>4. ASSUME NEW p \in People, NEW n \in Pins, Team!TypePerson(p, n) PROVE Team!StaffInv'
  <2>1. /\ DOMAIN desk' = DOMAIN desk /\ desk'.pad = desk.pad /\ desk'.list = desk.list
        /\ desk'.form = [[desk.form EXCEPT !.who = p] EXCEPT !.pin = n]
    BY <1>0, <1>4 DEF Team!TypePerson, Team!StaffTypeOK
  <2>2. desk'.form \in [open : BOOLEAN, who : People \union {Team!Nobody}, pin : Pins \union {0}]
    BY <1>0, <2>1 DEF Team!StaffTypeOK
  <2> QED BY <1>0, <1>4, <2>1, <2>2, StaffPage DEF Team!TypePerson, Team!OffPage,
             Team!StaffTypeOK, Team!Known, PadPages
<1>5. ASSUME NEW n \in Pins \union {0}, Team!PressKeys(n) PROVE Team!StaffInv'
  <2>1. /\ DOMAIN desk' = DOMAIN desk /\ desk'.form = desk.form /\ desk'.list = desk.list
        /\ desk'.pad = [desk.pad EXCEPT !.pin = n]
    BY <1>0, <1>5 DEF Team!PressKeys, Team!StaffTypeOK
  <2>2. desk.pad # Team!NoPad
    BY <1>5 DEF Team!PressKeys, Team!Sheet
  <2>3. /\ desk'.pad \in PadPages /\ desk'.pad.who = desk.pad.who
        /\ desk'.pad.saving = desk.pad.saving
    BY <1>0, <2>1 DEF Team!StaffTypeOK, PadPages
  <2>4. fumbled' = (fumbled \/ desk.pad.saving) /\ Team!OffPage
    BY <1>5 DEF Team!PressKeys
  <2>5. fumbled' \in BOOLEAN /\ (desk.pad.saving => fumbled') /\ (fumbled => fumbled')
    BY <2>4, Zenon
  <2> QED BY <1>0, <2>1, <2>2, <2>3, <2>4, <2>5, StaffPage DEF Team!OffPage, Team!StaffTypeOK,
             Team!Known
<1>6. ASSUME NEW p \in People, Team!OpenPad(p) PROVE Team!StaffInv'
  <2>1. /\ DOMAIN desk' = DOMAIN desk /\ desk'.form = desk.form /\ desk'.list = desk.list
        /\ desk'.pad = [who |-> p, pin |-> 0, saving |-> FALSE, saved |-> FALSE]
    BY <1>0, <1>6 DEF Team!OpenPad, Team!StaffTypeOK, Team!NoPad
  <2>2. desk.pad = Team!NoPad /\ p \in DOMAIN desk.list
    BY <1>6 DEF Team!OpenPad, Team!Rows, Team!Bare
  <2>3. desk'.pad \in PadPages /\ ~desk.pad.saving
    BY <2>1, <2>2 DEF PadPages, Team!NoPad
  <2> QED BY <1>0, <1>6, <2>1, <2>2, <2>3, StaffPage DEF Team!OpenPad, Team!OffPage,
             Team!StaffTypeOK, Team!Known
<1> QED BY <1>1, <1>2, <1>3, <1>4, <1>5, <1>6

\* The pad is closed: what was sent from it finds it gone.
LEMMA StaffClosePad == ASSUME Team!StaffInv, Team!ClosePad PROVE Team!StaffInv'
<1>0. Team!StaffTypeOK /\ Team!Known /\ Team!OnePad
  BY DEF Team!StaffInv
<1>1. /\ DOMAIN desk' = DOMAIN desk /\ desk'.form = desk.form /\ desk'.list = desk.list
      /\ desk'.pad = Team!NoPad
  BY <1>0 DEF Team!ClosePad, Team!StaffTypeOK
<1>2. UNCHANGED <<team, asks, rosters, handed, given, beside, fumbled>>
  BY DEF Team!ClosePad
<1>3. \A r \in asked' : \E q \in asked : r = [q EXCEPT !.here = FALSE]
  BY DEF Team!ClosePad
<1>4. ASSUME NEW r \in asked'
      PROVE  \E q \in asked : /\ r \in Team!Request /\ r.here = FALSE /\ r.kind = q.kind
               /\ r.who = q.who
                              /\ r.pin = q.pin /\ r.password = q.password /\ r.at = q.at
                              /\ r = [q EXCEPT !.here = FALSE]
  <2>1. PICK q \in asked : r = [q EXCEPT !.here = FALSE]
    BY <1>3
  <2>2. q \in Team!Request
    BY <1>0 DEF Team!StaffTypeOK
  <2> QED BY <2>1, <2>2 DEF Team!Request
<1>5. Team!StaffTypeOK'
  <2>1. desk'.pad \in PadPages
    BY <1>1 DEF Team!NoPad, PadPages
  <2>2. asked' \subseteq Team!Request
    BY <1>4
  <2>3. \A r \in asked' : (Team!OfPin(r) => r.pin \in Pins) /\ (r.at = "checked" => Team!OfPin(r))
    <3>1. ASSUME NEW r \in asked'
          PROVE  (Team!OfPin(r) => r.pin \in Pins) /\ (r.at = "checked" => Team!OfPin(r))
      <4>1. PICK q \in asked : r.kind = q.kind /\ r.pin = q.pin /\ r.at = q.at
        BY <1>4
      <4> QED BY <1>0, <4>1 DEF Team!StaffTypeOK, Team!OfPin
    <3> QED BY <3>1
  <2> QED BY <1>0, <1>1, <1>2, <2>1, <2>2, <2>3 DEF Team!StaffTypeOK, PadPages, Team!OfPin
<1>6. Team!Known'
  <2>1. ASSUME NEW r \in asked', r.kind # "add" \/ r.at = "ok" PROVE r.who \in DOMAIN team
    <3>1. PICK q \in asked : r.kind = q.kind /\ r.who = q.who /\ r.at = q.at
      BY <1>4
    <3> QED BY <1>0, <2>1, <3>1 DEF Team!Known
  <2> QED BY <1>0, <1>1, <1>2, <2>1 DEF Team!Known
<1>7. Team!OnePad'
  BY <1>4 DEF Team!OnePad
<1>8. ASSUME ~beside PROVE Team!PinsApart'
  <2>1. Team!PinsApart
    BY <1>8 DEF Team!StaffInv
  <2>2. ASSUME NEW r \in asked', r.at = "checked" PROVE ~Team!Taken(r)'
    <3>1. PICK q \in asked : r.kind = q.kind /\ r.who = q.who /\ r.pin = q.pin /\ r.at = q.at
      BY <1>4
    <3> QED BY <1>2, <2>1, <2>2, <3>1 DEF Team!PinsApart, Team!Taken
  <2>3. ASSUME NEW r \in asked', NEW s \in asked', r.at = "checked", s.at = "checked"
        PROVE s = r
    <3>1. PICK q \in asked : r.at = q.at /\ r = [q EXCEPT !.here = FALSE]
      BY <1>4
    <3>2. PICK u \in asked : s.at = u.at /\ s = [u EXCEPT !.here = FALSE]
      BY <1>4
    <3>3. u = q
      BY <2>1, <2>3, <3>1, <3>2 DEF Team!PinsApart
    <3> QED BY <3>1, <3>2, <3>3
  <2> QED BY <1>2, <2>1, <2>2, <2>3 DEF Team!PinsApart
<1>9. ASSUME ~beside PROVE Team!AnswersAreTrue'
  <2>1. ASSUME NEW r \in asked', r.at = "ok"
        PROVE  /\ r.kind \in {"add", "pin"} => team[r.who].pin = r.pin
               /\ r.kind = "password" => team[r.who].password = r.password
    <3>1. PICK q \in asked : /\ r.kind = q.kind /\ r.who = q.who /\ r.at = q.at
                             /\ r.pin = q.pin /\ r.password = q.password
      BY <1>4
    <3> QED BY <1>9, <2>1, <3>1 DEF Team!StaffInv, Team!AnswersAreTrue
  <2> QED BY <1>2, <2>1 DEF Team!AnswersAreTrue
<1>10. ASSUME ~beside PROVE Team!ShownIsSet'
  BY <1>2, <1>10 DEF Team!StaffInv, Team!ShownIsSet
<1> QED BY <1>2, <1>5, <1>6, <1>7, <1>8, <1>9, <1>10 DEF Team!StaffInv

\* One more request.
LEMMA StaffAsk ==
  ASSUME Team!StaffInv, NEW kind \in {"add", "pin", "theirs", "password", "off", "on"},
         NEW p \in People,
         NEW n \in Pins \union {0}, Team!Ask(kind, p, n), kind # "add" => p \in DOMAIN team,
         kind \in {"add", "pin", "theirs"} => n \in Pins,
         \/ desk' = desk /\ kind # "pin"
         \/ /\ desk' = [desk EXCEPT !.pad.saving = TRUE] /\ desk.pad # Team!NoPad /\ kind = "pin"
            /\ ~desk.pad.saving /\ p = desk.pad.who /\ n = desk.pad.pin
  PROVE  Team!StaffInv'
<1> DEFINE new == [id |-> asks, kind |-> kind, who |-> p, pin |-> n, password |-> 0,
                   here |-> kind = "pin", at |-> "sent"]
<1>0. Team!StaffTypeOK /\ Team!Known /\ Team!OnePad
  BY DEF Team!StaffInv
<1>1. /\ asked' = asked \union {new} /\ asks' = asks + 1
      /\ UNCHANGED <<team, rosters, handed, given, beside, fumbled>>
  BY DEF Team!Ask
<1>2. new \in Team!Request
  BY <1>0 DEF Team!Request, Team!StaffTypeOK
<1>3. new.kind = kind /\ new.who = p /\ new.pin = n /\ new.at = "sent"
        /\ (new.here <=> kind = "pin")
  OBVIOUS
<1> HIDE DEF new
<1>4. /\ DOMAIN desk' = DOMAIN desk /\ desk'.form = desk.form /\ desk'.list = desk.list
      /\ desk'.pad = desk.pad \/ desk'.pad = [desk.pad EXCEPT !.saving = TRUE]
  BY <1>0 DEF Team!StaffTypeOK
<1>5. desk'.pad \in PadPages /\ desk'.pad.who = desk.pad.who /\ desk'.pad.pin = desk.pad.pin
  BY <1>0, <1>4 DEF Team!StaffTypeOK, PadPages
<1>6. Team!StaffTypeOK'
  BY <1>0, <1>1, <1>2, <1>3, <1>4, <1>5 DEF Team!StaffTypeOK, PadPages, Team!OfPin
<1>7. desk'.pad # Team!NoPad => desk.pad # Team!NoPad
  <2>1. CASE desk' = desk
    BY <2>1
  <2>2. CASE desk.pad # Team!NoPad
    BY <2>2
  <2> QED BY <2>1, <2>2
<1>8. Team!Known'
  BY <1>0, <1>1, <1>3, <1>4, <1>5, <1>7 DEF Team!Known
<1>9. Team!OnePad'
  <2>1. CASE desk' = desk /\ kind # "pin"
    BY <1>0, <1>1, <1>3, <2>1 DEF Team!OnePad
  <2>2. CASE /\ desk' = [desk EXCEPT !.pad.saving = TRUE] /\ kind = "pin"
             /\ ~desk.pad.saving /\ p = desk.pad.who /\ n = desk.pad.pin
    <3>1. desk'.pad.saving = TRUE
      BY <1>0, <2>2 DEF Team!StaffTypeOK
    <3>2. \A r \in asked : ~r.here
      BY <1>0, <2>2 DEF Team!OnePad
    <3> QED BY <1>1, <1>3, <1>5, <2>2, <3>1, <3>2 DEF Team!OnePad
  <2> QED BY <2>1, <2>2
<1>10. \A r \in asked' : r.at \in {"checked", "ok"} => r \in asked
  BY <1>1, <1>3
<1> QED BY <1>1, <1>6, <1>8, <1>9, <1>10, StaffQuiet

LEMMA StaffAsks ==
  ASSUME Team!StaffInv,
         \/ Team!PressAdd \/ Team!SavePin \/ \E p \in People, n \in Pins : Team!SetElsewhere(p, n)
         \/ \E p \in People : Team!ResetPassword(p) \/ Team!Deactivate(p) \/ Team!Reactivate(p)
  PROVE  Team!StaffInv'
<1>0. Team!StaffTypeOK /\ Team!Known
  BY DEF Team!StaffInv
<1>1. CASE Team!PressAdd
  <2>1. desk.form.who \in People /\ desk.form.pin \in Pins
    BY <1>0, <1>1 DEF Team!PressAdd, Team!CanAdd, Team!StaffTypeOK
  <2> QED BY <1>1, <2>1, StaffAsk DEF Team!PressAdd
<1>2. CASE Team!SavePin
  <2>1. desk.pad # Team!NoPad /\ ~desk.pad.saving /\ desk.pad.pin # 0
    BY <1>2 DEF Team!SavePin, Team!Sheet
  <2>2. desk.pad.who \in DOMAIN team /\ desk.pad.who \in People /\ desk.pad.pin \in Pins
    BY <1>0, <2>1 DEF Team!StaffTypeOK, Team!Known
  <2> QED BY <1>2, <2>1, <2>2, StaffAsk DEF Team!SavePin
<1>3. ASSUME NEW p \in People, NEW n \in Pins, Team!SetElsewhere(p, n) PROVE Team!StaffInv'
  BY <1>3, StaffAsk DEF Team!SetElsewhere
<1>4. ASSUME NEW p \in People, Team!ResetPassword(p) \/ Team!Deactivate(p) \/ Team!Reactivate(p)
      PROVE Team!StaffInv'
  <2>1. p \in DOMAIN team
    BY <1>0, <1>4 DEF Team!ResetPassword, Team!Deactivate, Team!Reactivate, Team!Rows,
       Team!Known
  <2> QED BY <1>4, <2>1, StaffAsk DEF Team!ResetPassword, Team!Deactivate, Team!Reactivate
<1> QED BY <1>1, <1>2, <1>3, <1>4

\* A request of which only the stage changes.
LEMMA StageOnly ==
  ASSUME NEW r \in Team!Request, NEW at \in {"sent", "checked", "ok", "failed"},
         NEW q, q = [r EXCEPT !.at = at]
  PROVE  /\ q \in Team!Request /\ q.kind = r.kind /\ q.who = r.who /\ q.pin = r.pin
         /\ q.password = r.password /\ q.here = r.here /\ q.at = at
  BY DEF Team!Request

\* A handler moves its request on, and may write its account.
LEMMA StaffHandled ==
  ASSUME Team!StaffTypeOK, Team!Known, Team!OnePad, NEW r \in asked, NEW q \in Team!Request,
         Team!Becomes(r, q),
         q.kind = r.kind, q.who = r.who, q.pin = r.pin, q.here = r.here,
         q.at = "checked" => Team!OfPin(r),
         UNCHANGED <<desk, rosters, fumbled>>, beside' \in BOOLEAN,
         DOMAIN team \subseteq DOMAIN team', DOMAIN team' \subseteq People,
         \A p \in DOMAIN team' : team'[p] \in Team!Account,
         q.kind = "add" /\ q.at = "ok" => q.who \in DOMAIN team',
         handed' \in [People -> Pins \union {0}], given' \in [People -> Nat]
  PROVE  Team!StaffTypeOK' /\ Team!Known' /\ Team!OnePad'
<1>1. asked' = (asked \ {r}) \union {q} /\ asks' = asks
  BY DEF Team!Becomes
<1>2. Team!StaffTypeOK'
  <2>1. asked' \subseteq Team!Request
    BY <1>1 DEF Team!StaffTypeOK
  <2>2. \A s \in asked' : (Team!OfPin(s) => s.pin \in Pins) /\ (s.at = "checked" => Team!OfPin(s))
    BY <1>1 DEF Team!StaffTypeOK, Team!OfPin
  <2>3. /\ DOMAIN desk' = {"list", "form", "pad", "slip"}
        /\ desk'.form \in [open : BOOLEAN, who : People \union {Team!Nobody}, pin : Pins \union {0}]
        /\ desk'.pad \in [who : People \union {Team!Nobody}, pin : Pins \union {0},
                          saving : BOOLEAN, saved : BOOLEAN]
    BY DEF Team!StaffTypeOK
  <2>4. fumbled' \in BOOLEAN /\ asks' \in Nat
    BY <1>1 DEF Team!StaffTypeOK
  <2> QED BY <2>1, <2>2, <2>3, <2>4 DEF Team!StaffTypeOK, Team!OfPin
<1>3. Team!Known'
  BY <1>1 DEF Team!Known
<1>4. Team!OnePad'
  BY <1>1 DEF Team!OnePad
<1> QED BY <1>2, <1>3, <1>4

LEMMA StaffChecks ==
  ASSUME Team!StaffInv, NEW r \in asked, Team!CheckPin(r) PROVE Team!StaffInv'
<1>0. Team!StaffTypeOK /\ Team!Known /\ Team!OnePad /\ r \in Team!Request
  BY DEF Team!StaffInv, Team!StaffTypeOK
<1>1. PICK v \in {"failed", "checked"} : v = IF Team!Taken(r) THEN "failed" ELSE "checked"
  OBVIOUS
<1>q. PICK q : q = [r EXCEPT !.at = v]
  OBVIOUS
<1>2. /\ q \in Team!Request /\ q.kind = r.kind /\ q.who = r.who
      /\ q.pin = r.pin /\ q.password = r.password /\ q.here = r.here /\ q.at = v
  BY <1>0, <1>q, StageOnly
<1>3. Team!Becomes(r, q) /\ Team!OfPin(r) /\ r.at = "sent" /\ UNCHANGED <<desk, team, rosters,
        handed, given, fumbled>>
  BY <1>1, <1>q DEF Team!CheckPin
<1>4. beside' = (beside \/ \E s \in asked : s.at = "checked")
  BY DEF Team!CheckPin
<1>5. beside' \in BOOLEAN
  BY <1>4, Zenon
<1>6. Team!StaffTypeOK' /\ Team!Known' /\ Team!OnePad'
  <2>1. /\ DOMAIN team' \subseteq People /\ \A p \in DOMAIN team' : team'[p] \in Team!Account
        /\ handed' \in [People -> Pins \union {0}] /\ given' \in [People -> Nat]
    BY <1>0, <1>3 DEF Team!StaffTypeOK
  <2>2. ~(q.kind = "add" /\ q.at = "ok")
    BY <1>2
  <2> QED BY <1>0, <1>2, <1>3, <1>5, <2>1, <2>2, StaffHandled
<1>7. asked' = (asked \ {r}) \union {q}
  BY <1>3 DEF Team!Becomes
<1>8. ASSUME ~beside' PROVE Team!PinsApart' /\ Team!AnswersAreTrue' /\ Team!ShownIsSet'
  <2>1. ~beside /\ \A s \in asked : s.at # "checked"
    BY <1>4, <1>8, Zenon
  <2>2. Team!PinsApart /\ Team!AnswersAreTrue /\ Team!ShownIsSet
    BY <2>1 DEF Team!StaffInv
  <2>3. \A s : Team!Taken(s)' <=> Team!Taken(s)
    BY <1>3 DEF Team!Taken
  <2>4. q.at = "checked" => ~Team!Taken(q)
    BY <1>1, <1>2 DEF Team!Taken
  <2>5. Team!PinsApart'
    <3>1. \A p, s \in DOMAIN team' : team'[p].pin = team'[s].pin => p = s
      BY <1>3, <2>2 DEF Team!PinsApart
    <3>2. \A s \in asked' : s.at = "checked" => s = q
      BY <1>7, <2>1
    <3>3. ASSUME NEW s \in asked', s.at = "checked"
          PROVE  ~Team!Taken(s)' /\ \A u \in asked' : u.at = "checked" => u = s
      BY <2>3, <2>4, <3>2, <3>3
    <3> QED BY <3>1, <3>3 DEF Team!PinsApart
  <2>6. Team!AnswersAreTrue'
    BY <1>2, <1>3, <1>7, <2>2 DEF Team!AnswersAreTrue
  <2>7. Team!ShownIsSet'
    BY <1>3, <2>2 DEF Team!ShownIsSet
  <2> QED BY <2>5, <2>6, <2>7
<1> QED BY <1>6, <1>8 DEF Team!StaffInv

LEMMA StaffFails == ASSUME Team!StaffInv, NEW r \in asked, Team!Fails(r) PROVE Team!StaffInv'
<1>0. Team!StaffTypeOK /\ Team!Known /\ Team!OnePad /\ r \in Team!Request
  BY DEF Team!StaffInv, Team!StaffTypeOK
<1>q. PICK q : q = [r EXCEPT !.at = "failed"]
  OBVIOUS
<1>2. /\ q \in Team!Request /\ q.kind = r.kind /\ q.who = r.who
      /\ q.pin = r.pin /\ q.password = r.password /\ q.here = r.here /\ q.at = "failed"
  BY <1>0, <1>q, StageOnly
<1>3. Team!Becomes(r, q) /\ UNCHANGED <<desk, team, rosters, handed, given, beside, fumbled>>
  BY <1>q DEF Team!Fails
<1>4. /\ DOMAIN team' \subseteq People /\ \A p \in DOMAIN team' : team'[p] \in Team!Account
      /\ handed' \in [People -> Pins \union {0}] /\ given' \in [People -> Nat]
      /\ beside' \in BOOLEAN
  BY <1>0, <1>3 DEF Team!StaffTypeOK
<1>5. Team!StaffTypeOK' /\ Team!Known' /\ Team!OnePad'
  BY <1>0, <1>2, <1>3, <1>4, StaffHandled
<1>6. \A s \in asked' : s.at \in {"checked", "ok"} => s \in asked
  BY <1>2, <1>3 DEF Team!Becomes
<1> QED BY <1>3, <1>5, <1>6, StaffQuiet

\* Between the comparison and the write of a PIN no other request for one comes.
LEMMA StaffCreates == ASSUME Team!StaffInv, NEW r \in asked, Team!Create(r) PROVE Team!StaffInv'
<1>0. Team!StaffTypeOK /\ Team!Known /\ Team!OnePad /\ r \in Team!Request /\ r.who \in People
  BY DEF Team!StaffInv, Team!StaffTypeOK, Team!Request
<1>1. PICK v \in {"failed", "ok"} : v = IF r.who \in DOMAIN team THEN "failed" ELSE "ok"
  OBVIOUS
<1>q. PICK q : q = [r EXCEPT !.at = v]
  OBVIOUS
<1>2. /\ q \in Team!Request /\ q.kind = r.kind /\ q.who = r.who
      /\ q.pin = r.pin /\ q.password = r.password /\ q.here = r.here /\ q.at = v
  BY <1>0, <1>q, StageOnly
<1>3. /\ Team!Becomes(r, q) /\ r.kind = "add" /\ r.at = "checked"
      /\ UNCHANGED <<desk, rosters, given, beside, fumbled>>
  BY <1>1, <1>q DEF Team!Create
<1>4. asked' = (asked \ {r}) \union {q}
  BY <1>3 DEF Team!Becomes
<1>5. CASE r.who \in DOMAIN team
  <2>1. UNCHANGED <<team, handed>>
    BY <1>5 DEF Team!Create
  <2>2. /\ DOMAIN team' \subseteq People /\ \A p \in DOMAIN team' : team'[p] \in Team!Account
        /\ handed' \in [People -> Pins \union {0}] /\ given' \in [People -> Nat]
        /\ beside' \in BOOLEAN
    BY <1>0, <1>3, <2>1 DEF Team!StaffTypeOK
  <2>3. q.at = "failed"
    BY <1>1, <1>2, <1>5
  <2>4. Team!StaffTypeOK' /\ Team!Known' /\ Team!OnePad'
    BY <1>0, <1>2, <1>3, <2>1, <2>2, <2>3, StaffHandled
  <2>5. \A s \in asked' : s.at \in {"checked", "ok"} => s \in asked
    BY <1>4, <2>3
  <2> QED BY <1>3, <2>1, <2>4, <2>5, StaffQuiet
<1>6. CASE r.who \notin DOMAIN team
  <2>1. PICK new : new = [active |-> TRUE, pin |-> r.pin, password |-> 0]
    OBVIOUS
  <2>2. new \in Team!Account /\ new.pin = r.pin
    BY <1>0, <1>3, <2>1 DEF Team!Account, Team!StaffTypeOK, Team!OfPin
  <2>3. /\ team' = [p \in DOMAIN team \union {r.who} |-> IF p = r.who THEN new ELSE team[p]]
        /\ handed' = [handed EXCEPT ![r.who] = 0]
    BY <1>6, <2>1 DEF Team!Create
  <2>4. DOMAIN team' = DOMAIN team \union {r.who}
    BY <2>3
  <2>5. team'[r.who] = new /\ \A p \in DOMAIN team : team'[p] = team[p]
    BY <1>6, <2>3
  <2>6. /\ handed' \in [People -> Pins \union {0}] /\ handed'[r.who] = 0
        /\ \A p \in People \ {r.who} : handed'[p] = handed[p]
    BY <1>0, <2>3 DEF Team!StaffTypeOK
  <2>7. /\ \A p \in DOMAIN team' : team'[p] \in Team!Account
        /\ given' \in [People -> Nat] /\ beside' \in BOOLEAN /\ DOMAIN team' \subseteq People
    BY <1>0, <1>3, <2>2, <2>4, <2>5 DEF Team!StaffTypeOK
  <2>8. q.at = "ok"
    BY <1>1, <1>2, <1>6
  <2>9. Team!StaffTypeOK' /\ Team!Known' /\ Team!OnePad'
    <3>1. q.kind = "add" /\ q.at = "ok" => q.who \in DOMAIN team'
      BY <1>2, <2>4
    <3> QED BY <1>0, <1>2, <1>3, <2>4, <2>6, <2>7, <2>8, <3>1, StaffHandled
  <2>10. ASSUME ~beside' PROVE Team!PinsApart' /\ Team!AnswersAreTrue' /\ Team!ShownIsSet'
    <3>1. Team!PinsApart /\ Team!AnswersAreTrue /\ Team!ShownIsSet
      BY <1>3, <2>10 DEF Team!StaffInv
    <3>2. /\ \A s \in asked : s.at = "checked" => s = r
          /\ \A p \in DOMAIN team : team[p].pin # r.pin
      BY <1>3, <3>1 DEF Team!PinsApart, Team!Taken
    <3>3. Team!PinsApart'
      <4>1. ASSUME NEW p \in DOMAIN team', NEW s \in DOMAIN team', team'[p].pin = team'[s].pin
            PROVE  p = s
        BY <2>2, <2>4, <2>5, <3>1, <3>2, <4>1 DEF Team!PinsApart
      <4>2. \A s \in asked' : s.at # "checked"
        BY <1>4, <2>8, <3>2
      <4> QED BY <4>1, <4>2 DEF Team!PinsApart
    <3>4. Team!AnswersAreTrue'
      <4>1. ASSUME NEW s \in asked, s.at = "ok"
            PROVE  s.who \in DOMAIN team \/ s.kind \notin {"add", "pin", "password"}
        BY <1>0, <4>1 DEF Team!Known
      <4>2. ASSUME NEW s \in asked', s.at = "ok"
            PROVE  /\ s.kind \in {"add", "pin"} => team'[s.who].pin = s.pin
                   /\ s.kind = "password" => team'[s.who].password = s.password
        <5>1. CASE s = q
          BY <1>2, <1>3, <2>2, <2>5, <5>1
        <5>2. CASE s \in asked
          BY <2>5, <3>1, <4>1, <4>2, <5>2 DEF Team!AnswersAreTrue
        <5> QED BY <1>4, <5>1, <5>2
      <4> QED BY <4>2 DEF Team!AnswersAreTrue
    <3>5. Team!ShownIsSet'
      BY <1>3, <1>6, <2>4, <2>5, <2>6, <3>1 DEF Team!ShownIsSet
    <3> QED BY <3>3, <3>4, <3>5
  <2> QED BY <2>9, <2>10 DEF Team!StaffInv
<1> QED BY <1>5, <1>6

\* A field of one account is written.
LEMMA OneAccount ==
  ASSUME Team!StaffTypeOK, NEW w \in DOMAIN team, NEW new \in Team!Account,
         team' = [team EXCEPT ![w] = new]
  PROVE  /\ DOMAIN team' = DOMAIN team /\ team'[w] = new
         /\ \A p \in DOMAIN team \ {w} : team'[p] = team[p]
         /\ \A p \in DOMAIN team' : team'[p] \in Team!Account
         /\ DOMAIN team' \subseteq People
  BY DEF Team!StaffTypeOK

LEMMA StaffSetsPin == ASSUME Team!StaffInv, NEW r \in asked, Team!SetPin(r) PROVE Team!StaffInv'
<1>0. /\ Team!StaffTypeOK /\ Team!Known /\ Team!OnePad /\ r \in Team!Request /\ r.who \in People
      /\ r.kind \in {"pin", "theirs"} /\ r.at = "checked"
  BY DEF Team!StaffInv, Team!StaffTypeOK, Team!Request, Team!SetPin
<1>w. r.who \in DOMAIN team /\ team[r.who] \in Team!Account
  BY <1>0 DEF Team!Known, Team!StaffTypeOK
<1>q. PICK q : q = [r EXCEPT !.at = "ok"]
  OBVIOUS
<1>2. /\ q \in Team!Request /\ q.kind = r.kind /\ q.who = r.who
      /\ q.pin = r.pin /\ q.password = r.password /\ q.here = r.here /\ q.at = "ok"
  BY <1>0, <1>q, StageOnly
<1>3. /\ Team!Becomes(r, q) /\ UNCHANGED <<desk, rosters, given, fumbled>>
      /\ beside' = (beside \/ Team!Late({"add", "pin"}, r))
  BY <1>q DEF Team!SetPin
<1>4. asked' = (asked \ {r}) \union {q}
  BY <1>3 DEF Team!Becomes
<1>5. PICK new : new = [team[r.who] EXCEPT !.pin = r.pin]
  OBVIOUS
<1>6. new \in Team!Account /\ new.pin = r.pin /\ new.password = team[r.who].password
  BY <1>0, <1>w, <1>5 DEF Team!Account, Team!StaffTypeOK, Team!OfPin
<1>7. team' = [team EXCEPT ![r.who] = new]
  BY <1>5 DEF Team!SetPin
<1>8. /\ DOMAIN team' = DOMAIN team /\ team'[r.who] = new
      /\ \A p \in DOMAIN team \ {r.who} : team'[p] = team[p]
      /\ \A p \in DOMAIN team' : team'[p] \in Team!Account
      /\ DOMAIN team' \subseteq People
  BY <1>0, <1>w, <1>6, <1>7, OneAccount
<1>9. /\ handed' \in [People -> Pins \union {0}] /\ handed'[r.who] = 0
      /\ \A p \in People \ {r.who} : handed'[p] = handed[p]
  BY <1>0 DEF Team!StaffTypeOK, Team!SetPin
<1>10. beside' \in BOOLEAN
  BY <1>3, Zenon
<1>11. Team!StaffTypeOK' /\ Team!Known' /\ Team!OnePad'
  <2>1. q.at # "checked" /\ q.kind # "add" /\ given' \in [People -> Nat]
    BY <1>0, <1>2, <1>3 DEF Team!StaffTypeOK
  <2> QED BY <1>0, <1>2, <1>3, <1>8, <1>9, <1>10, <2>1, StaffHandled
<1>12. ASSUME ~beside' PROVE Team!PinsApart' /\ Team!AnswersAreTrue' /\ Team!ShownIsSet'
  <2>0. ~beside /\ ~Team!Late({"add", "pin"}, r)
    BY <1>3, <1>12, Zenon
  <2>1. Team!PinsApart /\ Team!AnswersAreTrue /\ Team!ShownIsSet
    BY <2>0 DEF Team!StaffInv
  <2>2. /\ \A s \in asked : s.at = "checked" => s = r
        /\ \A p \in DOMAIN team \ {r.who} : team[p].pin # r.pin
    BY <1>0, <2>1 DEF Team!PinsApart, Team!Taken
  <2>3. Team!PinsApart'
    <3>1. ASSUME NEW p \in DOMAIN team', NEW s \in DOMAIN team', team'[p].pin = team'[s].pin
          PROVE  p = s
      BY <1>6, <1>8, <2>1, <2>2, <3>1 DEF Team!PinsApart
    <3>2. \A s \in asked' : s.at # "checked"
      BY <1>2, <1>4, <2>2
    <3> QED BY <3>1, <3>2 DEF Team!PinsApart
  <2>4. Team!AnswersAreTrue'
    <3>1. ASSUME NEW s \in asked', s.at = "ok"
          PROVE  /\ s.kind \in {"add", "pin"} => team'[s.who].pin = s.pin
                 /\ s.kind = "password" => team'[s.who].password = s.password
      <4>1. CASE s = q
        BY <1>0, <1>2, <1>6, <1>8, <4>1
      <4>2. CASE s \in asked \ {r}
        <5>1. s.kind \in {"add", "pin"} => s.who # r.who
          BY <2>0, <3>1, <4>2 DEF Team!Late
        <5>2. s.kind # "theirs" => s.who \in DOMAIN team
          BY <1>0, <3>1, <4>2 DEF Team!Known
        <5> QED BY <1>6, <1>8, <2>1, <3>1, <4>2, <5>1, <5>2 DEF Team!AnswersAreTrue
      <4> QED BY <1>4, <4>1, <4>2
    <3> QED BY <3>1 DEF Team!AnswersAreTrue
  <2>5. Team!ShownIsSet'
    BY <1>3, <1>6, <1>8, <1>9, <2>1 DEF Team!ShownIsSet
  <2> QED BY <2>3, <2>4, <2>5
<1> QED BY <1>11, <1>12 DEF Team!StaffInv

LEMMA StaffSetsPassword ==
  ASSUME Team!StaffInv, NEW r \in asked, Team!SetPassword(r) PROVE Team!StaffInv'
<1>0. /\ Team!StaffTypeOK /\ Team!Known /\ Team!OnePad /\ r \in Team!Request /\ r.who \in People
      /\ r.kind = "password" /\ r.at = "sent"
  BY DEF Team!StaffInv, Team!StaffTypeOK, Team!Request, Team!SetPassword
<1>w. r.who \in DOMAIN team /\ team[r.who] \in Team!Account
  BY <1>0 DEF Team!Known, Team!StaffTypeOK
<1>p. PICK word : word = team[r.who].password + 1
  OBVIOUS
<1>n. word \in Nat
  BY <1>w, <1>p DEF Team!Account
<1>q. PICK q : q = [[r EXCEPT !.at = "ok"] EXCEPT !.password = word]
  OBVIOUS
<1>2. /\ q \in Team!Request /\ q.kind = r.kind /\ q.who = r.who
      /\ q.pin = r.pin /\ q.password = word /\ q.here = r.here /\ q.at = "ok"
  BY <1>0, <1>q, <1>n DEF Team!Request
<1>3. /\ Team!Becomes(r, q) /\ UNCHANGED <<desk, rosters, handed, fumbled>>
      /\ beside' = (beside \/ Team!Late({"password"}, r))
  <2>1. q = [r EXCEPT !.at = "ok", !.password = word]
    BY <1>q
  <2> QED BY <1>p, <2>1 DEF Team!SetPassword
<1>4. asked' = (asked \ {r}) \union {q}
  BY <1>3 DEF Team!Becomes
<1>5. PICK new : new = [team[r.who] EXCEPT !.password = word]
  OBVIOUS
<1>6. new \in Team!Account /\ new.pin = team[r.who].pin /\ new.password = word
  BY <1>n, <1>w, <1>5 DEF Team!Account
<1>7. team' = [team EXCEPT ![r.who] = new]
  BY <1>p, <1>5 DEF Team!SetPassword
<1>8. /\ DOMAIN team' = DOMAIN team /\ team'[r.who] = new
      /\ \A p \in DOMAIN team \ {r.who} : team'[p] = team[p]
      /\ \A p \in DOMAIN team' : team'[p] \in Team!Account
      /\ DOMAIN team' \subseteq People
  BY <1>0, <1>w, <1>6, <1>7, OneAccount
<1>9. /\ given' \in [People -> Nat] /\ given'[r.who] = 0
      /\ \A p \in People \ {r.who} : given'[p] = given[p]
  BY <1>0 DEF Team!StaffTypeOK, Team!SetPassword
<1>10. beside' \in BOOLEAN
  BY <1>3, Zenon
<1>11. Team!StaffTypeOK' /\ Team!Known' /\ Team!OnePad'
  <2>1. q.at # "checked" /\ q.kind # "add" /\ handed' \in [People -> Pins \union {0}]
    BY <1>0, <1>2, <1>3 DEF Team!StaffTypeOK
  <2> QED BY <1>0, <1>2, <1>3, <1>8, <1>9, <1>10, <2>1, StaffHandled
<1>12. ASSUME ~beside' PROVE Team!PinsApart' /\ Team!AnswersAreTrue' /\ Team!ShownIsSet'
  <2>0. ~beside /\ ~Team!Late({"password"}, r)
    BY <1>3, <1>12, Zenon
  <2>1. Team!PinsApart /\ Team!AnswersAreTrue /\ Team!ShownIsSet
    BY <2>0 DEF Team!StaffInv
  <2>2. \A p \in DOMAIN team : team'[p].pin = team[p].pin
    BY <1>6, <1>8
  <2>3. Team!PinsApart'
    <3>1. \A s : Team!Taken(s)' <=> Team!Taken(s)
      BY <1>8, <2>2 DEF Team!Taken
    <3>2. \A s \in asked' : s.at = "checked" => s \in asked
      BY <1>2, <1>4
    <3>3. \A p, s \in DOMAIN team' : team'[p].pin = team'[s].pin => p = s
      BY <1>8, <2>1, <2>2 DEF Team!PinsApart
    <3> QED BY <2>1, <3>1, <3>2, <3>3 DEF Team!PinsApart
  <2>4. Team!AnswersAreTrue'
    <3>1. ASSUME NEW s \in asked', s.at = "ok"
          PROVE  /\ s.kind \in {"add", "pin"} => team'[s.who].pin = s.pin
                 /\ s.kind = "password" => team'[s.who].password = s.password
      <4>1. CASE s = q
        BY <1>0, <1>2, <1>6, <1>8, <4>1
      <4>2. CASE s \in asked \ {r}
        <5>1. s.kind = "password" => s.who # r.who
          BY <2>0, <3>1, <4>2 DEF Team!Late
        <5>2. s.who \in DOMAIN team
          BY <1>0, <3>1, <4>2 DEF Team!Known
        <5> QED BY <1>8, <2>1, <2>2, <3>1, <4>2, <5>1, <5>2 DEF Team!AnswersAreTrue
      <4> QED BY <1>4, <4>1, <4>2
    <3> QED BY <3>1 DEF Team!AnswersAreTrue
  <2>5. Team!ShownIsSet'
    BY <1>3, <1>8, <1>9, <2>1, <2>2 DEF Team!ShownIsSet
  <2> QED BY <2>3, <2>4, <2>5
<1> QED BY <1>11, <1>12 DEF Team!StaffInv

LEMMA StaffSwitches ==
  ASSUME Team!StaffInv, NEW r \in asked, NEW on \in BOOLEAN, NEW kind \in {"off", "on"},
         Team!SwitchedTo(on, kind, r)
  PROVE  Team!StaffInv'
<1>0. /\ Team!StaffTypeOK /\ Team!Known /\ Team!OnePad /\ r \in Team!Request /\ r.who \in People
      /\ r.kind = kind /\ r.at = "sent"
  BY DEF Team!StaffInv, Team!StaffTypeOK, Team!Request, Team!SwitchedTo
<1>w. r.who \in DOMAIN team /\ team[r.who] \in Team!Account
  BY <1>0 DEF Team!Known, Team!StaffTypeOK
<1>q. PICK q : q = [r EXCEPT !.at = "ok"]
  OBVIOUS
<1>2. /\ q \in Team!Request /\ q.kind = r.kind /\ q.who = r.who
      /\ q.pin = r.pin /\ q.password = r.password /\ q.here = r.here /\ q.at = "ok"
  BY <1>0, <1>q, StageOnly
<1>3. Team!Becomes(r, q) /\ UNCHANGED <<desk, rosters, handed, given, beside, fumbled>>
  BY <1>q DEF Team!SwitchedTo
<1>4. asked' = (asked \ {r}) \union {q}
  BY <1>3 DEF Team!Becomes
<1>5. PICK new : new = [team[r.who] EXCEPT !.active = on]
  OBVIOUS
<1>6. new \in Team!Account /\ new.pin = team[r.who].pin /\ new.password = team[r.who].password
  BY <1>w, <1>5 DEF Team!Account
<1>7. team' = [team EXCEPT ![r.who] = new]
  BY <1>5 DEF Team!SwitchedTo
<1>8. /\ DOMAIN team' = DOMAIN team /\ team'[r.who] = new
      /\ \A p \in DOMAIN team \ {r.who} : team'[p] = team[p]
      /\ \A p \in DOMAIN team' : team'[p] \in Team!Account
      /\ DOMAIN team' \subseteq People
  BY <1>0, <1>w, <1>6, <1>7, OneAccount
<1>9. \A p \in DOMAIN team : team'[p].pin = team[p].pin /\ team'[p].password = team[p].password
  BY <1>6, <1>8
<1>10. Team!StaffTypeOK' /\ Team!Known' /\ Team!OnePad'
  <2>1. /\ q.at # "checked" /\ q.kind # "add" /\ handed' \in [People -> Pins \union {0}]
        /\ given' \in [People -> Nat] /\ beside' \in BOOLEAN
    BY <1>0, <1>2, <1>3 DEF Team!StaffTypeOK
  <2> QED BY <1>0, <1>2, <1>3, <1>8, <2>1, StaffHandled
<1>11. ASSUME ~beside PROVE Team!PinsApart' /\ Team!AnswersAreTrue' /\ Team!ShownIsSet'
  <2>1. Team!PinsApart /\ Team!AnswersAreTrue /\ Team!ShownIsSet
    BY <1>11 DEF Team!StaffInv
  <2>2. Team!PinsApart'
    <3>1. \A s : Team!Taken(s)' <=> Team!Taken(s)
      BY <1>8, <1>9 DEF Team!Taken
    <3>2. \A s \in asked' : s.at = "checked" => s \in asked
      BY <1>2, <1>4
    <3>3. \A p, s \in DOMAIN team' : team'[p].pin = team'[s].pin => p = s
      BY <1>8, <1>9, <2>1 DEF Team!PinsApart
    <3> QED BY <2>1, <3>1, <3>2, <3>3 DEF Team!PinsApart
  <2>3. Team!AnswersAreTrue'
    <3>1. ASSUME NEW s \in asked', s.at = "ok", s.kind \in {"add", "pin", "password"}
          PROVE  /\ s.kind \in {"add", "pin"} => team'[s.who].pin = s.pin
                 /\ s.kind = "password" => team'[s.who].password = s.password
      <4>1. s \in asked /\ s.who \in DOMAIN team
        BY <1>0, <1>2, <1>4, <3>1 DEF Team!Known
      <4> QED BY <1>9, <2>1, <3>1, <4>1 DEF Team!AnswersAreTrue
    <3> QED BY <3>1 DEF Team!AnswersAreTrue
  <2>4. Team!ShownIsSet'
    BY <1>3, <1>8, <1>9, <2>1 DEF Team!ShownIsSet
  <2> QED BY <2>2, <2>3, <2>4
<1> QED BY <1>3, <1>10, <1>11 DEF Team!StaffInv

\* An answer arrives: the request is gone, and the lists may be fetched again.
LEMMA StaffArrives ==
  ASSUME Team!StaffInv, NEW r \in asked, Team!Answered(r), UNCHANGED <<team, beside>>,
         Team!Reload \/ UNCHANGED rosters, fumbled' \in BOOLEAN, fumbled => fumbled',
         DOMAIN desk' = DOMAIN desk, desk'.list = desk.list, desk'.pad \in PadPages,
         desk'.form \in [open : BOOLEAN, who : People \union {Team!Nobody},
         pin : Pins \union {0}],
         desk'.pad # Team!NoPad => desk'.pad.who \in DOMAIN team,
         handed' \in [People -> Pins \union {0}], given' \in [People -> Nat],
         \A q \in asked \ {r} : q.here =>
           /\ desk'.pad.saving
           /\ ~fumbled' => desk'.pad.who = desk.pad.who /\ desk'.pad.pin = desk.pad.pin,
         \A p \in People :
           \/ handed'[p] = handed[p]
           \/ ~fumbled' /\ ~beside => p \in DOMAIN team /\ team[p].pin = handed'[p],
         \A p \in People :
           \/ given'[p] = given[p]
           \/ ~beside => p \in DOMAIN team /\ team[p].password = given'[p]
  PROVE  Team!StaffInv'
<1>0. Team!StaffTypeOK /\ Team!Known /\ Team!OnePad
  BY DEF Team!StaffInv
<1>1. asked' = asked \ {r} /\ asks' = asks
  BY DEF Team!Answered
<1>2. Team!StaffTypeOK'
  <2>1. beside' \in BOOLEAN /\ asks' \in Nat
    BY <1>0, <1>1 DEF Team!StaffTypeOK
  <2>2. /\ asked' \subseteq Team!Request
        /\ \A s \in asked' : (Team!OfPin(s) => s.pin \in Pins)
             /\ (s.at = "checked" => Team!OfPin(s))
    BY <1>0, <1>1 DEF Team!StaffTypeOK
  <2> QED BY <1>0, <2>1, <2>2 DEF Team!StaffTypeOK, PadPages, Team!OfPin
<1>3. Team!Known'
  <2>1. \A l \in rosters' : DOMAIN l \subseteq DOMAIN team
    BY <1>0 DEF Team!Known, Team!Reload, Team!Roster
  <2> QED BY <1>0, <1>1, <2>1 DEF Team!Known
<1>4. Team!OnePad'
  BY <1>0, <1>1 DEF Team!OnePad
<1>5. \A s \in asked' : s.at \in {"checked", "ok"} => s \in asked
  BY <1>1
<1> QED BY <1>2, <1>3, <1>4, <1>5, StaffQuiet

LEMMA StaffMember ==
  ASSUME Team!StaffInv, NEW r \in asked, Team!MemberAdded(r) PROVE Team!StaffInv'
<1>0. /\ Team!StaffTypeOK /\ Team!Known /\ Team!OnePad /\ r \in Team!Request
      /\ r.kind = "add" /\ r.at = "ok" /\ r.who \in DOMAIN team /\ r.who \in People
           /\ r.pin \in Pins
  BY DEF Team!StaffInv, Team!StaffTypeOK, Team!Known, Team!MemberAdded, Team!Request, Team!OfPin
<1>1. PICK onPad : onPad = IF desk.pad = Team!NoPad
                       THEN [who |-> r.who, pin |-> r.pin, saving |-> FALSE, saved |-> TRUE]
                       ELSE [desk.pad EXCEPT !.who = r.who]
  OBVIOUS
<1>2. /\ Team!Answered(r) /\ desk' = [[desk EXCEPT !.form = Team!NoForm] EXCEPT !.pad = onPad]
      /\ handed' = Team!Shows(onPad) /\ fumbled' = (fumbled \/ desk.pad # Team!NoPad)
      /\ Team!Reload /\ UNCHANGED <<team, given, beside>>
  BY <1>1 DEF Team!MemberAdded
<1>3. /\ DOMAIN desk' = DOMAIN desk /\ desk'.list = desk.list /\ desk'.pad = onPad
      /\ desk'.form = Team!NoForm
  BY <1>0, <1>2 DEF Team!StaffTypeOK
<1>4. fumbled' \in BOOLEAN /\ (fumbled => fumbled') /\ (~fumbled' => desk.pad = Team!NoPad)
  BY <1>2, Zenon
<1>5. /\ onPad \in PadPages /\ onPad.who = r.who
      /\ desk.pad # Team!NoPad => onPad.saving = desk.pad.saving
      /\ desk.pad = Team!NoPad => onPad.saved = TRUE /\ onPad.pin = r.pin
  BY <1>0, <1>1 DEF Team!StaffTypeOK, PadPages
<1>6. Team!NoForm \in [open : BOOLEAN, who : People \union {Team!Nobody}, pin : Pins \union {0}]
  BY DEF Team!NoForm
<1>7. ~Team!NoPad.saving
  BY DEF Team!NoPad
<1>8. \A q \in asked \ {r} : q.here => desk.pad # Team!NoPad /\ desk.pad.saving
  BY <1>0, <1>7 DEF Team!OnePad
<1>9. /\ handed' \in [People -> Pins \union {0}]
      /\ \A p \in People \ {r.who} : handed'[p] = handed[p]
      /\ desk.pad = Team!NoPad => handed'[r.who] = r.pin
  <2>1. CASE onPad.saved
    <3>1. handed' = [handed EXCEPT ![r.who] = onPad.pin]
      BY <1>2, <1>5, <2>1 DEF Team!Shows
    <3>2. onPad.pin \in Pins \union {0}
      BY <1>5 DEF PadPages
    <3> QED BY <1>0, <1>5, <3>1, <3>2 DEF Team!StaffTypeOK
  <2>2. CASE ~onPad.saved
    <3>1. handed' = handed /\ desk.pad # Team!NoPad
      BY <1>2, <1>5, <2>2 DEF Team!Shows
    <3> QED BY <1>0, <3>1 DEF Team!StaffTypeOK
  <2> QED BY <2>1, <2>2
<1>10. ASSUME ~fumbled', ~beside PROVE team[r.who].pin = handed'[r.who]
  BY <1>0, <1>4, <1>9, <1>10 DEF Team!StaffInv, Team!AnswersAreTrue
<1>11. given' \in [People -> Nat] /\ given' = given
  BY <1>0, <1>2 DEF Team!StaffTypeOK
<1>12. \A p \in People :
         \/ handed'[p] = handed[p]
         \/ ~fumbled' /\ ~beside => p \in DOMAIN team /\ team[p].pin = handed'[p]
  BY <1>0, <1>9, <1>10
<1>13. \A q \in asked \ {r} : q.here =>
         desk'.pad.saving /\ (~fumbled' => desk'.pad.who = desk.pad.who
           /\ desk'.pad.pin = desk.pad.pin)
  BY <1>3, <1>4, <1>5, <1>8
<1>14. desk'.pad \in PadPages /\ desk'.pad.who \in DOMAIN team
       /\ desk'.form \in [open : BOOLEAN, who : People \union {Team!Nobody}, pin : Pins \union {0}]
  BY <1>0, <1>3, <1>5, <1>6
<1> QED BY <1>2, <1>3, <1>4, <1>9, <1>11, <1>12, <1>13, <1>14, StaffArrives

LEMMA StaffPinSaved ==
  ASSUME Team!StaffInv, NEW r \in asked, Team!PinSaved(r) PROVE Team!StaffInv'
<1>0. /\ Team!StaffTypeOK /\ Team!Known /\ Team!OnePad /\ r \in Team!Request
      /\ r.kind = "pin" /\ r.at = "ok" /\ r.who \in DOMAIN team /\ r.who \in People
           /\ r.pin \in Pins
  BY DEF Team!StaffInv, Team!StaffTypeOK, Team!Known, Team!PinSaved, Team!Request, Team!OfPin
<1>1. PICK onPad : onPad = IF r.here THEN [[desk.pad EXCEPT !.saving = FALSE] EXCEPT !.saved = TRUE]
                       ELSE desk.pad
  OBVIOUS
<1>2. /\ Team!Answered(r) /\ desk' = [desk EXCEPT !.pad = onPad]
      /\ handed' = IF r.here THEN Team!Shows(onPad) ELSE handed
      /\ Team!Reload /\ UNCHANGED <<team, given, beside, fumbled>>
  BY <1>1 DEF Team!PinSaved
<1>3. /\ DOMAIN desk' = DOMAIN desk /\ desk'.list = desk.list /\ desk'.pad = onPad
      /\ desk'.form = desk.form /\ desk.pad \in PadPages
  BY <1>0, <1>2 DEF Team!StaffTypeOK, PadPages
<1>4. /\ onPad \in PadPages /\ onPad.who = desk.pad.who /\ onPad.pin = desk.pad.pin
      /\ r.here => onPad.saved = TRUE
      /\ ~r.here => onPad = desk.pad
  BY <1>1, <1>3 DEF PadPages
<1>5. ~Team!NoPad.saving
  BY DEF Team!NoPad
<1>6. r.here => desk.pad # Team!NoPad /\ desk.pad.saving /\ \A q \in asked \ {r} : ~q.here
  BY <1>0, <1>5 DEF Team!OnePad
<1>7. onPad # Team!NoPad => onPad.who \in DOMAIN team
  BY <1>0, <1>4, <1>6 DEF Team!Known
<1>8. \A q \in asked \ {r} : q.here =>
        desk'.pad.saving /\ (~fumbled' => desk'.pad.who = desk.pad.who
          /\ desk'.pad.pin = desk.pad.pin)
  BY <1>0, <1>3, <1>4, <1>6 DEF Team!OnePad
<1>9. /\ handed' \in [People -> Pins \union {0}]
      /\ \A p \in People :
           \/ handed'[p] = handed[p]
           \/ ~fumbled' /\ ~beside => p \in DOMAIN team /\ team[p].pin = handed'[p]
  <2>1. CASE r.here
    <3>1. handed' = [handed EXCEPT ![desk.pad.who] = desk.pad.pin]
      BY <1>2, <1>4, <2>1 DEF Team!Shows
    <3>2. /\ desk.pad.pin \in Pins \union {0} /\ desk.pad.who \in People
          /\ desk.pad.who \in DOMAIN team
      BY <1>0, <1>3, <1>6, <2>1 DEF PadPages, Team!Known, Team!StaffTypeOK
    <3>3. ASSUME ~fumbled, ~beside PROVE team[desk.pad.who].pin = desk.pad.pin
      <4>1. desk.pad.who = r.who /\ desk.pad.pin = r.pin
        BY <1>0, <2>1, <3>3 DEF Team!OnePad
      <4> QED BY <1>0, <3>3, <4>1 DEF Team!StaffInv, Team!AnswersAreTrue
    <3>4. fumbled' = fumbled
      BY <1>2
    <3>5. /\ handed' \in [People -> Pins \union {0}] /\ handed'[desk.pad.who] = desk.pad.pin
          /\ \A p \in People \ {desk.pad.who} : handed'[p] = handed[p]
      BY <1>0, <3>1, <3>2 DEF Team!StaffTypeOK
    <3> QED BY <3>2, <3>3, <3>4, <3>5
  <2>2. CASE ~r.here
    BY <1>0, <1>2, <2>2 DEF Team!StaffTypeOK
  <2> QED BY <2>1, <2>2
<1>10. /\ given' \in [People -> Nat] /\ \A p \in People : given'[p] = given[p]
       /\ fumbled' \in BOOLEAN /\ (fumbled => fumbled')
       /\ desk'.form \in [open : BOOLEAN, who : People \union {Team!Nobody}, pin : Pins \union {0}]
  BY <1>0, <1>2, <1>3 DEF Team!StaffTypeOK
<1> QED BY <1>2, <1>3, <1>4, <1>7, <1>8, <1>9, <1>10, StaffArrives

LEMMA StaffOtherAnswers ==
  ASSUME Team!StaffInv, NEW r \in asked,
         Team!PasswordArrives(r) \/ Team!Switched(r) \/ Team!NothingCameOfIt(r)
  PROVE  Team!StaffInv'
<1>0. Team!StaffTypeOK /\ Team!Known /\ Team!OnePad /\ r \in Team!Request /\ r.who \in People
  BY DEF Team!StaffInv, Team!StaffTypeOK, Team!Request
<1>1. /\ desk.pad \in PadPages /\ handed \in [People -> Pins \union {0}]
           /\ given \in [People -> Nat]
      /\ desk.form \in [open : BOOLEAN, who : People \union {Team!Nobody}, pin : Pins \union {0}]
      /\ desk.pad # Team!NoPad => desk.pad.who \in DOMAIN team
      /\ fumbled \in BOOLEAN
  BY <1>0 DEF Team!StaffTypeOK, Team!Known, PadPages
<1>2. CASE Team!PasswordArrives(r)
  <2>1. /\ DOMAIN desk' = DOMAIN desk /\ desk'.list = desk.list /\ desk'.pad = desk.pad
        /\ desk'.form = desk.form
    BY <1>0, <1>2 DEF Team!StaffTypeOK, Team!PasswordArrives
  <2>2. /\ Team!Answered(r) /\ given' = [given EXCEPT ![r.who] = r.password]
        /\ UNCHANGED <<team, rosters, handed, beside, fumbled>>
    BY <1>2 DEF Team!PasswordArrives
  <2>3. /\ given' \in [People -> Nat] /\ given'[r.who] = r.password
        /\ \A p \in People \ {r.who} : given'[p] = given[p]
    BY <1>0, <1>1, <2>2 DEF Team!Request
  <2>4. ~beside => r.who \in DOMAIN team /\ team[r.who].password = r.password
    BY <1>0, <1>2 DEF Team!PasswordArrives, Team!StaffInv, Team!Known, Team!AnswersAreTrue
  <2>5. \A p \in People :
          \/ given'[p] = given[p]
          \/ ~beside => p \in DOMAIN team /\ team[p].password = given'[p]
    BY <2>3, <2>4
  <2>6. \A q \in asked \ {r} : q.here => desk'.pad.saving
    BY <1>0, <2>1 DEF Team!OnePad
  <2>7. \A p \in People : handed'[p] = handed[p]
    BY <2>2
  <2> QED BY <1>1, <2>1, <2>2, <2>3, <2>5, <2>6, <2>7, StaffArrives
<1>3. CASE Team!Switched(r)
  <2>1. /\ Team!Answered(r) /\ Team!Reload /\ UNCHANGED <<desk, team, handed, given, beside,
             fumbled>>
    BY <1>3 DEF Team!Switched
  <2>2. \A q \in asked \ {r} : q.here => desk'.pad.saving
    BY <1>0, <2>1 DEF Team!OnePad
  <2>3. \A p \in People : handed'[p] = handed[p] /\ given'[p] = given[p]
    BY <2>1
  <2> QED BY <1>1, <2>1, <2>2, <2>3, StaffArrives
<1>4. CASE Team!NothingCameOfIt(r)
  <2>1. /\ Team!Answered(r) /\ UNCHANGED <<team, rosters, handed, given, beside, fumbled>>
        /\ desk' = IF r.here THEN [desk EXCEPT !.pad.saving = FALSE] ELSE desk
    BY <1>4 DEF Team!NothingCameOfIt
  <2>2. /\ DOMAIN desk' = DOMAIN desk /\ desk'.list = desk.list /\ desk'.form = desk.form
        /\ desk'.pad = IF r.here THEN [desk.pad EXCEPT !.saving = FALSE] ELSE desk.pad
    BY <1>0, <2>1 DEF Team!StaffTypeOK
  <2>3. /\ desk'.pad \in PadPages /\ desk'.pad.who = desk.pad.who /\ desk'.pad.pin = desk.pad.pin
        /\ ~r.here => desk'.pad = desk.pad
    BY <1>1, <2>2 DEF PadPages
  <2>4. ~Team!NoPad.saving
    BY DEF Team!NoPad
  <2>5. r.here => desk.pad # Team!NoPad /\ \A q \in asked \ {r} : ~q.here
    BY <1>0, <2>4 DEF Team!OnePad
  <2>6. \A q \in asked \ {r} : q.here => desk'.pad.saving
    BY <1>0, <2>3, <2>5 DEF Team!OnePad
  <2>7. \A p \in People : handed'[p] = handed[p] /\ given'[p] = given[p]
    BY <2>1
  <2>8. desk'.pad # Team!NoPad => desk'.pad.who \in DOMAIN team
    BY <1>1, <2>3, <2>5
  <2> QED BY <1>1, <2>1, <2>2, <2>3, <2>6, <2>7, <2>8, StaffArrives
<1> QED BY <1>2, <1>3, <1>4

LEMMA StaffStep ==
  Team!StaffInv /\ (Team!StaffNext \/ UNCHANGED Team!ownerDesk) => Team!StaffInv'
<1> SUFFICES ASSUME Team!StaffInv, Team!StaffNext \/ UNCHANGED Team!ownerDesk
             PROVE Team!StaffInv'
  OBVIOUS
<1>1. CASE \/ Team!CloseSlip \/ \E l \in rosters : Team!ListArrives(l)
           \/ \E open \in BOOLEAN : Team!ShowForm(open)
           \/ \E p \in People, n \in Pins : Team!TypePerson(p, n)
           \/ \E n \in Pins \union {0} : Team!PressKeys(n)
           \/ \E p \in People : Team!OpenPad(p)
  BY <1>1, StaffPages
<1>2. CASE Team!ClosePad
  BY <1>2, StaffClosePad
<1>3. CASE \/ Team!PressAdd \/ Team!SavePin \/ \E p \in People, n \in Pins : Team!SetElsewhere(p, n)
           \/ \E p \in People : Team!ResetPassword(p) \/ Team!Deactivate(p) \/ Team!Reactivate(p)
  BY <1>3, StaffAsks
<1>4. ASSUME NEW r \in asked, Team!Handling(r) PROVE Team!StaffInv'
  BY <1>4, StaffChecks, StaffCreates, StaffSetsPin, StaffSetsPassword, StaffSwitches, StaffFails
     DEF Team!Handling
<1>5. ASSUME NEW r \in asked, Team!Answering(r) PROVE Team!StaffInv'
  BY <1>5, StaffMember, StaffPinSaved, StaffOtherAnswers DEF Team!Answering
<1>6. CASE UNCHANGED Team!ownerDesk
  <2>1. UNCHANGED <<desk, team, asked, asks, rosters, handed, given, beside, fumbled>>
    BY <1>6 DEF Team!ownerDesk
  <2>2. /\ Team!StaffTypeOK' /\ Team!Known' /\ Team!OnePad'
    BY <2>1 DEF Team!StaffInv, Team!StaffTypeOK, Team!OfPin, Team!Known, Team!OnePad
  <2>3. \A s \in asked' : s.at \in {"checked", "ok"} => s \in asked
    BY <2>1
  <2> QED BY <2>1, <2>2, <2>3, StaffQuiet
<1> QED BY <1>1, <1>2, <1>3, <1>4, <1>5, <1>6 DEF Team!StaffNext

LEMMA StaffSafe == Team!StaffInv => Team!HandedOverWorks
<1> SUFFICES ASSUME Team!StaffInv, ~beside, ~fumbled, NEW p \in People
    PROVE  /\ handed[p] # 0 => {q \in DOMAIN team : team[q].pin = handed[p]} = {p}
           /\ given[p] # 0 => team[p].password = given[p]
  BY DEF Team!HandedOverWorks
<1> QED BY DEF Team!StaffInv, Team!PinsApart, Team!ShownIsSet

\* Whoever works here: a PIN or a password the page has shown opens the account it was
\* shown for and no other until it is replaced, unless requests met or a pad was
\* touched under an answer (owner staff page:159-410, routers/staff.py:41-91).
THEOREM HandedOverHolds == Spec => []HandedOverWorks
<1>1. Init => Team!StaffInv
  BY StaffStart, StaffHavePins DEF Init
<1>2. Team!StaffInv /\ [Next]_vars => Team!StaffInv'
  <2> SUFFICES ASSUME Team!StaffInv, [Next]_vars PROVE Team!StaffInv'
    OBVIOUS
  <2>1. Team!StaffNext \/ UNCHANGED Team!ownerDesk
    BY DEF Next, Only, vars, teamVars, Team!ownerDesk
  <2> QED BY <2>1, StaffStep, StaffHavePins
<1>3. Team!StaffInv => HandedOverWorks
  BY StaffSafe, StaffHavePins DEF HandedOverWorks
<1> QED BY <1>1, <1>2, <1>3, PTL DEF Spec

-----------------------------------------------------------------------------
\* Signing in and out.
\* Nobody is none of the people, and a station is none of the account pages.
LEMMA NobodyApart == Entry!Nobody \notin People
  BY PeopleAreNamed DEF Entry!Nobody
LEMMA HomesApart ==
  Entry!Homes \intersect {"root", "login", "pin", "register", "reset"} = {}
  BY HomesAreStations DEF Entry!Homes

LEMMA SignInStart == Entry!SignInInit => Entry!SignInInv
<1> SUFFICES ASSUME Entry!SignInInit PROVE Entry!SignInInv
  OBVIOUS
<1>1. /\ tab = Entry!FreshTab("login") /\ flights = {} /\ signedOut = FALSE
      /\ browser = [access |-> Entry!NoToken, refresh |-> Entry!NoToken, old |-> FALSE,
           venue |-> FALSE]
  BY DEF Entry!SignInInit
<1>2. DOMAIN tab = DOMAIN Entry!FreshTab("login") /\ tab.user = Entry!Nobody /\ tab.page = "login"
  BY <1>1 DEF Entry!FreshTab
<1>3. DOMAIN browser = {"access", "refresh", "old", "venue"} /\ browser.access = Entry!NoToken
        /\ browser.refresh = Entry!NoToken
  BY <1>1
<1>4. Entry!SignInTypeOK
  BY <1>1, <1>2, <1>3 DEF Entry!SignInTypeOK, Entry!TabOK, Entry!KeptOK
<1>5. Entry!OneInHand /\ Entry!AskedFromHere /\ Entry!OnePerson
  BY <1>1, <1>2 DEF Entry!OneInHand, Entry!AskedFromHere, Entry!OnePerson
<1> QED BY <1>4, <1>5 DEF Entry!SignInInv

\* What a step leaves when nothing is on its way after it.
LEMMA QuietTab ==
  ASSUME Entry!SignInTypeOK', flights' = {},
         tab'.user # Entry!Nobody => tab'.page \in Entry!Homes /\ tab'.user = browser'.access.who,
         signedOut' => browser'.access = Entry!NoToken
  PROVE  Entry!SignInInv'
  BY DEF Entry!SignInInv, Entry!OneInHand, Entry!AskedFromHere, Entry!OnePerson

\* What it leaves when one question is in hand.
LEMMA AskingTab ==
  ASSUME Entry!SignInTypeOK', NEW g, flights' = {g}, tab'.loading, tab'.user = Entry!Nobody,
         g.kind \in Entry!Doors => tab'.page = g.kind,
         g.then = "login" => tab'.page = "login",
         g.then = "guard" => tab'.page \in Entry!Homes \union {"root"},
         Entry!InHand(g), tab'.page # "reset",
         g.kind \in {"me", "refresh"} => g.token.who = browser'.access.who,
         signedOut' => browser'.access = Entry!NoToken
  PROVE  Entry!SignInInv'
  BY DEF Entry!SignInInv, Entry!OneInHand, Entry!AskedFromHere, Entry!OnePerson

\* A question in hand is the only thing on its way, and nobody is signed in yet.
LEMMA AloneInFlight ==
  ASSUME Entry!SignInInv, ~refreshCrossed, NEW f \in flights, Entry!InHand(f)
  PROVE  flights = {f} /\ tab.loading /\ tab.user \in People \union {Entry!Nobody}
  BY DEF Entry!SignInInv, Entry!OneInHand, Entry!SignInTypeOK, Entry!TabOK

\* A form that nothing was sent from has nothing on its way.
LEMMA IdleTab ==
  ASSUME Entry!SignInInv, ~refreshCrossed, ~tab.loading, tab.page \notin Entry!Homes
  PROVE  flights = {} /\ tab.user = Entry!Nobody
  BY DEF Entry!SignInInv, Entry!OneInHand, Entry!AskedFromHere, Entry!OnePerson


\* The page that is loaded, and what it asks for.
LEMMA FreshTabOK ==
  \A page : Entry!TabOK(Entry!FreshTab(page)) /\ Entry!FreshTab(page).user = Entry!Nobody
    /\ Entry!FreshTab(page).page = page
                              /\ ~Entry!FreshTab(page).loading
  BY DEF Entry!TabOK, Entry!FreshTab

LEMMA FlightOK ==
  ASSUME NEW kind, NEW token, NEW then, token.who \in People,
         \/ kind \in Entry!Doors /\ then = "none"
         \/ kind = "me" /\ then \in {"guard", "login"}
         \/ kind = "refresh" /\ then \in {"none", "guard", "login"}
  PROVE  /\ Entry!OnItsWay(Entry!Flight(kind, token, then))
         /\ Entry!Flight(kind, token, then).kind = kind
         /\ Entry!Flight(kind, token, then).token = token
         /\ Entry!Flight(kind, token, then).then = then
<1> DEFINE f == Entry!Flight(kind, token, then)
<1>1. f.kind = kind /\ f.token = token /\ f.then = then
  BY DEF Entry!Flight
<1> HIDE DEF f
<1>2. f = Entry!Flight(f.kind, f.token, f.then)
  BY <1>1 DEF f
<1>3. Entry!OnItsWay(f)
  BY <1>1, <1>2 DEF Entry!OnItsWay, Entry!Doors
<1> QED BY <1>1, <1>3 DEF f

LEMMA GuardedOK ==
  ASSUME NEW t, Entry!TabOK(t), NEW a, a = Entry!NoToken \/ a.who \in People
  PROVE  /\ Entry!TabOK(Entry!Guarded(t, a)) /\ Entry!Guarded(t, a).user = t.user
         /\ \A f \in Entry!AsksWho(t, a) : Entry!OnItsWay(f)
<1>1. Entry!TabOK(Entry!Guarded(t, a)) /\ Entry!Guarded(t, a).user = t.user
  BY DEF Entry!Guarded, Entry!TabOK, Entry!FreshTab
<1>2. ASSUME NEW f \in Entry!AsksWho(t, a) PROVE Entry!OnItsWay(f)
  <2>1. f = Entry!Flight("me", a, "guard") /\ a # Entry!NoToken
    BY <1>2 DEF Entry!AsksWho
  <2>2. a.who \in People
    BY <2>1
  <2> QED BY <2>1, <2>2, FlightOK
<1> QED BY <1>1, <1>2

\* A tab with other fields.
LEMMA TabWith ==
  ASSUME NEW t, Entry!TabOK(t), NEW v
  PROVE  /\ Entry!TabOK([t EXCEPT !.page = v]) /\ Entry!TabOK([t EXCEPT !.loading = v])
         /\ Entry!TabOK([t EXCEPT !.step = v]) /\ Entry!TabOK([t EXCEPT !.digits = v])
         /\ Entry!TabOK([t EXCEPT !.forgot = v])
  BY DEF Entry!TabOK, Entry!FreshTab

LEMMA SignInTypes ==
  Entry!SignInTypeOK /\ (Entry!SignInNext \/ UNCHANGED Entry!session) => Entry!SignInTypeOK'
<1> SUFFICES ASSUME Entry!SignInTypeOK, Entry!SignInNext \/ UNCHANGED Entry!session
             PROVE Entry!SignInTypeOK'
  OBVIOUS
<1>0. Entry!TabOK(tab) /\ Entry!KeptOK(browser) /\ \A f \in flights : Entry!OnItsWay(f)
  BY DEF Entry!SignInTypeOK
<1>a. ASSUME Entry!TabOK(tab'), Entry!KeptOK(browser'), \A f \in flights' : Entry!OnItsWay(f)
      PROVE Entry!SignInTypeOK'
  BY <1>a DEF Entry!SignInTypeOK, Entry!TabOK, Entry!KeptOK, Entry!OnItsWay
<1>b. ASSUME NEW p \in People PROVE Entry!TokenOf(p).who \in People
  BY DEF Entry!TokenOf
<1>c. ASSUME NEW token, token.who \in People,
             browser' = [browser EXCEPT !.access = token, !.refresh = token, !.old = FALSE]
             \/ browser' = [browser EXCEPT !.access = token, !.refresh = token, !.old = FALSE,
                  !.venue = browser'.venue]
      PROVE  Entry!KeptOK(browser') /\ browser'.access = token
  BY <1>0, <1>c DEF Entry!KeptOK
<1>d. ASSUME Entry!Cleared PROVE Entry!SignInTypeOK'
  <2>1. /\ browser' = [access |-> Entry!NoToken, refresh |-> Entry!NoToken, old |-> FALSE,
             venue |-> FALSE]
        /\ tab' = Entry!FreshTab("login") /\ flights' = {}
    BY <1>d DEF Entry!Cleared
  <2>2. Entry!KeptOK(browser')
    BY <2>1 DEF Entry!KeptOK
  <2> QED BY <1>a, <2>1, <2>2, FreshTabOK
<1>e. ASSUME NEW f, f.then \in {"none", "guard", "login"}, Entry!Refreshes(f)
      PROVE Entry!SignInTypeOK'
  <2>1. CASE browser.refresh = Entry!NoToken
    BY <1>d, <1>e, <2>1 DEF Entry!Refreshes
  <2>2. CASE browser.refresh # Entry!NoToken
    <3>1. browser.refresh.who \in People
      BY <1>0, <2>2 DEF Entry!KeptOK
    <3>2. /\ flights' = (flights \ {f}) \union {Entry!Flight("refresh", browser.refresh, f.then)}
          /\ UNCHANGED <<tab, browser>>
      BY <1>e, <2>2 DEF Entry!Refreshes
    <3>3. Entry!OnItsWay(Entry!Flight("refresh", browser.refresh, f.then))
      BY <1>e, <3>1, FlightOK
    <3> QED BY <1>0, <1>a, <3>2, <3>3
  <2> QED BY <2>1, <2>2
<1>1. ASSUME NEW page, Entry!Visit(page) PROVE Entry!SignInTypeOK'
  <2>1. CASE page \in Entry!Homes \union {"root"}
    BY <1>0, <1>1, <1>a, <2>1, FreshTabOK, GuardedOK DEF Entry!Visit, Entry!KeptOK
  <2>2. CASE page \notin Entry!Homes \union {"root"}
    <3>1. PICK v : tab' = [Entry!FreshTab(page) EXCEPT !.step = v]
      BY <1>1, <2>2 DEF Entry!Visit
    <3>2. browser' = browser /\ flights' = {}
      BY <1>1, <2>2 DEF Entry!Visit
    <3> QED BY <1>0, <1>a, <3>1, <3>2, FreshTabOK, TabWith
  <2> QED BY <2>1, <2>2
<1>2. ASSUME NEW p \in People, Entry!SubmitLogin(p) \/ Entry!SubmitRegister(p)
      PROVE Entry!SignInTypeOK'
  <2>1. PICK kind \in {"login", "register"} :
           flights' = flights \union {Entry!Flight(kind, Entry!TokenOf(p), "none")}
    BY <1>2 DEF Entry!SubmitLogin, Entry!SubmitRegister
  <2>2. tab' = [tab EXCEPT !.loading = TRUE] /\ browser' = browser
    BY <1>2 DEF Entry!SubmitLogin, Entry!SubmitRegister
  <2>3. Entry!OnItsWay(Entry!Flight(kind, Entry!TokenOf(p), "none"))
    BY <1>b, FlightOK DEF Entry!Doors
  <2> QED BY <1>0, <1>a, <2>1, <2>2, <2>3, TabWith
<1>3. ASSUME NEW p \in People, Entry!PressKey(p) PROVE Entry!SignInTypeOK'
  <2>1. /\ tab' = [tab EXCEPT !.digits = @ + 1, !.loading = tab.digits = 3] /\ browser' = browser
        /\ flights' \in {flights, flights \union {Entry!Flight("pin", Entry!TokenOf(p), "none")}}
    BY <1>3 DEF Entry!PressKey
  <2>2. Entry!OnItsWay(Entry!Flight("pin", Entry!TokenOf(p), "none"))
    BY <1>b, FlightOK DEF Entry!Doors
  <2>3. Entry!TabOK(tab')
    BY <1>0, <2>1 DEF Entry!TabOK, Entry!FreshTab
  <2> QED BY <1>0, <1>a, <2>1, <2>2, <2>3
<1>4. ASSUME UNCHANGED <<browser, flights>>, NEW v,
             \/ tab' = [tab EXCEPT !.step = v] \/ tab' = [tab EXCEPT !.step = v, !.digits = 0]
             \/ tab' = [tab EXCEPT !.digits = v] \/ tab' = [tab EXCEPT !.forgot = v]
             \/ tab' = tab
      PROVE  Entry!SignInTypeOK'
  <2>1. Entry!TabOK(tab')
    BY <1>0, <1>4 DEF Entry!TabOK, Entry!FreshTab
  <2> QED BY <1>0, <1>4, <1>a, <2>1
<1>5. ASSUME Entry!ResolveVenue \/ Entry!ChangeVenue \/ Entry!DeleteKey \/ Entry!ToggleForgot
      PROVE Entry!SignInTypeOK'
  BY <1>4, <1>5 DEF Entry!ResolveVenue, Entry!ChangeVenue, Entry!DeleteKey, Entry!ToggleForgot
<1>6. ASSUME NEW p \in People, Entry!SendLink(p) PROVE Entry!SignInTypeOK'
  BY <1>4, <1>6 DEF Entry!SendLink
<1>7. ASSUME NEW p \in People, Entry!SetPassword(p) PROVE Entry!SignInTypeOK'
  BY <1>0, <1>7, <1>a, FreshTabOK DEF Entry!SetPassword
<1>8. ASSUME Entry!TokenGrowsOld PROVE Entry!SignInTypeOK'
  <2>1. browser' = [browser EXCEPT !.old = TRUE] /\ UNCHANGED <<tab, flights>>
    BY <1>8 DEF Entry!TokenGrowsOld
  <2>2. Entry!KeptOK(browser')
    BY <1>0, <2>1 DEF Entry!KeptOK
  <2> QED BY <1>0, <1>a, <2>1, <2>2
<1>9. ASSUME Entry!Logout PROVE Entry!SignInTypeOK'
  <2>1. browser' = Entry!Removed(browser) /\ tab' = Entry!FreshTab("login") /\ flights' = flights
    BY <1>9 DEF Entry!Logout
  <2>2. Entry!KeptOK(browser')
    BY <1>0, <2>1 DEF Entry!KeptOK, Entry!Removed
  <2> QED BY <1>0, <1>a, <2>1, <2>2, FreshTabOK
<1>10. ASSUME Entry!CallRefused PROVE Entry!SignInTypeOK'
  <2>1. PICK f : f = Entry!Flight("call", browser.access, "none")
    OBVIOUS
  <2>2. Entry!Refreshes(f) /\ f.then = "none"
    BY <1>10, <2>1 DEF Entry!CallRefused, Entry!Flight
  <2> QED BY <1>e, <2>2
<1>11. ASSUME NEW f \in flights, Entry!LoginServed(f) PROVE Entry!SignInTypeOK'
  <2>1. /\ browser' = [browser EXCEPT !.access = f.token, !.refresh = f.token, !.old = FALSE]
             /\ tab' = tab
        /\ flights' = (flights \ {f}) \union {Entry!Flight("me", f.token, "login")}
    BY <1>11 DEF Entry!LoginServed, Entry!Tokens
  <2>2. f.token.who \in People
    BY <1>0 DEF Entry!OnItsWay
  <2>3. Entry!OnItsWay(Entry!Flight("me", f.token, "login"))
    BY <2>2, FlightOK
  <2>4. Entry!KeptOK(browser')
    BY <1>c, <2>1, <2>2
  <2> QED BY <1>0, <1>a, <2>1, <2>3, <2>4
<1>12. ASSUME NEW f \in flights, Entry!DoorServed(f) PROVE Entry!SignInTypeOK'
  <2> DEFINE t == [tab EXCEPT !.page = HomeOf[f.token.who], !.loading = FALSE]
  <2>1. PICK v : browser' = [browser EXCEPT !.access = f.token, !.refresh = f.token, !.old = FALSE,
               !.venue = v]
    BY <1>12 DEF Entry!DoorServed
  <2>2. tab' = Entry!Guarded(t, f.token)
          /\ flights' = (flights \ {f}) \union Entry!AsksWho(t, f.token)
    BY <1>12 DEF Entry!DoorServed
  <2>3. f.token.who \in People
    BY <1>0 DEF Entry!OnItsWay
  <2>4. Entry!TabOK(t)
    BY <1>0 DEF Entry!TabOK, Entry!FreshTab
  <2> HIDE DEF t
  <2>5. Entry!KeptOK(browser')
    BY <1>0, <2>1, <2>3 DEF Entry!KeptOK
  <2> QED BY <1>0, <1>a, <2>2, <2>3, <2>4, <2>5, GuardedOK
<1>13. ASSUME NEW f \in flights, Entry!DoorFails(f) PROVE Entry!SignInTypeOK'
  <2>1. browser' = browser /\ flights' = flights \ {f}
          /\ tab' = [tab EXCEPT !.loading = FALSE, !.digits = 0]
    BY <1>13 DEF Entry!DoorFails
  <2>2. Entry!TabOK(tab')
    BY <1>0, <2>1 DEF Entry!TabOK, Entry!FreshTab
  <2> QED BY <1>0, <1>a, <2>1, <2>2
<1>14. ASSUME NEW f \in flights, Entry!MeServed(f) PROVE Entry!SignInTypeOK'
  <2>1. PICK v : tab' = [tab EXCEPT !.user = f.token.who, !.loading = FALSE, !.page = v]
    BY <1>14 DEF Entry!MeServed
  <2>2. browser' = browser /\ flights' = flights \ {f}
    BY <1>14 DEF Entry!MeServed
  <2>3. Entry!TabOK(tab')
    BY <1>0, <2>1 DEF Entry!TabOK, Entry!FreshTab, Entry!OnItsWay
  <2> QED BY <1>0, <1>a, <2>2, <2>3
<1>15. ASSUME NEW f \in flights, Entry!MeFails(f) PROVE Entry!SignInTypeOK'
  <2>0. PICK u \in {tab.user, Entry!Nobody} :
          \E v : tab' = [tab EXCEPT !.loading = FALSE, !.user = u, !.page = v]
    BY <1>15 DEF Entry!MeFails
  <2>1. PICK v : tab' = [tab EXCEPT !.loading = FALSE, !.user = u, !.page = v]
    BY <2>0
  <2>2. browser' = browser /\ flights' = flights \ {f}
    BY <1>15 DEF Entry!MeFails
  <2>3. Entry!TabOK(tab')
    BY <1>0, <2>1 DEF Entry!TabOK, Entry!FreshTab
  <2> QED BY <1>0, <1>a, <2>2, <2>3
<1>16. ASSUME NEW f \in flights, Entry!MeRefused(f) PROVE Entry!SignInTypeOK'
  <2>1. Entry!Refreshes(f) /\ f.kind = "me" /\ Entry!OnItsWay(f)
    BY <1>0, <1>16 DEF Entry!MeRefused
  <2>2. f.then \in {"none", "guard", "login"}
    BY <2>1 DEF Entry!OnItsWay
  <2> QED BY <1>e, <2>1, <2>2
<1>17. ASSUME NEW f \in flights, Entry!RefreshServed(f) PROVE Entry!SignInTypeOK'
  <2>1. /\ browser' = [browser EXCEPT !.access = f.token, !.refresh = f.token, !.old = FALSE]
             /\ tab' = tab
        /\ flights' = (flights \ {f}) \union
                      (IF f.then = "none" THEN {} ELSE {Entry!Flight("me", f.token, f.then)})
        /\ f.kind = "refresh"
    BY <1>17 DEF Entry!RefreshServed, Entry!Tokens
  <2>2. f.token.who \in People /\ f.then \in {"none", "guard", "login"}
    BY <1>0, <2>1 DEF Entry!OnItsWay
  <2>3. f.then # "none" => Entry!OnItsWay(Entry!Flight("me", f.token, f.then))
    BY <2>2, FlightOK
  <2>4. Entry!KeptOK(browser')
    BY <1>c, <2>1, <2>2
  <2> QED BY <1>0, <1>a, <2>1, <2>3, <2>4
<1>18. ASSUME NEW f \in flights, Entry!RefreshFails(f) PROVE Entry!SignInTypeOK'
  BY <1>d, <1>18 DEF Entry!RefreshFails
<1>19. ASSUME UNCHANGED Entry!session PROVE Entry!SignInTypeOK'
  BY <1>0, <1>19, <1>a DEF Entry!session
<1> QED BY <1>1, <1>2, <1>3, <1>5, <1>6, <1>7, <1>8, <1>9, <1>10, <1>11, <1>12, <1>13, <1>14,
           <1>15, <1>16, <1>17, <1>18, <1>19 DEF Entry!SignInNext

\* A page that is loaded, or a door that lets somebody in: nobody is signed in
\* until the answer to "who is this" comes.
LEMMA Enters ==
  ASSUME Entry!SignInTypeOK', NEW t, Entry!TabOK(t), t.user = Entry!Nobody, ~t.loading,
         t.page \in Entry!Homes \union {"root"},
         tab' = Entry!Guarded(t, browser'.access), flights' = Entry!AsksWho(t, browser'.access),
           ~signedOut' \/ browser'.access = Entry!NoToken
  PROVE  Entry!SignInInv'
<1>1. CASE browser'.access = Entry!NoToken
  <2>1. tab' = [t EXCEPT !.page = "login"] /\ flights' = {}
    BY <1>1 DEF Entry!Guarded, Entry!AsksWho
  <2>2. tab'.user = Entry!Nobody
    BY <2>1 DEF Entry!TabOK, Entry!FreshTab
  <2> QED BY <1>1, <2>1, <2>2, QuietTab
<1>2. CASE browser'.access # Entry!NoToken
  <2> DEFINE g == Entry!Flight("me", browser'.access, "guard")
  <2>1. tab' = [t EXCEPT !.loading = TRUE] /\ flights' = {g}
    BY <1>2 DEF Entry!Guarded, Entry!AsksWho
  <2>2. tab'.user = Entry!Nobody /\ tab'.page = t.page /\ tab'.loading
    BY <2>1 DEF Entry!TabOK, Entry!FreshTab
  <2>3. g.kind = "me" /\ g.token = browser'.access /\ g.then = "guard" /\ Entry!InHand(g)
    BY DEF Entry!Flight, Entry!InHand
  <2> HIDE DEF g
  <2>4. t.page # "reset"
    BY HomesApart
  <2> QED BY <1>2, <2>1, <2>2, <2>3, <2>4, AskingTab DEF Entry!Doors
<1> QED BY <1>1, <1>2

LEMMA SignInStep ==
  Entry!SignInInv /\ (Entry!SignInNext \/ UNCHANGED Entry!session) => Entry!SignInInv'
<1> SUFFICES ASSUME Entry!SignInInv, Entry!SignInNext \/ UNCHANGED Entry!session
             PROVE Entry!SignInInv'
  OBVIOUS
<1>0. Entry!SignInTypeOK /\ Entry!SignInTypeOK'
  BY SignInTypes DEF Entry!SignInInv
<1>t. Entry!TabOK(tab) /\ Entry!KeptOK(browser) /\ (\A f \in flights : Entry!OnItsWay(f))
        /\ DOMAIN tab = DOMAIN Entry!FreshTab("login")
      /\ Entry!KeptOK(browser') /\ (\A f \in flights' : Entry!OnItsWay(f))
  BY <1>0 DEF Entry!SignInTypeOK, Entry!TabOK
<1>n. refreshCrossed => refreshCrossed'
  <2>1. refreshCrossed' = refreshCrossed \/ Entry!Logout
    BY DEF Entry!SignInNext, Entry!Visit, Entry!SubmitLogin, Entry!SubmitRegister,
       Entry!PressKey, Entry!ResolveVenue, Entry!ChangeVenue, Entry!DeleteKey,
           Entry!ToggleForgot, Entry!SendLink, Entry!SetPassword, Entry!TokenGrowsOld,
           Entry!CallRefused, Entry!LoginServed, Entry!DoorServed,
           Entry!DoorFails, Entry!MeServed, Entry!MeFails, Entry!MeRefused,
           Entry!RefreshServed, Entry!RefreshFails, Entry!Ghosts, Entry!session
  <2> QED BY <2>1 DEF Entry!Logout
<1>c. CASE refreshCrossed'
  BY <1>0, <1>c DEF Entry!SignInInv
<1> SUFFICES ASSUME ~refreshCrossed PROVE Entry!SignInInv'
  BY <1>n, <1>c
<1>p. Entry!OneInHand /\ Entry!AskedFromHere /\ Entry!OnePerson
  BY DEF Entry!SignInInv
<1>d. ASSUME Entry!Cleared PROVE Entry!SignInInv'
  <2>1. browser'.access = Entry!NoToken /\ tab'.user = Entry!Nobody /\ flights' = {}
    BY <1>d, FreshTabOK DEF Entry!Cleared
  <2> QED BY <1>0, <2>1, QuietTab
\* The page alone, and its page and its person not.
<1>e. ASSUME UNCHANGED <<flights, signedOut>>, browser'.access = browser.access,
             tab'.page = tab.page,
             tab'.user = tab.user, tab.loading => tab'.loading
      PROVE  Entry!SignInInv'
  <2>1. Entry!OneInHand'
    BY <1>p, <1>e DEF Entry!OneInHand
  <2>2. Entry!AskedFromHere'
    BY <1>p, <1>e DEF Entry!AskedFromHere
  <2>3. Entry!OnePerson'
    BY <1>p, <1>e DEF Entry!OnePerson
  <2> QED BY <1>0, <2>1, <2>2, <2>3 DEF Entry!SignInInv
<1>1. ASSUME NEW page, Entry!Visit(page) PROVE Entry!SignInInv'
  <2>1. UNCHANGED <<browser, signedOut>>
    BY <1>1 DEF Entry!Visit, Entry!Ghosts
  <2>2. signedOut => browser.access = Entry!NoToken
    BY <1>p DEF Entry!OnePerson
  <2>3. CASE page \in Entry!Homes \union {"root"}
    <3>1. tab' = Entry!Guarded(Entry!FreshTab(page), browser.access)
            /\ flights' = Entry!AsksWho(Entry!FreshTab(page), browser.access)
      BY <1>1, <2>3 DEF Entry!Visit
    <3> QED BY <1>0, <2>1, <2>2, <2>3, <3>1, FreshTabOK, Enters
  <2>4. CASE page \notin Entry!Homes \union {"root"}
    <3>1. PICK v : tab' = [Entry!FreshTab(page) EXCEPT !.step = v]
      BY <1>1, <2>4 DEF Entry!Visit
    <3>2. tab'.user = Entry!Nobody
      BY <3>1 DEF Entry!FreshTab
    <3>3. flights' = {}
      BY <1>1, <2>4 DEF Entry!Visit
    <3> QED BY <1>0, <2>1, <2>2, <3>2, <3>3, QuietTab
  <2> QED BY <2>3, <2>4
\* A form that sends.
<1>2. ASSUME NEW kind \in Entry!Doors, NEW token, flights' = flights \union {Entry!Flight(kind,
             token, "none")},
             UNCHANGED <<browser, signedOut>>, tab.page = kind, ~tab.loading, tab'.page = tab.page,
             tab'.user = tab.user, tab'.loading
      PROVE  Entry!SignInInv'
  <2> DEFINE g == Entry!Flight(kind, token, "none")
  <2>1. g.kind = kind /\ g.then = "none" /\ Entry!InHand(g)
    BY DEF Entry!Flight, Entry!InHand, Entry!Doors
  <2>2. flights' = flights \union {g}
    BY <1>2
  <2> HIDE DEF g
  <2>3. tab.page \notin Entry!Homes /\ tab'.page # "reset" /\ kind \notin {"me", "refresh"}
    BY <1>2, HomesApart DEF Entry!Doors
  <2>4. flights = {} /\ tab.user = Entry!Nobody
    BY <1>2, <2>3, IdleTab
  <2>5. signedOut' => browser'.access = Entry!NoToken
    BY <1>2, <1>p DEF Entry!OnePerson
  <2> QED BY <1>0, <1>2, <2>1, <2>2, <2>3, <2>4, <2>5, AskingTab
<1>3. ASSUME NEW p \in People, Entry!SubmitLogin(p) \/ Entry!SubmitRegister(p)
      PROVE Entry!SignInInv'
  <2>1. tab' = [tab EXCEPT !.loading = TRUE] /\ UNCHANGED <<browser, signedOut>> /\ ~tab.loading
    BY <1>3 DEF Entry!SubmitLogin, Entry!SubmitRegister, Entry!LoginForm, Entry!RegisterForm,
       Entry!Ghosts
  <2>2. tab'.page = tab.page /\ tab'.user = tab.user /\ tab'.loading
    BY <1>t, <2>1 DEF Entry!FreshTab
  <2>3. PICK kind \in {"login", "register"} :
           tab.page = kind
             /\ flights' = flights \union {Entry!Flight(kind, Entry!TokenOf(p), "none")}
    BY <1>3 DEF Entry!SubmitLogin, Entry!SubmitRegister, Entry!LoginForm, Entry!RegisterForm
  <2> QED BY <1>2, <2>1, <2>2, <2>3 DEF Entry!Doors
<1>4. ASSUME NEW p \in People, Entry!PressKey(p) PROVE Entry!SignInInv'
  <2>1. /\ tab' = [tab EXCEPT !.digits = @ + 1, !.loading = tab.digits = 3] /\ UNCHANGED <<browser,
             signedOut>>
        /\ ~tab.loading /\ tab.page = "pin"
    BY <1>4 DEF Entry!PressKey, Entry!PinPad, Entry!Ghosts
  <2>2. tab'.page = tab.page /\ tab'.user = tab.user
    BY <1>t, <2>1 DEF Entry!FreshTab
  <2>3. CASE tab.digits = 3
    <3>1. tab'.loading = TRUE
      BY <1>t, <2>1, <2>3 DEF Entry!FreshTab
    <3>2. flights' = flights \union {Entry!Flight("pin", Entry!TokenOf(p), "none")}
      BY <1>4, <2>3 DEF Entry!PressKey
    <3> QED BY <1>2, <2>1, <2>2, <3>1, <3>2 DEF Entry!Doors
  <2>4. CASE tab.digits # 3
    <3>1. flights' = flights
      BY <1>4, <2>4 DEF Entry!PressKey
    <3> QED BY <1>e, <2>1, <2>2, <3>1
  <2> QED BY <2>3, <2>4
<1>5. ASSUME Entry!ResolveVenue \/ Entry!ChangeVenue \/ Entry!DeleteKey \/ Entry!ToggleForgot
      PROVE Entry!SignInInv'
  <2>1. PICK v : \/ tab' = [tab EXCEPT !.step = v] \/ tab' = [tab EXCEPT !.step = v, !.digits = 0]
                 \/ tab' = [tab EXCEPT !.digits = v] \/ tab' = [tab EXCEPT !.forgot = v]
    BY <1>5 DEF Entry!ResolveVenue, Entry!ChangeVenue, Entry!DeleteKey, Entry!ToggleForgot
  <2>2. UNCHANGED <<flights, signedOut, browser>>
    BY <1>5 DEF Entry!ResolveVenue, Entry!ChangeVenue, Entry!DeleteKey, Entry!ToggleForgot,
       Entry!Ghosts
  <2>3. tab'.page = tab.page /\ tab'.user = tab.user /\ tab'.loading = tab.loading
    BY <1>t, <2>1 DEF Entry!FreshTab
  <2> QED BY <1>e, <2>2, <2>3
<1>6. ASSUME NEW p \in People, Entry!SendLink(p) PROVE Entry!SignInInv'
  <2>1. tab' = [tab EXCEPT !.forgot = "sent"] /\ UNCHANGED <<flights, signedOut, browser>>
    BY <1>6 DEF Entry!SendLink, Entry!Ghosts
  <2>2. tab'.page = tab.page /\ tab'.user = tab.user /\ tab'.loading = tab.loading
    BY <1>t, <2>1 DEF Entry!FreshTab
  <2> QED BY <1>e, <2>1, <2>2
<1>7. ASSUME NEW p \in People, Entry!SetPassword(p) PROVE Entry!SignInInv'
  <2>1. tab.page = "reset" /\ tab' = Entry!FreshTab("login") /\ UNCHANGED <<flights, signedOut,
          browser>>
    BY <1>7 DEF Entry!SetPassword, Entry!ResetForm, Entry!Ghosts
  <2>2. flights' = {} /\ (signedOut' => browser'.access = Entry!NoToken)
    BY <1>p, <2>1 DEF Entry!OnePerson
  <2>3. tab'.user = Entry!Nobody
    BY <2>1, FreshTabOK
  <2> QED BY <1>0, <2>2, <2>3, QuietTab
<1>8. ASSUME Entry!TokenGrowsOld PROVE Entry!SignInInv'
  <2>1. browser' = [browser EXCEPT !.old = TRUE] /\ UNCHANGED <<tab, flights, signedOut>>
    BY <1>8 DEF Entry!TokenGrowsOld, Entry!Ghosts
  <2>2. browser'.access = browser.access
    BY <1>t, <2>1 DEF Entry!KeptOK
  <2> QED BY <1>e, <2>1, <2>2
<1>9. ASSUME Entry!Logout PROVE Entry!SignInInv'
  <2>1. CASE \E f \in flights : f.kind = "refresh"
    <3>1. refreshCrossed'
      BY <1>9, <2>1, Zenon DEF Entry!Logout
    <3> QED BY <1>c, <3>1
  <2>2. CASE \A f \in flights : f.kind # "refresh"
    <3>1. ~tab.loading /\ browser' = Entry!Removed(browser) /\ tab' = Entry!FreshTab("login")
            /\ flights' = flights
      BY <1>9 DEF Entry!Logout, Entry!Station
    <3>2. flights = {}
      BY <1>p, <2>2, <3>1 DEF Entry!OneInHand, Entry!InHand
    <3>3. tab'.user = Entry!Nobody /\ browser'.access = Entry!NoToken
      BY <1>t, <3>1, FreshTabOK DEF Entry!Removed, Entry!KeptOK
    <3> QED BY <1>0, <3>1, <3>2, <3>3, QuietTab
  <2> QED BY <2>1, <2>2
<1>10. ASSUME Entry!CallRefused PROVE Entry!SignInInv'
  <2> DEFINE g == Entry!Flight("refresh", browser.refresh, "none")
  <2>1. CASE browser.refresh = Entry!NoToken
    BY <1>d, <1>10, <2>1 DEF Entry!CallRefused, Entry!Refreshes
  <2>2. CASE browser.refresh # Entry!NoToken
    <3>1. /\ flights' = (flights \ {Entry!Flight("call", browser.access, "none")}) \union {g}
          /\ UNCHANGED <<tab, browser, signedOut>> /\ ~tab.loading /\ tab.page \in Entry!Homes
      BY <1>10, <2>2 DEF Entry!CallRefused, Entry!Refreshes, Entry!Flight, Entry!Station
    <3>2. g.kind = "refresh" /\ g.then = "none" /\ g.token = browser.refresh /\ ~Entry!InHand(g)
      BY DEF Entry!Flight, Entry!InHand
    <3> HIDE DEF g
    <3>3. \A f \in flights' : f = g \/ f \in flights
      BY <3>1
    <3>4. \A f \in flights' : ~Entry!InHand(f)
      BY <1>p, <3>1, <3>2, <3>3 DEF Entry!OneInHand
    <3>5. Entry!OneInHand'
      BY <3>4 DEF Entry!OneInHand
    <3>6. Entry!AskedFromHere'
      BY <1>p, <3>1, <3>2, <3>3 DEF Entry!AskedFromHere, Entry!Doors
    <3>7. tab.page # "reset"
      BY <3>1, HomesApart
    <3>8. Entry!OnePerson'
      BY <1>p, <1>t, <3>1, <3>2, <3>3, <3>7 DEF Entry!OnePerson, Entry!KeptOK
    <3> QED BY <1>0, <3>5, <3>6, <3>8 DEF Entry!SignInInv
  <2> QED BY <2>1, <2>2
<1>11. ASSUME NEW f \in flights, Entry!LoginServed(f) PROVE Entry!SignInInv'
  <2> DEFINE g == Entry!Flight("me", f.token, "login")
  <2>1. /\ browser' = [browser EXCEPT !.access = f.token, !.refresh = f.token, !.old = FALSE]
             /\ tab' = tab
        /\ flights' = (flights \ {f}) \union {g} /\ f.kind = "login" /\ signedOut' = FALSE
    BY <1>11 DEF Entry!LoginServed, Entry!Tokens
  <2>2. g.kind = "me" /\ g.then = "login" /\ g.token = f.token /\ Entry!InHand(g)
    BY DEF Entry!Flight, Entry!InHand
  <2>3. Entry!InHand(f) /\ tab.page = "login"
    BY <1>p, <2>1 DEF Entry!InHand, Entry!AskedFromHere, Entry!Doors
  <2>4. flights' = {g} /\ tab.loading
    BY <2>1, <2>3, AloneInFlight
  <2> HIDE DEF g
  <2>5. tab.user = Entry!Nobody
    BY <1>p, <2>3, HomesApart DEF Entry!OnePerson
  <2>6. browser'.access = f.token
    BY <1>t, <2>1 DEF Entry!KeptOK
  <2> QED BY <1>0, <2>1, <2>2, <2>3, <2>4, <2>5, <2>6, AskingTab DEF Entry!Doors
<1>12. ASSUME NEW f \in flights, Entry!DoorServed(f) PROVE Entry!SignInInv'
  <2> DEFINE t == [tab EXCEPT !.page = HomeOf[f.token.who], !.loading = FALSE]
  <2>1. PICK v : browser' = [browser EXCEPT !.access = f.token, !.refresh = f.token, !.old = FALSE,
               !.venue = v]
    BY <1>12 DEF Entry!DoorServed
  <2>2. /\ tab' = Entry!Guarded(t, f.token)
             /\ flights' = (flights \ {f}) \union Entry!AsksWho(t, f.token)
        /\ signedOut' = FALSE /\ f.kind \in Entry!Doors /\ f.kind \in {"pin", "register"}
    BY <1>12 DEF Entry!DoorServed, Entry!Doors
  <2>3. Entry!InHand(f) /\ tab.page = f.kind
    BY <1>p, <2>2 DEF Entry!InHand, Entry!AskedFromHere, Entry!Doors
  <2>4. flights' = Entry!AsksWho(t, f.token)
    BY <2>2, <2>3, AloneInFlight
  <2>5. tab.user = Entry!Nobody
    BY <1>p, <2>2, <2>3, HomesApart DEF Entry!OnePerson
  <2>6. browser'.access = f.token
    BY <1>t, <2>1 DEF Entry!KeptOK
  <2>7. f.token.who \in People
    BY <1>t DEF Entry!OnItsWay
  <2>8. t.page \in Entry!Homes /\ ~t.loading /\ t.user = Entry!Nobody /\ Entry!TabOK(t)
    BY <1>t, <2>5, <2>7 DEF Entry!TabOK, Entry!FreshTab, Entry!Homes
  <2> HIDE DEF t
  <2> QED BY <1>0, <2>2, <2>4, <2>6, <2>8, Enters
<1>13. ASSUME NEW f \in flights, Entry!DoorFails(f) PROVE Entry!SignInInv'
  <2>1. /\ flights' = flights \ {f} /\ tab' = [tab EXCEPT !.loading = FALSE, !.digits = 0]
        /\ UNCHANGED <<browser, signedOut>> /\ f.kind \in Entry!Doors
    BY <1>13 DEF Entry!DoorFails, Entry!Ghosts, Entry!Doors
  <2>2. Entry!InHand(f)
    BY <2>1 DEF Entry!InHand, Entry!Doors
  <2>3. flights' = {}
    BY <2>1, <2>2, AloneInFlight
  <2>4. tab'.page = tab.page /\ tab'.user = tab.user
    BY <1>t, <2>1 DEF Entry!FreshTab
  <2> QED BY <1>0, <1>p, <2>1, <2>3, <2>4, QuietTab DEF Entry!OnePerson
<1>14. ASSUME NEW f \in flights, Entry!MeServed(f) PROVE Entry!SignInInv'
  <2>1. PICK p : p = f.token.who
    OBVIOUS
  <2>2. /\ f.kind = "me" /\ flights' = flights \ {f} /\ UNCHANGED <<browser, signedOut>>
        /\ tab' = [tab EXCEPT !.user = p, !.loading = FALSE,
                     !.page = IF f.then = "login" THEN HomeOf[p] ELSE Entry!RoleHome(tab.page, p)]
    BY <1>14, <2>1 DEF Entry!MeServed, Entry!Ghosts
  <2>3. Entry!InHand(f) /\ f.then \in {"guard", "login"} /\ p \in People /\ p = browser.access.who
    BY <1>p, <1>t, <2>1, <2>2 DEF Entry!InHand, Entry!OnItsWay, Entry!OnePerson
  <2>4. flights' = {}
    BY <2>2, <2>3, AloneInFlight
  <2>5. f.then = "guard" => Entry!RoleHome(tab.page, p) = HomeOf[p]
    BY <1>p DEF Entry!AskedFromHere, Entry!RoleHome
  <2>6. (IF f.then = "login" THEN HomeOf[p] ELSE Entry!RoleHome(tab.page, p)) = HomeOf[p]
    BY <2>3, <2>5
  <2>7. tab'.user = p /\ tab'.page = HomeOf[p] /\ HomeOf[p] \in Entry!Homes
    BY <1>t, <2>2, <2>3, <2>6 DEF Entry!FreshTab, Entry!Homes
  <2> QED BY <1>0, <1>p, <2>2, <2>3, <2>4, <2>7, QuietTab DEF Entry!OnePerson
<1>15. ASSUME NEW f \in flights, Entry!MeFails(f) PROVE Entry!SignInInv'
  <2>1. /\ f.kind = "me" /\ flights' = flights \ {f} /\ UNCHANGED <<browser, signedOut>>
        /\ tab' = [tab EXCEPT !.loading = FALSE,
             !.user = IF f.then = "login" THEN @ ELSE Entry!Nobody,
                     !.page = IF @ = "root" THEN "login" ELSE @]
    BY <1>15 DEF Entry!MeFails, Entry!Ghosts
  <2>2. Entry!InHand(f) /\ f.then \in {"guard", "login"}
    BY <1>t, <2>1 DEF Entry!InHand, Entry!OnItsWay
  <2>3. flights' = {}
    BY <2>1, <2>2, AloneInFlight
  <2>4. f.then = "login" => tab.user = Entry!Nobody
    BY <1>p, HomesApart DEF Entry!AskedFromHere, Entry!OnePerson
  <2>5. tab'.user = IF f.then = "login" THEN tab.user ELSE Entry!Nobody
    BY <1>t, <2>1 DEF Entry!FreshTab
  <2> QED BY <1>0, <1>p, <2>1, <2>3, <2>4, <2>5, QuietTab DEF Entry!OnePerson
<1>16. ASSUME NEW f \in flights, Entry!MeRefused(f) PROVE Entry!SignInInv'
  <2> DEFINE g == Entry!Flight("refresh", browser.refresh, f.then)
  <2>1. Entry!Refreshes(f) /\ f.kind = "me"
    BY <1>16 DEF Entry!MeRefused
  <2>2. CASE browser.refresh = Entry!NoToken
    BY <1>d, <2>1, <2>2 DEF Entry!Refreshes
  <2>3. CASE browser.refresh # Entry!NoToken
    <3>1. flights' = (flights \ {f}) \union {g} /\ UNCHANGED <<tab, browser, signedOut>>
      BY <2>1, <2>3 DEF Entry!Refreshes
    <3>2. Entry!InHand(f) /\ f.then \in {"guard", "login"}
      BY <1>t, <2>1 DEF Entry!InHand, Entry!OnItsWay
    <3>3. flights' = {g} /\ tab.loading
      BY <3>1, <3>2, AloneInFlight
    <3>4. g.kind = "refresh" /\ g.then = f.then /\ g.token = browser.refresh /\ Entry!InHand(g)
      BY <3>2 DEF Entry!Flight, Entry!InHand
    <3> HIDE DEF g
    <3>5. /\ f.then = "login" => tab.page = "login"
          /\ f.then = "guard" => tab.page \in Entry!Homes \union {"root"}
      BY <1>p DEF Entry!AskedFromHere
    <3>6. tab.page # "reset"
      BY <3>2, <3>5, HomesApart
    <3>7. Entry!AskedFromHere'
      BY <3>1, <3>3, <3>4, <3>5 DEF Entry!AskedFromHere, Entry!Doors
    <3>8. Entry!OneInHand'
      BY <3>1, <3>3, <3>4 DEF Entry!OneInHand
    <3>9. Entry!OnePerson'
      BY <1>p, <1>t, <3>1, <3>3, <3>4, <3>6 DEF Entry!OnePerson, Entry!KeptOK
    <3> QED BY <1>0, <3>7, <3>8, <3>9 DEF Entry!SignInInv
  <2> QED BY <2>2, <2>3
<1>17. ASSUME NEW f \in flights, Entry!RefreshServed(f) PROVE Entry!SignInInv'
  <2>1. /\ browser' = [browser EXCEPT !.access = f.token, !.refresh = f.token, !.old = FALSE]
        /\ flights' = (flights \ {f}) \union
                      (IF f.then = "none" THEN {} ELSE {Entry!Flight("me", f.token, f.then)})
        /\ f.kind = "refresh" /\ UNCHANGED <<tab, signedOut>>
    BY <1>17 DEF Entry!RefreshServed, Entry!Tokens, Entry!Ghosts
  <2>2. browser'.access = f.token /\ f.token.who = browser.access.who /\ f.token.who \in People
    BY <1>p, <1>t, <2>1 DEF Entry!KeptOK, Entry!OnePerson, Entry!OnItsWay
  <2>3. ~signedOut
    BY <1>p, <2>2, NobodyApart DEF Entry!OnePerson, Entry!NoToken
  <2>4. CASE f.then = "none"
    <3>1. flights' \subseteq flights
      BY <2>1, <2>4
    <3>2. Entry!OneInHand' /\ Entry!AskedFromHere'
      BY <1>p, <2>1, <3>1 DEF Entry!OneInHand, Entry!AskedFromHere
    <3>3. Entry!OnePerson'
      BY <1>p, <2>1, <2>2, <2>3, <3>1 DEF Entry!OnePerson
    <3> QED BY <1>0, <3>2, <3>3 DEF Entry!SignInInv
  <2>5. CASE f.then # "none"
    <3> DEFINE g == Entry!Flight("me", f.token, f.then)
    <3>1. Entry!InHand(f)
      BY <2>5 DEF Entry!InHand
    <3>2. flights' = {g} /\ tab.loading
      BY <2>1, <2>5, <3>1, AloneInFlight
    <3>3. g.kind = "me" /\ g.then = f.then /\ g.token = f.token /\ Entry!InHand(g)
      BY DEF Entry!Flight, Entry!InHand
    <3> HIDE DEF g
    <3>4. /\ f.then = "login" => tab.page = "login"
          /\ f.then = "guard" => tab.page \in Entry!Homes \union {"root"}
          /\ f.then \in {"login", "guard"}
      BY <1>p, <1>t, <2>1, <2>5 DEF Entry!AskedFromHere, Entry!OnItsWay
    <3>5. tab.page # "reset"
      BY <3>4, HomesApart
    <3>6. Entry!AskedFromHere'
      BY <2>1, <3>2, <3>3, <3>4 DEF Entry!AskedFromHere, Entry!Doors
    <3>7. Entry!OneInHand'
      BY <2>1, <3>2, <3>3 DEF Entry!OneInHand
    <3>8. Entry!OnePerson'
      BY <1>p, <2>1, <2>2, <2>3, <3>2, <3>3, <3>5 DEF Entry!OnePerson
    <3> QED BY <1>0, <3>6, <3>7, <3>8 DEF Entry!SignInInv
  <2> QED BY <2>4, <2>5
<1>18. ASSUME NEW f \in flights, Entry!RefreshFails(f) PROVE Entry!SignInInv'
  BY <1>d, <1>18 DEF Entry!RefreshFails
<1>19. ASSUME UNCHANGED Entry!session PROVE Entry!SignInInv'
  BY <1>e, <1>19 DEF Entry!session
<1> QED BY <1>1, <1>3, <1>4, <1>5, <1>6, <1>7, <1>8, <1>9, <1>10, <1>11, <1>12, <1>13, <1>14,
           <1>15, <1>16, <1>17, <1>18, <1>19 DEF Entry!SignInNext

LEMMA SignInSafe == Entry!SignInInv => Entry!TokenIsTheScreens
  BY DEF Entry!SignInInv, Entry!OnePerson, Entry!TokenIsTheScreens, Entry!Station

\* For any staff and any number of requests: a shared tablet acts as the person it
\* shows, and as nobody after a sign-out (lib/api.ts:26-37).
THEOREM TokenAsShown == Spec => []TokenIsTheScreens
<1>1. Init => Entry!SignInInv
  BY SignInStart DEF Init
<1>2. Entry!SignInInv /\ [Next]_vars => Entry!SignInInv'
  <2> SUFFICES ASSUME Entry!SignInInv, [Next]_vars PROVE Entry!SignInInv'
    OBVIOUS
  <2>1. Entry!SignInNext \/ UNCHANGED Entry!session
    BY DEF Next, Only, vars, entryVars, Entry!session
  <2> QED BY <2>1, SignInStep
<1>3. Entry!SignInInv => TokenIsTheScreens
  BY SignInSafe DEF TokenIsTheScreens
<1> QED BY <1>1, <1>2, <1>3, PTL DEF Spec

-----------------------------------------------------------------------------
\* The shifts.  The invariant is ShiftsTypeOK with RequestsInv, OneShiftInv and
\* OriginalsInv.  Two open shifts are seen only when the second request commits, so
\* the invariant says what may be true while requests are under way: nobody is
\* clocked in while a request to clock in is, and the times a correction has read
\* are the clock's until a clock-out commits.
ShiftsIInv == ShiftsTypeOK /\ RequestsInv /\ OneShiftInv /\ OriginalsInv

USE DEF None, NoTimes

LEMMA ShiftsStart == ShiftsInit => ShiftsIInv
<1> SUFFICES ASSUME ShiftsInit PROVE ShiftsIInv
  OBVIOUS
<1>1. NoShift \in Shift /\ NoShift.started = None /\ <<None, None>> \in Times
  BY DEF NoShift, Opened, Shift, Times
<1>2. Started = {} /\ tasks = {}
  BY <1>1 DEF ShiftsInit, Started
<1>3. ShiftsTypeOK
  <2>1. Started = 1 .. 0
    BY <1>2
  <2>2. \E n \in Nat : Started = 1 .. n
    BY <2>1
  <2>3. shift \in [Ids -> Shift] /\ clocked \in [Ids -> Times]
    BY <1>1 DEF ShiftsInit
  <2>4. tasks \subseteq Request /\ raced \subseteq Ids /\ form \in Started \union {NoForm}
    BY <1>2 DEF ShiftsInit
  <2>5. hour \in Nat \ {0}
    BY DEF ShiftsInit
  <2>6. met \in BOOLEAN
    BY DEF ShiftsInit
  <2> QED BY <2>2, <2>3, <2>4, <2>5, <2>6 DEF ShiftsTypeOK
<1>4. RequestsInv /\ OneShiftInv /\ OriginalsInv
  BY <1>2 DEF RequestsInv, OneShiftInv, OriginalsInv, OriginalIsClock, Doing, OpenShift
<1> QED BY <1>3, <1>4 DEF ShiftsIInv

\* The parts of the invariant that are about the shifts and the requests.
Rows == <<shift, tasks, clocked, met, raced>>

\* The station's button, the owner's form and the clock.
LEMMA QuietStep ==
  ASSUME ShiftsIInv, UNCHANGED Rows, hour' \in Nat \ {0}, form' \in Started \union {NoForm}
  PROVE  ShiftsIInv'
<1>1. Started' = Started /\ OpenShift' = OpenShift
  BY DEF Rows, Started, OpenShift
<1>2. \A kind : Doing(kind)' = Doing(kind)
  BY DEF Rows, Doing
<1>3. ShiftsTypeOK'
  BY <1>1 DEF ShiftsIInv, ShiftsTypeOK, Rows
<1>4. RequestsInv'
  BY <1>1 DEF ShiftsIInv, RequestsInv, Rows
<1>5. OneShiftInv'
  BY <1>1, <1>2 DEF ShiftsIInv, OneShiftInv, Rows
<1>6. OriginalsInv'
  BY <1>1, <1>2 DEF ShiftsIInv, OriginalsInv, OriginalIsClock, Rows
<1> QED BY <1>3, <1>4, <1>5, <1>6 DEF ShiftsIInv

\* What sending a request, and committing one, do to the requests.
LEMMA Sent ==
  ASSUME NEW t, tasks' = tasks \union {t}
  PROVE  \A kind : /\ t.kind = kind => Doing(kind)' = Doing(kind) \union {t}
                   /\ t.kind # kind => Doing(kind)' = Doing(kind)
BY DEF Doing

LEMMA Gone ==
  ASSUME NEW t, tasks' = tasks \ {t}
  PROVE  \A kind : Doing(kind)' = Doing(kind) \ {t}
BY DEF Doing

\* A request to clock in finds nobody on shift; only a second one does so too.
LEMMA ClockInStep == ASSUME ShiftsIInv, ClockIn PROVE ShiftsIInv'
<1>1. PICK n \in 1 .. MaxTasks : tasks' = tasks \union {Task("in", n, hour, None, NoTimes)}
  BY DEF ClockIn
<1>2. /\ UNCHANGED <<form, hour, clocked, raced, shift>>
      /\ OpenShift = {} /\ met' = (met \/ Doing("in") # {})
  BY DEF ClockIn, Owner, AlreadyHas
<1> DEFINE t == Task("in", n, hour, None, NoTimes)
<1>3. t \in Request /\ t.kind = "in" /\ t.start # None
  BY DEF ShiftsIInv, ShiftsTypeOK, Task, Request, Times
<1>4. tasks' = tasks \union {t}
  BY <1>1
<1> HIDE DEF t
<1>5. /\ Doing("in")' = Doing("in") \union {t}
      /\ Doing("out")' = Doing("out") /\ Doing("fix")' = Doing("fix")
  BY <1>3, <1>4, Sent
<1>6. Started' = Started /\ OpenShift' = OpenShift
  BY <1>2 DEF Started, OpenShift
<1>7. ShiftsTypeOK'
  BY <1>2, <1>3, <1>4, <1>6 DEF ShiftsIInv, ShiftsTypeOK
<1>8. RequestsInv'
  BY <1>3, <1>4, <1>6 DEF ShiftsIInv, RequestsInv
<1>9. OneShiftInv'
  BY <1>2, <1>5, <1>6 DEF ShiftsIInv, OneShiftInv
<1>10. OriginalsInv'
  BY <1>2, <1>5, <1>6 DEF ShiftsIInv, OriginalsInv, OriginalIsClock
<1> QED BY <1>7, <1>8, <1>9, <1>10 DEF ShiftsIInv

\* The shifts are numbered without a gap, so the new one is new.
LEMMA NewIdIsNew ==
  ASSUME ShiftsIInv
  PROVE  /\ NewId \in Nat \ {0} /\ NewId \notin Started
         /\ \E n \in Nat : Started \union {NewId} = 1 .. n
<1>1. PICK n \in Nat : Started = 1 .. n
  BY DEF ShiftsIInv, ShiftsTypeOK
<1>2. Cardinality(Started) = n
  BY <1>1, FS_Interval
<1>3. NewId = n + 1 /\ Started \union {n + 1} = 1 .. (n + 1)
  BY <1>1, <1>2 DEF NewId
<1> QED BY <1>1, <1>3

\* The one who has been clocking in alone was on no shift, and is on one now.
LEMMA ClockInCommitsStep ==
  ASSUME ShiftsIInv, NEW t \in tasks, ClockInCommits(t)
  PROVE  ShiftsIInv'
<1> DEFINE n == NewId
<1>1. /\ t.kind = "in" /\ n \in Ids /\ tasks' = tasks \ {t}
      /\ shift' = [shift EXCEPT ![n] = Opened(t.start)]
      /\ clocked' = [clocked EXCEPT ![n] = <<t.start, None>>]
      /\ UNCHANGED <<form, hour, met, raced>>
  BY DEF ClockInCommits
<1>2. n \notin Started /\ \E k \in Nat : Started \union {n} = 1 .. k
  BY NewIdIsNew
<1> HIDE DEF n
<1>3. /\ shift'[n] = Opened(t.start) /\ \A i \in Ids \ {n} : shift'[i] = shift[i]
      /\ clocked'[n] = <<t.start, None>> /\ \A i \in Ids \ {n} : clocked'[i] = clocked[i]
  BY <1>1 DEF ShiftsIInv, ShiftsTypeOK
<1>4. t \in Request /\ t.start # None
  BY <1>1 DEF ShiftsIInv, ShiftsTypeOK, RequestsInv
<1>5. /\ Opened(t.start) \in Shift /\ Opened(t.start).started = t.start
      /\ Opened(t.start).ended = None /\ ~Opened(t.start).corrected
      /\ Opened(t.start).original = NoTimes /\ <<t.start, None>> \in Times
  BY <1>4 DEF Opened, Shift, Times, Request
<1>6. Started' = Started \union {n} /\ OpenShift' = OpenShift \union {n}
  BY <1>1, <1>3, <1>4, <1>5 DEF Started, OpenShift
<1>7. \A kind : Doing(kind)' = Doing(kind) \ {t}
  BY <1>1, Gone
<1>8. ShiftsTypeOK'
  BY <1>1, <1>2, <1>5, <1>6 DEF ShiftsIInv, ShiftsTypeOK
<1>9. RequestsInv'
  BY <1>1, <1>6 DEF ShiftsIInv, RequestsInv
<1>10. OneShiftInv'
  <2>1. t \in Doing("in")
    BY <1>1 DEF Doing
  <2> QED BY <1>1, <1>6, <1>7, <2>1 DEF ShiftsIInv, OneShiftInv
<1>11. OriginalsInv'
  <2>1. \A u \in Doing("out") \union Doing("fix") : u.id \in Started /\ u.id # n
    BY <1>2 DEF ShiftsIInv, RequestsInv, Doing
  <2>2. Started \subseteq Ids
    BY DEF Started
  <2> QED BY <1>1, <1>2, <1>3, <1>4, <1>5, <1>6, <1>7, <2>1, <2>2 DEF ShiftsIInv, OriginalsInv,
             OriginalIsClock
<1> QED BY <1>8, <1>9, <1>10, <1>11 DEF ShiftsIInv

\* A shift that is open is uncorrected.
LEMMA ClockOutStep == ASSUME ShiftsIInv, ClockOut PROVE ShiftsIInv'
<1>1. PICK i \in OpenShift :
        /\ tasks' = tasks \union {Task("out", i, None, hour, NoTimes)}
        /\ raced' = IF \E u \in Doing("fix") : u.id = i THEN raced \union {i} ELSE raced
  BY DEF ClockOut
<1>2. UNCHANGED <<form, hour, clocked, shift, met>>
  BY DEF ClockOut
<1> DEFINE t == Task("out", i, None, hour, NoTimes)
<1>3. i \in Started /\ shift[i].ended = None /\ ~shift[i].corrected
  BY DEF OpenShift, ShiftsIInv, OriginalsInv
<1>4. t \in Request /\ t.kind = "out" /\ t.id = i /\ t.end # None
  BY <1>3 DEF ShiftsIInv, ShiftsTypeOK, Task, Request, Times, Started, Ids
<1>5. tasks' = tasks \union {t}
  BY <1>1
<1> HIDE DEF t
<1>6. /\ Doing("out")' = Doing("out") \union {t}
      /\ Doing("in")' = Doing("in") /\ Doing("fix")' = Doing("fix")
  BY <1>4, <1>5, Sent
<1>7. Started' = Started /\ OpenShift' = OpenShift /\ i \in Ids
  BY <1>2, <1>3 DEF Started, OpenShift
<1>8. ShiftsTypeOK'
  BY <1>1, <1>2, <1>4, <1>5, <1>7 DEF ShiftsIInv, ShiftsTypeOK
<1>9. RequestsInv'
  BY <1>3, <1>4, <1>5, <1>7 DEF ShiftsIInv, RequestsInv
<1>10. OneShiftInv'
  BY <1>2, <1>6, <1>7 DEF ShiftsIInv, OneShiftInv
<1>11. OriginalsInv'
  BY <1>1, <1>2, <1>3, <1>4, <1>6, <1>7 DEF ShiftsIInv, OriginalsInv, OriginalIsClock
<1> QED BY <1>8, <1>9, <1>10, <1>11 DEF ShiftsIInv

\* The clock's end is the shift's, where no correction is under way.
LEMMA ClockOutCommitsStep ==
  ASSUME ShiftsIInv, NEW t \in tasks, ClockOutCommits(t)
  PROVE  ShiftsIInv'
<1>1. PICK r :
        /\ r = [shift[t.id] EXCEPT !.ended = t.end, !.by = "staff", !.flagged = FALSE]
        /\ shift' = [shift EXCEPT ![t.id] = r]
        /\ clocked' = [clocked EXCEPT ![t.id] = <<clocked[t.id][1], t.end>>]
        /\ t.kind = "out" /\ tasks' = tasks \ {t}
  BY DEF ClockOutCommits
<1>2. UNCHANGED <<form, hour, met, raced>>
  BY DEF ClockOutCommits
<1>3. t \in Request /\ t.id \in Started /\ t.end # None /\ t \in Doing("out")
  BY <1>1 DEF ShiftsIInv, ShiftsTypeOK, RequestsInv, Doing
<1>4. /\ t.id \in Ids /\ shift[t.id] \in Shift /\ shift[t.id].started # None
      /\ clocked[t.id] \in Times
  BY <1>3 DEF Started, ShiftsIInv, ShiftsTypeOK
<1>5. /\ r \in Shift /\ r.started = shift[t.id].started /\ r.ended = t.end
      /\ r.corrected = shift[t.id].corrected /\ r.original = shift[t.id].original
  BY <1>1, <1>3, <1>4 DEF Shift, Request
<1>6. <<clocked[t.id][1], t.end>> \in Times
  BY <1>3, <1>4 DEF Times, Request
<1>7. /\ shift'[t.id] = r /\ \A i \in Ids \ {t.id} : shift'[i] = shift[i]
      /\ clocked'[t.id] = <<clocked[t.id][1], t.end>>
      /\ \A i \in Ids \ {t.id} : clocked'[i] = clocked[i]
  BY <1>1, <1>4 DEF ShiftsIInv, ShiftsTypeOK
<1>8. Started' = Started /\ OpenShift' = OpenShift \ {t.id}
  BY <1>3, <1>4, <1>5, <1>7 DEF Started, OpenShift
<1>9. \A kind : Doing(kind)' = Doing(kind) \ {t}
  BY <1>1, Gone
<1>10. ShiftsTypeOK'
  BY <1>1, <1>2, <1>5, <1>6, <1>8 DEF ShiftsIInv, ShiftsTypeOK
<1>11. RequestsInv'
  BY <1>1, <1>8 DEF ShiftsIInv, RequestsInv
<1>12. OneShiftInv'
  BY <1>2, <1>8, <1>9 DEF ShiftsIInv, OneShiftInv
<1>13. OriginalsInv'
  <2>1. ASSUME NEW i \in Started
        PROVE  /\ clocked'[i][1] # None
               /\ ~shift'[i].corrected => /\ shift'[i].original = NoTimes
                                         /\ clocked'[i] = <<shift'[i].started, shift'[i].ended>>
               /\ shift'[i].corrected => shift'[i].ended # None
               /\ shift'[i].corrected /\ i \notin raced => shift'[i].original = clocked'[i]
    <3>1. CASE i = t.id
      <4>1. clocked'[i][1] = clocked[i][1]
        BY <1>7, <3>1
      <4>2. ~shift[i].corrected => clocked[i][1] = shift[i].started
        BY DEF ShiftsIInv, OriginalsInv, OriginalIsClock
      <4> QED BY <1>3, <1>5, <1>7, <3>1, <4>1, <4>2 DEF ShiftsIInv, OriginalsInv,
                 OriginalIsClock
    <3>2. CASE i # t.id
      BY <1>7, <3>2 DEF ShiftsIInv, OriginalsInv, OriginalIsClock, Started
    <3> QED BY <3>1, <3>2
  <2>2. ASSUME NEW u \in Doing("out"), u.id \notin raced
        PROVE  /\ ~shift'[u.id].corrected
               /\ \A v \in Doing("fix") : v.id # u.id
    <3>1. u.id \in Ids
      BY DEF ShiftsIInv, RequestsInv, Doing, Started
    <3> QED BY <1>5, <1>7, <2>2, <3>1 DEF ShiftsIInv, OriginalsInv, OriginalIsClock
  <2>3. ASSUME NEW u \in Doing("fix"), u.id \notin raced PROVE u.original = clocked'[u.id]
    <3>1. u.id \in Ids /\ u.id # t.id
      BY <1>3, <2>3 DEF ShiftsIInv, OriginalsInv, OriginalIsClock, RequestsInv, Doing, Started
    <3> QED BY <1>7, <2>3, <3>1 DEF ShiftsIInv, OriginalsInv, OriginalIsClock
  <2> QED BY <1>2, <1>8, <1>9, <2>1, <2>2, <2>3 DEF OriginalsInv, OriginalIsClock
<1> QED BY <1>10, <1>11, <1>12, <1>13 DEF ShiftsIInv

\* Flags are of no account.
LEMMA FlagStep == ASSUME ShiftsIInv, FlagUnclosed PROVE ShiftsIInv'
<1>1. /\ UNCHANGED <<form, tasks, raced, hour, clocked, met>>
      /\ shift' = [i \in Ids |-> [shift[i] EXCEPT !.flagged = @ \/
                     (i \in OpenShift /\ Night(shift[i].started) < Night(hour))]]
  BY DEF FlagUnclosed, Station
<1>2. \A i \in Ids : /\ shift'[i] \in Shift /\ shift'[i].started = shift[i].started
                     /\ shift'[i].ended = shift[i].ended
                     /\ shift'[i].corrected = shift[i].corrected
                     /\ shift'[i].original = shift[i].original
  <2> TAKE i \in Ids
  <2>1. shift[i] \in Shift
    BY DEF ShiftsIInv, ShiftsTypeOK
  <2>2. PICK on \in BOOLEAN : shift'[i] = [shift[i] EXCEPT !.flagged = on]
    BY <1>1, <2>1 DEF Shift
  <2> QED BY <2>1, <2>2 DEF Shift
<1>3. Started' = Started /\ OpenShift' = OpenShift /\ Started \subseteq Ids
  BY <1>2 DEF Started, OpenShift
<1>4. \A kind : Doing(kind)' = Doing(kind)
  BY <1>1 DEF Doing
<1>5. ShiftsTypeOK'
  <2>1. shift' = [i \in Ids |-> shift'[i]]
    BY <1>1
  <2>2. shift' \in [Ids -> Shift]
    BY <1>2, <2>1
  <2> QED BY <1>1, <1>3, <2>2 DEF ShiftsIInv, ShiftsTypeOK
<1>6. RequestsInv'
  BY <1>1, <1>3 DEF ShiftsIInv, RequestsInv
<1>7. OneShiftInv'
  BY <1>1, <1>3, <1>4 DEF ShiftsIInv, OneShiftInv
<1>8. OriginalsInv'
  <2>1. \A t \in Doing("out") : t.id \in Ids
    BY <1>3 DEF ShiftsIInv, RequestsInv, Doing
  <2> QED BY <1>1, <1>2, <1>3, <1>4, <2>1 DEF ShiftsIInv, OriginalsInv, OriginalIsClock
<1> QED BY <1>5, <1>6, <1>7, <1>8 DEF ShiftsIInv

\* A correction reads the clock's times, or what the first one kept of them.
LEMMA SaveFixStep ==
  ASSUME ShiftsIInv, NEW from \in 1 .. MaxHour, NEW to \in 1 .. MaxHour, SaveFix(from, to)
  PROVE  ShiftsIInv'
<1> DEFINE t == Task("fix", form, from, to, OriginalOf(form))
<1>1. /\ form # NoForm /\ tasks' = tasks \union {t} /\ form' = NoForm
      /\ raced' = IF \E u \in Doing("out") : u.id = form THEN raced \union {form} ELSE raced
      /\ UNCHANGED <<shift, hour, clocked, met>>
  BY DEF SaveFix, SaveButton, Station
<1>2. form \in Started /\ form \in Ids /\ shift[form] \in Shift /\ clocked[form] \in Times
  BY <1>1 DEF ShiftsIInv, ShiftsTypeOK, Started
<1>3. OriginalOf(form) \in Times
  BY <1>2 DEF OriginalOf, Shift, Times
<1>4. /\ t \in Request /\ t.kind = "fix" /\ t.id = form /\ t.start # None /\ t.end # None
      /\ t.original = OriginalOf(form)
  BY <1>2, <1>3 DEF Task, Request, Ids
<1> HIDE DEF t
<1>5. /\ Doing("fix")' = Doing("fix") \union {t}
      /\ Doing("in")' = Doing("in") /\ Doing("out")' = Doing("out")
  BY <1>1, <1>4, Sent
<1>6. Started' = Started /\ OpenShift' = OpenShift
  BY <1>1 DEF Started, OpenShift
<1>7. ShiftsTypeOK'
  BY <1>1, <1>2, <1>4, <1>6 DEF ShiftsIInv, ShiftsTypeOK
<1>8. RequestsInv'
  BY <1>1, <1>2, <1>4, <1>6 DEF ShiftsIInv, RequestsInv
<1>9. OneShiftInv'
  BY <1>1, <1>5, <1>6 DEF ShiftsIInv, OneShiftInv
<1>10. form \notin raced => OriginalOf(form) = clocked[form]
  BY <1>2 DEF ShiftsIInv, OriginalsInv, OriginalIsClock, OriginalOf
<1>11. OriginalsInv'
  BY <1>1, <1>4, <1>5, <1>6, <1>10 DEF ShiftsIInv, OriginalsInv, OriginalIsClock
<1> QED BY <1>7, <1>8, <1>9, <1>11 DEF ShiftsIInv

\* What is kept of a corrected shift is what the correction read.
LEMMA FixCommitsStep ==
  ASSUME ShiftsIInv, NEW t \in tasks, FixCommits(t)
  PROVE  ShiftsIInv'
<1>1. PICK r :
        /\ r = [started |-> t.start, ended |-> t.end, by |-> "owner",
                flagged |-> FALSE, corrected |-> TRUE, original |-> t.original]
        /\ shift' = [shift EXCEPT ![t.id] = r]
        /\ t.kind = "fix" /\ tasks' = tasks \ {t}
  BY DEF FixCommits
<1>2. UNCHANGED <<form, hour, clocked, met, raced>>
  BY DEF FixCommits, Station
<1>3. /\ t \in Request /\ t.id \in Started /\ t.id \in Ids /\ t.end # None /\ t.start # None
      /\ t \in Doing("fix")
  BY <1>1 DEF ShiftsIInv, ShiftsTypeOK, RequestsInv, Doing, Started
<1>4. /\ r \in Shift /\ r.started = t.start /\ r.ended = t.end /\ r.corrected
      /\ r.original = t.original
  BY <1>1, <1>3 DEF Shift, Request
<1>5. shift'[t.id] = r /\ \A i \in Ids \ {t.id} : shift'[i] = shift[i]
  BY <1>1, <1>3 DEF ShiftsIInv, ShiftsTypeOK
<1>6. Started' = Started /\ OpenShift' = OpenShift \ {t.id} /\ Started \subseteq Ids
  BY <1>3, <1>4, <1>5 DEF Started, OpenShift
<1>7. \A kind : Doing(kind)' = Doing(kind) \ {t}
  BY <1>1, Gone
<1>8. ShiftsTypeOK'
  BY <1>1, <1>2, <1>4, <1>6 DEF ShiftsIInv, ShiftsTypeOK
<1>9. RequestsInv'
  BY <1>1, <1>6 DEF ShiftsIInv, RequestsInv
<1>10. OneShiftInv'
  BY <1>2, <1>6, <1>7 DEF ShiftsIInv, OneShiftInv
<1>11. OriginalsInv'
  <2>1. \A u \in Doing("out") : u.id \in Ids /\ (u.id \notin raced => u.id # t.id)
    BY <1>3, <1>6 DEF ShiftsIInv, RequestsInv, Doing, OriginalsInv
  <2>2. t.id \notin raced => t.original = clocked[t.id]
    BY <1>3 DEF ShiftsIInv, OriginalsInv
  <2> QED BY <1>2, <1>3, <1>4, <1>5, <1>6, <1>7, <2>1, <2>2
          DEF ShiftsIInv, OriginalsInv, OriginalIsClock
<1> QED BY <1>8, <1>9, <1>10, <1>11 DEF ShiftsIInv

LEMMA ShiftsStep == ShiftsIInv /\ [ShiftsNext]_shifts => ShiftsIInv'
<1> SUFFICES ASSUME ShiftsIInv, [ShiftsNext]_shifts PROVE ShiftsIInv'
  OBVIOUS
<1>0. hour \in Nat \ {0} /\ form \in Started \union {NoForm}
  BY DEF ShiftsIInv, ShiftsTypeOK
<1>1. CASE LoadShift \/ AskCode \/ CloseBox \/ AlreadyOn
  BY <1>0, <1>1, QuietStep DEF LoadShift, AskCode, CloseBox, AlreadyOn, Owner, Rows
<1>2. CASE CancelFix
  BY <1>0, <1>2, QuietStep DEF CancelFix, Station, Rows
<1>3. CASE HourPasses
  BY <1>0, <1>3, QuietStep DEF HourPasses, Rows
<1>4. ASSUME NEW i \in Ids, OpenFix(i) PROVE ShiftsIInv'
  BY <1>0, <1>4, QuietStep DEF OpenFix, Station, Rows
<1>5. CASE ClockIn \/ ClockOut \/ FlagUnclosed
  BY <1>5, ClockInStep, ClockOutStep, FlagStep
<1>6. ASSUME NEW t \in tasks, ClockInCommits(t) \/ ClockOutCommits(t) \/ FixCommits(t)
      PROVE  ShiftsIInv'
  BY <1>6, ClockInCommitsStep, ClockOutCommitsStep, FixCommitsStep
<1>7. ASSUME NEW from \in 1 .. MaxHour, NEW to \in 1 .. MaxHour, SaveFix(from, to)
      PROVE ShiftsIInv'
  BY <1>7, SaveFixStep
<1>8. CASE UNCHANGED shifts
  BY <1>0, <1>8, QuietStep DEF shifts, Rows
<1> QED BY <1>1, <1>2, <1>3, <1>4, <1>5, <1>6, <1>7, <1>8 DEF ShiftsNext

\* More than one open shift are two that differ.
LEMMA TwoOpenDiffer == ShiftsIInv => DoubleNeedsMeeting
<1> SUFFICES ASSUME ShiftsIInv, ~met PROVE ~(Cardinality(OpenShift) > 1)
  BY DEF DoubleNeedsMeeting
<1>1. \A i, j \in OpenShift : i = j
  BY DEF ShiftsIInv, OneShiftInv
<1>2. CASE OpenShift = {}
  BY <1>2, FS_EmptySet
<1>3. ASSUME NEW i \in OpenShift PROVE ~(Cardinality(OpenShift) > 1)
  <2>1. OpenShift = {i}
    BY <1>1
  <2>2. Cardinality({i}) = 1
    BY FS_Singleton
  <2> QED BY <2>1, <2>2
<1> QED BY <1>2, <1>3

\* Shifts, requests and what the clock recorded keep their types
\* (shift_service.py).
THEOREM ShiftsTypeCorrect == ShiftsSpec => []ShiftsTypeOK
<1>1. ShiftsInit => ShiftsIInv
  BY ShiftsStart
<1>2. ShiftsIInv /\ [ShiftsNext]_shifts => ShiftsIInv'
  BY ShiftsStep
<1>3. ShiftsIInv => ShiftsTypeOK
  BY DEF ShiftsIInv
<1> QED BY <1>1, <1>2, <1>3, PTL DEF ShiftsSpec

\* Hours are doubled only by two requests to clock in that were handled side by
\* side, and a corrected shift keeps what the clock recorded unless its clock-out
\* was handled beside the correction (shift_service.py:90-168).
THEOREM HoursStayTrue == ShiftsSpec => []HoursAreTrue
<1>1. ShiftsInit => ShiftsIInv
  BY ShiftsStart
<1>2. ShiftsIInv /\ [ShiftsNext]_shifts => ShiftsIInv'
  BY ShiftsStep
<1>3. ShiftsIInv => HoursAreTrue
  BY TwoOpenDiffer DEF ShiftsIInv, OriginalsInv, HoursAreTrue
<1> QED BY <1>1, <1>2, <1>3, PTL DEF ShiftsSpec

-----------------------------------------------------------------------------
\* The stock of one article.  What is on its way is added up over sets.
\* The module knows finite sets as FiniteSets does.
LEMMA FiniteAlike == \A S : Room!IsFiniteSet(S) <=> IsFiniteSet(S)
  BY DEF Room!IsFiniteSet, IsFiniteSet

\* What a booking still adds to the level.
Due == [b \in Room!Booking |-> Room!Awaited(b)]

LEMMA DueIs == \A b \in Room!Booking : Due[b] = Room!Awaited(b) /\ Due[b] \in Int
  BY DEF Due, Room!Awaited, Room!Booking

\* What is on its way, as a sum.
LEMMA WaySum ==
  ASSUME Room!Listed(bookings)
  PROVE  Room!OnTheWay = Sum(Due, bookings)
<1> DEFINE A(g) == g = [s \in SUBSET bookings |->
                          IF s = {} THEN 0 ELSE Room!Awaited(First(s)) + g[s \ {First(s)}]]
<1>0. bookings \subseteq Room!Booking /\ IsFiniteSet(bookings)
  BY FiniteAlike DEF Room!Listed
<1>1. Room!OnTheWay = (CHOOSE g : A(g))[bookings]
  BY DEF Room!OnTheWay, Room!MapThenSumSet, Room!MapThenFoldSet, First
<1>2. ASSUME NEW g PROVE A(g) <=> Adds(g, Due, bookings)
  <2>1. \A s \in SUBSET bookings : s # {} => Due[First(s)] = Room!Awaited(First(s))
    <3> TAKE s \in SUBSET bookings
    <3>1. s # {} => First(s) \in Room!Booking
      BY <1>0, FirstIn
    <3> QED BY <3>1, DueIs
  <2>2. [s \in SUBSET bookings |-> IF s = {} THEN 0 ELSE Room!Awaited(First(s)) + g[s \ {First(s)}]]
        = [s \in SUBSET bookings |-> IF s = {} THEN 0 ELSE Due[First(s)] + g[s \ {First(s)}]]
    BY <2>1
  <2> QED BY <2>2 DEF Adds
<1> HIDE DEF A
<1>3. A(CHOOSE g : A(g))
  BY <1>0, <1>2, AdderExists
<1>4. Adds(CHOOSE g : A(g), Due, bookings)
  BY <1>2, <1>3
<1>5. Adds(Adder(Due, bookings), Due, bookings)
  BY <1>0, AdderExists DEF Adder
<1>6. (CHOOSE g : A(g)) = Adder(Due, bookings)
  BY <1>0, <1>4, <1>5, AdderUnique
<1> QED BY <1>1, <1>6, SumIs
LEMMA WayIs == Room!Listed(bookings) => Room!OnTheWay = Sum(Due, bookings)
  BY WaySum
LEMMA WayWillBe == (Room!Listed(bookings) => Room!OnTheWay = Sum(Due, bookings))'
  BY WayIs, PTL

\* One more request, one less, one that has changed.
LEMMA OneMore ==
  ASSUME NEW S, Room!Listed(S), NEW b \in Room!Booking, \A c \in S : c.id # b.id
  PROVE  Room!Listed(S \union {b}) /\ Sum(Due, S \union {b}) = Sum(Due, S) + Room!Awaited(b)
<1>1. b \notin S /\ IsFiniteSet(S) /\ S \subseteq Room!Booking
  BY FiniteAlike DEF Room!Listed
<1>2. IsFiniteSet(S \union {b})
  BY <1>1, FS_AddElement
<1>3. Room!Listed(S \union {b})
  BY <1>1, <1>2, FiniteAlike DEF Room!Listed
<1>4. \A c \in S \union {b} : Due[c] \in Int
  BY <1>1, DueIs
<1> QED BY <1>1, <1>3, <1>4, SumAdd, DueIs

LEMMA OneLess ==
  ASSUME NEW S, Room!Listed(S), NEW b \in S
  PROVE  Room!Listed(S \ {b}) /\ Sum(Due, S \ {b}) = Sum(Due, S) - Room!Awaited(b)
<1>1. IsFiniteSet(S) /\ S \subseteq Room!Booking
  BY FiniteAlike DEF Room!Listed
<1>2. IsFiniteSet(S \ {b})
  BY <1>1, FS_Subset
<1>3. Room!Listed(S \ {b})
  BY <1>1, <1>2, FiniteAlike DEF Room!Listed
<1>4. \A c \in S : Due[c] \in Int
  BY <1>1, DueIs
<1>5. Sum(Due, S \ {b}) = Sum(Due, S) - Due[b]
  BY <1>1, <1>4, SumWithout
<1> QED BY <1>1, <1>3, <1>5, DueIs

LEMMA WayInt == \A S : Room!Listed(S) => Sum(Due, S) \in Int
<1> SUFFICES ASSUME NEW S, Room!Listed(S) PROVE Sum(Due, S) \in Int
  OBVIOUS
<1>1. IsFiniteSet(S) /\ \A c \in S : Due[c] \in Int
  BY DueIs, FiniteAlike DEF Room!Listed
<1> QED BY <1>1, SumIsInt

LEMMA OneChanged ==
  ASSUME NEW S, Room!Listed(S), NEW b \in S, NEW c \in Room!Booking, c.id = b.id
  PROVE  /\ Room!Listed((S \ {b}) \union {c})
         /\ Sum(Due, (S \ {b}) \union {c}) = Sum(Due, S) - Room!Awaited(b) + Room!Awaited(c)
<1> DEFINE T == S \ {b}
<1>1. Room!Listed(T) /\ Sum(Due, T) = Sum(Due, S) - Room!Awaited(b)
  BY OneLess
<1>2. \A d \in T : d.id # c.id
  BY FiniteAlike DEF Room!Listed
<1> HIDE DEF T
<1>3. Room!Listed(T \union {c}) /\ Sum(Due, T \union {c}) = Sum(Due, T) + Room!Awaited(c)
  BY <1>1, <1>2, OneMore
<1> QED BY <1>1, <1>3 DEF T

\* All of them may change in what does not count.
LEMMA AllChanged ==
  ASSUME NEW S, Room!Listed(S), NEW g \in [S -> Room!Booking],
         \A b \in S : g[b].id = b.id /\ Room!Awaited(g[b]) = Room!Awaited(b)
  PROVE  LET T == {g[b] : b \in S}
         IN  Room!Listed(T) /\ Sum(Due, T) = Sum(Due, S)
<1> DEFINE T == {g[b] : b \in S}
<1>1. IsFiniteSet(S) /\ S \subseteq Room!Booking /\ \A b, c \in S : b.id = c.id => b = c
  BY FiniteAlike DEF Room!Listed
<1>2. \A b, c \in S : g[b] = g[c] => b = c
  BY <1>1
<1>3. \A b \in S : Due[b] \in Int /\ Due[g[b]] = Due[b]
  BY <1>1, DueIs
<1>5. T \subseteq Room!Booking /\ \A b, c \in T : b.id = c.id => b = c
  BY <1>1
<1>0. T = ImageOf(g, S)
  BY DEF ImageOf
<1> HIDE DEF T
<1>4. IsFiniteSet(T) /\ Sum(Due, T) = Sum(Due, S)
  <2>1. IsFiniteSet(S)
    BY <1>1
  <2> QED BY <2>1, <1>0, <1>2, <1>3, SumImage
<1>6. Room!Listed(T)
  BY <1>4, <1>5, FiniteAlike DEF Room!Listed
<1> QED BY <1>4, <1>6 DEF T

\* Crates and bottles.
LEMMA WholeCrates == ASSUME NEW n \in Int, NEW p \in Nat \ {0} PROVE (n * p) \div p = n
  BY Z3
LEMMA Parts ==
  ASSUME NEW n \in Nat, NEW p \in Nat \ {0}
  PROVE  /\ n \div p \in Nat /\ n % p \in Nat /\ (n \div p) * p + (n % p) = n
         /\ n < p => n \div p = 0
  BY Z3
LEMMA Grows == ASSUME NEW p \in Nat, NEW a \in Nat, NEW b \in Nat, a <= b PROVE p * a <= p * b
<1>1. PICK d \in Nat : b = a + d
  <2>1. b - a \in Nat /\ b = a + (b - a)
    OBVIOUS
  <2> QED BY <2>1
<1>2. p * d \in Nat /\ p * a \in Nat /\ p * b = p * a + p * d
  BY <1>1
<1> QED BY <1>2

LEMMA StoreStart ==
  ASSUME Pack \in Nat \ {0}, Openings \subseteq Nat, Room!StoreInit PROVE Room!StoreInv
<1>1. store \in Room!Page
  BY DEF Room!StoreInit, Room!NoBox, Room!NoForm, Room!Page, Room!Box, Room!Blank
<1>2. Room!Listed(bookings)
  BY FS_EmptySet, FiniteAlike DEF Room!StoreInit, Room!Listed
<1>3. Room!StoreTyped
  BY <1>1, <1>2 DEF Room!StoreTyped, Room!StoreInit
<1>4. Room!OnTheWay = 0
  BY <1>2, WayIs, SumEmpty DEF Room!StoreInit
<1>5. Room!Balanced
  <2>1. shelf \in Int /\ shelf = stock /\ truck = 0 /\ broken = 0
    BY DEF Room!StoreInit
  <2>2. Pack * truck = 0 /\ Pack * broken = 0
    BY <2>1
  <2> QED BY <1>4, <2>1, <2>2 DEF Room!Balanced
<1>6. Room!CountsAlone /\ Room!FormsCovered
  BY DEF Room!CountsAlone, Room!FormsCovered, Room!StoreInit, Room!NoForm
<1> QED BY <1>3, <1>5, <1>6 DEF Room!StoreInv

\* The screen, where no request is sent and none ends.
LEMMA ScreenStep ==
  ASSUME Pack \in Nat \ {0}, Room!StoreInv,
         \/ Room!ToggleCount \/ Room!OpenForm \/ Room!TypeDelivery
         \/ \E p, l \in Room!Blank .. MaxShelf : Room!TypeCount([packs |-> p, loose |-> l])
  PROVE  Room!StoreInv'
<1> USE DEF Room!Venue
<1>0. /\ UNCHANGED <<bookings, posts, because, stock, shelf, truck, broken>>
      /\ Room!Listed(bookings) /\ Room!Listed(bookings')
  BY DEF Room!StoreInv, Room!StoreTyped, Room!ToggleCount, Room!OpenForm, Room!TypeDelivery,
     Room!TypeCount
<1>1. Room!OnTheWay' = Room!OnTheWay
  BY <1>0, WayIs, WayWillBe
<1>2. Room!StoreTyped'
  <2>1. store' \in Room!Page /\ shelf' \in Nat
    <3>1. CASE Room!ToggleCount
      BY <3>1 DEF Room!StoreInv, Room!StoreTyped, Room!ToggleCount, Room!Page
    <3>2. CASE Room!OpenForm
      BY <3>2 DEF Room!StoreInv, Room!StoreTyped, Room!OpenForm, Room!Page, Room!NoForm
    <3>3. CASE Room!TypeDelivery
      BY <3>3 DEF Room!StoreInv, Room!StoreTyped, Room!TypeDelivery, Room!Page
    <3>4. ASSUME NEW p \in Room!Blank .. MaxShelf, NEW l \in Room!Blank .. MaxShelf,
                 Room!TypeCount([packs |-> p, loose |-> l])
          PROVE  store' \in Room!Page /\ shelf' \in Nat
      <4>1. [packs |-> p, loose |-> l] \in Room!Box
        BY DEF Room!Box, Room!Blank
      <4> QED BY <3>4, <4>1 DEF Room!StoreInv, Room!StoreTyped, Room!TypeCount, Room!Page
    <3> QED BY <3>1, <3>2, <3>3, <3>4
  <2>2. \A b \in bookings : b.here => store'.form.open /\ store'.form.busy
    <3>1. \A b \in bookings : b.here => store.form.open /\ store.form.busy
      BY DEF Room!StoreInv, Room!StoreTyped
    <3>2. CASE Room!ToggleCount
      BY <3>1, <3>2 DEF Room!StoreInv, Room!StoreTyped, Room!ToggleCount, Room!Page
    <3>3. CASE Room!OpenForm
      BY <3>1, <3>3 DEF Room!OpenForm
    <3>4. CASE Room!TypeDelivery
      BY <3>1, <3>4 DEF Room!StoreInv, Room!StoreTyped, Room!TypeDelivery, Room!Page
    <3>5. ASSUME NEW p \in Room!Blank .. MaxShelf, NEW l \in Room!Blank .. MaxShelf,
                 Room!TypeCount([packs |-> p, loose |-> l])
          PROVE  \A b \in bookings : b.here => store'.form.open /\ store'.form.busy
      BY <3>1, <3>5 DEF Room!StoreInv, Room!StoreTyped, Room!TypeCount, Room!Page
    <3> QED BY <3>2, <3>3, <3>4, <3>5
  <2> QED BY <1>0, <2>1, <2>2 DEF Room!StoreInv, Room!StoreTyped
<1>3. ASSUME because' = {} PROVE Room!Balanced' /\ Room!CountsAlone' /\ Room!FormsCovered'
  <2>1. Room!Balanced /\ Room!CountsAlone /\ Room!FormsCovered
    BY <1>0, <1>3 DEF Room!StoreInv
  <2>2. Room!Balanced'
    BY <1>0, <1>1, <2>1 DEF Room!Balanced
  <2>3. Room!CountsAlone'
    <3>1. CASE Room!ToggleCount
      BY <3>1, <1>0, <2>1 DEF Room!StoreInv, Room!StoreTyped, Room!ToggleCount,
         Room!CountsAlone, Room!Payload
    <3>2. CASE Room!OpenForm
      BY <3>2, <1>0, <2>1 DEF Room!StoreInv, Room!StoreTyped, Room!OpenForm, Room!CountsAlone,
         Room!Payload
    <3>3. CASE Room!TypeDelivery
      BY <3>3, <1>0, <2>1 DEF Room!StoreInv, Room!StoreTyped, Room!TypeDelivery,
         Room!CountsAlone, Room!Payload
    <3>4. ASSUME NEW p \in Room!Blank .. MaxShelf, NEW l \in Room!Blank .. MaxShelf,
                 Room!TypeCount([packs |-> p, loose |-> l])
          PROVE  Room!CountsAlone'
      <4> DEFINE b == [packs |-> p, loose |-> l]
      <4>1. store'.box = b /\ shelf \in Nat
        BY <3>4 DEF Room!StoreInv, Room!StoreTyped, Room!TypeCount, Room!Page
      <4>2. /\ shelf \div Pack \in Nat /\ shelf % Pack \in Nat
            /\ (shelf \div Pack) * Pack + (shelf % Pack) = shelf
            /\ shelf < Pack => shelf \div Pack = 0
        BY <4>1, Parts
      <4>3. (IF p = Room!Blank THEN 0 ELSE p) = shelf \div Pack
        <5>1. p \in {shelf \div Pack} \union (IF shelf < Pack THEN {Room!Blank} ELSE {})
          BY <3>4 DEF Room!TypeCount
        <5>2. (shelf \div Pack) # -1
          BY <4>2
        <5>3. CASE p = Room!Blank
          <6>1. shelf < Pack
            BY <5>1, <5>2, <5>3 DEF Room!Blank
          <6> QED BY <4>2, <5>3, <6>1
        <5>4. CASE p # Room!Blank
          BY <5>1, <5>4
        <5> QED BY <5>3, <5>4
      <4>4. (IF l = Room!Blank THEN 0 ELSE l) = shelf % Pack
        <5>1. l \in {shelf % Pack} \union (IF shelf % Pack = 0 THEN {Room!Blank} ELSE {})
          BY <3>4 DEF Room!TypeCount
        <5> QED BY <5>1, <4>2 DEF Room!Blank
      <4>5. Room!Payload(b) = shelf
        BY <4>2, <4>3, <4>4, Zenon DEF Room!Payload
      <4> HIDE DEF b
      <4> QED BY <4>1, <4>5, <1>0, <2>1 DEF Room!CountsAlone
    <3> QED BY <3>1, <3>2, <3>3, <3>4
  <2>4. Room!FormsCovered'
    <3>1. CASE Room!ToggleCount
      BY <3>1, <1>0, <2>1 DEF Room!StoreInv, Room!StoreTyped, Room!ToggleCount,
         Room!FormsCovered
    <3>2. CASE Room!OpenForm
      BY <3>2, <1>0, <2>1 DEF Room!StoreInv, Room!StoreTyped, Room!OpenForm, Room!FormsCovered,
         Room!NoForm
    <3>3. CASE Room!TypeDelivery
      <4>1. store'.form.packs = truck /\ truck \in Nat
        BY <3>3 DEF Room!StoreInv, Room!StoreTyped, Room!TypeDelivery, Room!Page
      <4>2. ASSUME NEW b \in bookings, b.here PROVE b.units >= 0 /\ b.units \in Int
        <5>1. Room!OfItsKind(b) /\ b.kind = "receive"
          BY <4>2 DEF Room!StoreInv, Room!StoreTyped
        <5>2. PICK n \in Nat \ {0} : b.units = n * Pack
          BY <5>1 DEF Room!OfItsKind
        <5> QED BY <5>2
      <4> QED BY <4>1, <4>2, <1>0 DEF Room!FormsCovered
    <3>4. ASSUME NEW p \in Room!Blank .. MaxShelf, NEW l \in Room!Blank .. MaxShelf,
                 Room!TypeCount([packs |-> p, loose |-> l])
          PROVE  Room!FormsCovered'
      BY <3>4, <1>0, <2>1 DEF Room!StoreInv, Room!StoreTyped, Room!Page, Room!TypeCount,
         Room!FormsCovered
    <3> QED BY <3>1, <3>2, <3>3, <3>4
  <2> QED BY <2>2, <2>3, <2>4
<1> QED BY <1>2, <1>3 DEF Room!StoreInv


\* What has been sent is one more, and adds what it says to the level.
Dispatched(b, kind, n, stale) ==
  /\ b.kind = kind /\ b.units = n /\ b.stale = stale /\ (b.here <=> kind = "receive")
  /\ b.at = "sent" /\ b.id = posts /\ posts' \in Nat /\ posts < posts'
  /\ b \notin bookings /\ bookings' = bookings \union {b}
  /\ Room!Listed(bookings') /\ Room!OnTheWay' = Room!OnTheWay + (IF kind = "count" THEN 0 ELSE n)
  /\ Room!OnTheWay \in Int
LEMMA PostStep ==
  ASSUME Room!StoreInv, NEW kind \in {"count", "adjust", "receive"}, NEW n \in Int,
         NEW stale \in BOOLEAN, Room!Post(kind, n, stale)
  PROVE  \E b \in Room!Booking : Dispatched(b, kind, n, stale)
<1> DEFINE b == [kind |-> kind, id |-> posts, units |-> n, stale |-> stale,
                 here |-> kind = "receive", at |-> "sent"]
<1>1. Room!Listed(bookings) /\ posts \in Nat /\ \A c \in bookings : c.id < posts
        /\ c \in Room!Booking
  BY FiniteAlike DEF Room!StoreInv, Room!StoreTyped, Room!Listed
<1>2. b \in Room!Booking
  <2>1. (kind = "receive") \in BOOLEAN
    OBVIOUS
  <2> QED BY <2>1, <1>1 DEF Room!Booking
<1>3. bookings' = bookings \union {b} /\ posts' = posts + 1
  BY DEF Room!Post
<1>4. /\ b.kind = kind /\ b.units = n /\ b.stale = stale /\ (b.here <=> kind = "receive")
      /\ b.at = "sent" /\ b.id = posts
  OBVIOUS
<1> HIDE DEF b
<1>5. \A c \in bookings : c.id # b.id
  BY <1>1, <1>4
<1>6. Room!Listed(bookings') /\ Sum(Due, bookings') = Sum(Due, bookings) + Room!Awaited(b)
  BY <1>1, <1>2, <1>3, <1>5, OneMore
<1>7. Room!Awaited(b) = IF kind = "count" THEN 0 ELSE n
  BY <1>4 DEF Room!Awaited
<1>8. /\ Room!OnTheWay' = Room!OnTheWay + (IF kind = "count" THEN 0 ELSE n)
      /\ Room!OnTheWay \in Int
  BY <1>1, <1>6, <1>7, WayIs, WayWillBe, WayInt
<1>9. posts' \in Nat /\ posts < posts' /\ b \notin bookings
  BY <1>1, <1>3, <1>5
<1>10. Dispatched(b, kind, n, stale)
  BY <1>3, <1>4, <1>6, <1>8, <1>9 DEF Dispatched
<1> QED BY <1>2, <1>10

\* A request that counts is sent while nothing else is on its way.
LEMMA CountSent ==
  ASSUME Pack \in Nat \ {0}, Room!StoreInv, Room!SubmitCount
  PROVE  Room!StoreInv'
<1>1. store.box \in Room!Box /\ store.stale \in BOOLEAN /\ store \in Room!Page
  BY DEF Room!StoreInv, Room!StoreTyped, Room!Page
<1>2. Room!Payload(store.box) \in Int /\ Room!Payload(store.box) >= 0
  <2> DEFINE p == IF store.box.packs = Room!Blank THEN 0 ELSE store.box.packs
             l == IF store.box.loose = Room!Blank THEN 0 ELSE store.box.loose
  <2>1. p \in Nat /\ l \in Nat
    BY <1>1 DEF Room!Box
  <2>2. Room!Payload(store.box) = p * Pack + l
    BY DEF Room!Payload
  <2> HIDE DEF p, l
  <2> QED BY <2>1, <2>2
<1>3. PICK b \in Room!Booking : Dispatched(b, "count", Room!Payload(store.box), store.stale)
  <2>1. Room!Post("count", Room!Payload(store.box), store.stale)
    BY DEF Room!SubmitCount
  <2> QED BY <1>1, <1>2, <2>1, PostStep
<1>a. /\ b.kind = "count" /\ b.units = Room!Payload(store.box) /\ b.stale = store.stale
      /\ ~b.here /\ b.at = "sent" /\ b.id = posts /\ posts' \in Nat /\ posts < posts'
      /\ b \notin bookings /\ bookings' = bookings \union {b}
      /\ Room!Listed(bookings') /\ Room!OnTheWay' = Room!OnTheWay + 0 /\ Room!OnTheWay \in Int
  BY <1>3 DEF Dispatched
<1>4. /\ UNCHANGED <<stock, shelf, truck, broken>>
      /\ store' = [store EXCEPT !.saving = TRUE]
      /\ because' = Room!Crosses("count")
  BY DEF Room!SubmitCount, Room!Venue
<1>5. store' \in Room!Page /\ store'.form = store.form /\ store'.box = store.box
        /\ store'.stale = store.stale
  BY <1>1, <1>4 DEF Room!Page
<1>6. Room!StoreTyped'
  <2>1. \A c \in bookings :
          /\ c.id < posts' /\ Room!OfItsKind(c)
          /\ c.here => c.kind = "receive" /\ store'.form.open /\ store'.form.busy
          /\ \A d \in bookings : c.here /\ d.here => c = d
    BY <1>a, <1>5, FiniteAlike DEF Room!StoreInv, Room!StoreTyped, Room!Listed, Room!Booking
  <2>2. b.id < posts' /\ Room!OfItsKind(b)
    BY <1>2, <1>a DEF Room!OfItsKind
  <2>3. stock' \in Nat /\ shelf' \in Nat /\ truck' \in Nat /\ broken' \in Nat
    BY <1>4 DEF Room!StoreInv, Room!StoreTyped
  <2> QED BY <1>a, <1>5, <2>1, <2>2, <2>3 DEF Room!StoreTyped
<1>7. ASSUME because' = {} PROVE Room!Balanced' /\ Room!CountsAlone' /\ Room!FormsCovered'
  <2>1. bookings = {} /\ because = {}
    BY <1>4, <1>7 DEF Room!Crosses
  <2>2. Room!Balanced /\ Room!CountsAlone /\ Room!FormsCovered
    BY <2>1 DEF Room!StoreInv
  <2>3. Room!OnTheWay' = Room!OnTheWay
    BY <1>a
  <2>4. Room!Balanced'
    BY <2>2, <2>3, <1>4 DEF Room!Balanced
  <2>5. Room!CountsAlone'
    <3>1. bookings' = {b} /\ shelf' = shelf
      BY <1>a, <1>4, <2>1
    <3>2. ~b.stale => b.units = shelf
      BY <2>2, <1>a DEF Room!CountsAlone, Room!SubmitCount
    <3> QED BY <3>1, <3>2, <1>5, <2>2 DEF Room!CountsAlone
  <2>6. Room!FormsCovered'
    BY <1>a, <1>4, <1>5, <2>1, <2>2 DEF Room!FormsCovered
  <2> QED BY <2>4, <2>5, <2>6
<1> QED BY <1>6, <1>7 DEF Room!StoreInv

\* A crate is taken off or put on by a button.
LEMMA ButtonStep ==
  ASSUME Pack \in Nat \ {0}, Room!StoreInv, Room!TakeOff \/ Room!PutOn
  PROVE  Room!StoreInv'
<1>1. PICK n \in {Pack, -Pack} :
        /\ Room!Post("adjust", n, FALSE)
        /\ n = Pack => truck > 0 /\ truck' = truck - 1 /\ broken' = broken
        /\ n # Pack => broken > 0 /\ broken' = broken - 1 /\ truck' = truck
        /\ n = Pack => ~store.form.open
  <2>1. Pack # -Pack
    OBVIOUS
  <2> QED BY <2>1 DEF Room!TakeOff, Room!PutOn, Room!Buttons
<1>2. n \in Int
  BY <1>1
<1>3. PICK b \in Room!Booking : Dispatched(b, "adjust", n, FALSE)
  <2>1. Room!Post("adjust", n, FALSE)
    BY <1>1
  <2> QED BY <1>2, <2>1, PostStep
<1>a. /\ b.kind = "adjust" /\ b.units = n
      /\ ~b.here /\ b.at = "sent" /\ b.id = posts /\ posts' \in Nat /\ posts < posts'
      /\ b \notin bookings /\ bookings' = bookings \union {b}
      /\ Room!Listed(bookings') /\ Room!OnTheWay' = Room!OnTheWay + n /\ Room!OnTheWay \in Int
  BY <1>3 DEF Dispatched
<1>4. /\ UNCHANGED <<store, stock, shelf>>
      /\ because' = Room!Crosses("adjust")
  BY DEF Room!TakeOff, Room!PutOn
<1>5. stock \in Nat /\ shelf \in Nat /\ truck \in Nat /\ broken \in Nat /\ store \in Room!Page
  BY DEF Room!StoreInv, Room!StoreTyped
<1>6. Room!StoreTyped'
  <2>1. \A c \in bookings :
          /\ c.id < posts' /\ Room!OfItsKind(c)
          /\ c.here => c.kind = "receive" /\ store'.form.open /\ store'.form.busy
          /\ \A d \in bookings : c.here /\ d.here => c = d
    BY <1>a, <1>4, FiniteAlike DEF Room!StoreInv, Room!StoreTyped, Room!Listed, Room!Booking
  <2>2. b.id < posts' /\ Room!OfItsKind(b)
    BY <1>1, <1>a DEF Room!OfItsKind
  <2>3. stock' \in Nat /\ shelf' \in Nat /\ truck' \in Nat /\ broken' \in Nat
    BY <1>1, <1>4, <1>5
  <2> QED BY <1>a, <1>4, <1>5, <2>1, <2>2, <2>3 DEF Room!StoreTyped
<1>7. ASSUME because' = {} PROVE Room!Balanced' /\ Room!CountsAlone' /\ Room!FormsCovered'
  <2>1. because = {} /\ \A c \in bookings : c.kind # "count"
    BY <1>4, <1>7 DEF Room!Crosses
  <2>2. Room!Balanced /\ Room!CountsAlone /\ Room!FormsCovered
    BY <2>1 DEF Room!StoreInv
  <2>4. Room!Balanced'
    <3>1. Pack * truck - Pack * broken = Pack * truck' - Pack * broken' + n
      <4>1. CASE n = Pack
        BY <1>1, <1>5, <4>1
      <4>2. CASE n # Pack
        BY <1>1, <1>5, <4>2
      <4> QED BY <4>1, <4>2
    <3> DEFINE u == Pack * truck
               v == Pack * broken
               x == Pack * truck'
               y == Pack * broken'
    <3>2. u \in Int /\ v \in Int /\ x \in Int /\ y \in Int
      BY <1>1, <1>5
    <3>3. shelf = stock + u - v + Room!OnTheWay /\ u - v = x - y + n
      BY <2>2, <3>1 DEF Room!Balanced
    <3> HIDE DEF u, v, x, y
    <3>4. shelf' = stock' + x - y + Room!OnTheWay'
      BY <1>2, <1>a, <1>4, <1>5, <3>2, <3>3
    <3> QED BY <3>4 DEF Room!Balanced, x, y
  <2>5. Room!CountsAlone'
    BY <1>a, <1>4, <2>1, <2>2 DEF Room!CountsAlone
  <2>6. Room!FormsCovered'
    <3>1. CASE n = Pack
      <4>1. ~store.form.open /\ \A c \in bookings : ~c.here
        BY <1>1, <3>1 DEF Room!StoreInv, Room!StoreTyped
      <4> QED BY <1>a, <1>4, <4>1 DEF Room!FormsCovered
    <3>2. CASE n # Pack
      BY <1>1, <1>a, <1>4, <2>2, <3>2 DEF Room!FormsCovered
    <3> QED BY <3>1, <3>2
  <2> QED BY <2>4, <2>5, <2>6
<1> QED BY <1>6, <1>7 DEF Room!StoreInv

\* A delivery is booked in.
LEMMA DeliverySent ==
  ASSUME Pack \in Nat \ {0}, Room!StoreInv, Room!BookIn
  PROVE  Room!StoreInv'
<1> DEFINE k == store.form.packs
<1>1. store \in Room!Page /\ k \in Nat \ {0} /\ store.form.open /\ ~store.form.busy
      /\ store.form.busy \in BOOLEAN /\ store.box \in Room!Box
  BY DEF Room!StoreInv, Room!StoreTyped, Room!Page, Room!BookIn, Room!Filled, Room!Idle
<1>2. k * Pack \in Int
  BY <1>1
<1>3. PICK b \in Room!Booking : Dispatched(b, "receive", k * Pack, FALSE)
  <2>1. Room!Post("receive", k * Pack, FALSE)
    BY DEF Room!BookIn
  <2> HIDE DEF k
  <2> QED BY <1>2, <2>1, PostStep
<1>a. /\ b.kind = "receive" /\ b.units = k * Pack
      /\ b.here /\ b.at = "sent" /\ b.id = posts /\ posts' \in Nat /\ posts < posts'
      /\ b \notin bookings /\ bookings' = bookings \union {b}
      /\ Room!Listed(bookings') /\ Room!OnTheWay' = Room!OnTheWay + k * Pack
           /\ Room!OnTheWay \in Int
  <2> HIDE DEF k
  <2> QED BY <1>3 DEF Dispatched
<1>4. /\ UNCHANGED <<stock, shelf, broken>>
      /\ truck' = IF truck > k THEN truck - k ELSE 0
      /\ because' = Room!Crosses("receive")
      /\ store' = [store EXCEPT !.form.busy = TRUE]
  BY DEF Room!BookIn
<1>5. stock \in Nat /\ shelf \in Nat /\ truck \in Nat /\ broken \in Nat
  BY DEF Room!StoreInv, Room!StoreTyped
<1>6. /\ store' \in Room!Page /\ store'.box = store.box /\ store'.stale = store.stale
      /\ store'.form.open /\ store'.form.busy /\ store'.form.packs = k
  BY <1>1, <1>4 DEF Room!Page
<1>7. \A c \in bookings : ~c.here
  BY <1>1 DEF Room!StoreInv, Room!StoreTyped
<1>8. Room!StoreTyped'
  <2>1. \A c \in bookings : c.id < posts' /\ Room!OfItsKind(c)
    BY <1>a, FiniteAlike DEF Room!StoreInv, Room!StoreTyped, Room!Listed, Room!Booking
  <2>2. b.id < posts' /\ Room!OfItsKind(b)
    BY <1>1, <1>a DEF Room!OfItsKind
  <2>3. stock' \in Nat /\ shelf' \in Nat /\ truck' \in Nat /\ broken' \in Nat
    BY <1>1, <1>4, <1>5
  <2> HIDE DEF k
  <2> QED BY <1>a, <1>6, <1>7, <2>1, <2>2, <2>3 DEF Room!StoreTyped
<1>9. ASSUME because' = {} PROVE Room!Balanced' /\ Room!CountsAlone' /\ Room!FormsCovered'
  <2>1. because = {} /\ \A c \in bookings : c.kind # "count"
    BY <1>4, <1>9 DEF Room!Crosses
  <2>2. Room!Balanced /\ Room!CountsAlone /\ Room!FormsCovered
    BY <2>1 DEF Room!StoreInv
  <2>3. k <= truck
    BY <1>1, <2>2 DEF Room!FormsCovered
  <2>4. truck' = truck - k
    BY <1>1, <1>4, <1>5, <2>3
  <2> HIDE DEF k
  <2>5. Room!Balanced'
    <3> DEFINE u == Pack * truck
               v == Pack * broken
               x == Pack * truck'
               z == k * Pack
    <3>1. u \in Int /\ v \in Int /\ x \in Int /\ z \in Int /\ u = x + z
      BY <1>1, <1>5, <2>4
    <3>2. shelf = stock + u - v + Room!OnTheWay /\ Room!OnTheWay' = Room!OnTheWay + z
      BY <1>a, <2>2 DEF Room!Balanced
    <3> HIDE DEF u, v, x, z
    <3>3. shelf' = stock' + x - v + Room!OnTheWay'
      BY <1>a, <1>4, <1>5, <3>1, <3>2
    <3> QED BY <1>4, <3>3 DEF Room!Balanced, x, v
  <2>6. Room!CountsAlone'
    BY <1>a, <1>4, <1>6, <2>1, <2>2 DEF Room!CountsAlone
  <2>7. Room!FormsCovered'
    <3>1. Pack * k <= Pack * truck' + k * Pack
      BY <1>1, <1>5, <2>3, <2>4
    <3> QED BY <1>a, <1>6, <1>7, <3>1 DEF Room!FormsCovered
  <2> QED BY <2>5, <2>6, <2>7
<1> QED BY <1>8, <1>9 DEF Room!StoreInv

\* What is on its way changes in what does not count: no form waits for it, or it
\* has got old.
LEMMA Marked ==
  ASSUME Room!StoreTyped, NEW bs \in SUBSET bookings,
         \/ bookings' = Room!Orphaned(bs)
         \/ bookings' = {[b EXCEPT !.stale = b.kind = "count" /\ b.at = "sent"] : b \in bs}
  PROVE  /\ Room!Listed(bs) /\ Room!Listed(bookings') /\ Room!OnTheWay' = Sum(Due, bs)
              /\ Room!OnTheWay' \in Int
         /\ \A c \in bookings' :
              /\ c.id < posts /\ Room!OfItsKind(c)
              /\ c.here => c.kind = "receive" /\ store.form.open /\ store.form.busy
              /\ \A d \in bookings' : c.here /\ d.here => c = d
         /\ Room!CountsAlone => \A c \in bookings' : c.kind = "count" =>
              /\ bookings' = {c}
              /\ c.at = "sent" /\ ~c.stale => bookings' = Room!Orphaned(bs) /\ c.units = shelf
         /\ Room!FormsCovered => \A c \in bookings' : c.here /\ c.at # "ok" =>
              Pack * store.form.packs <= Pack * truck + c.units
         /\ bookings' = Room!Orphaned(bs) => \A c \in bookings' : ~c.here
<1>1. bookings \subseteq Room!Booking /\ IsFiniteSet(bookings)
      /\ \A b, c \in bookings : b.id = c.id => b = c
  BY FiniteAlike DEF Room!StoreTyped, Room!Listed
<1>2. Room!Listed(bs)
  <2>1. IsFiniteSet(bs)
    BY <1>1, FS_Subset
  <2> QED BY <1>1, <2>1, FiniteAlike DEF Room!Listed
<1>3. PICK g \in [bs -> Room!Booking] :
        /\ bookings' = {g[b] : b \in bs}
        /\ \A b \in bs :
             /\ g[b].kind = b.kind /\ g[b].id = b.id /\ g[b].units = b.units /\ g[b].at = b.at
             /\ g[b].here => b.here
             /\ g[b].kind = "count" /\ g[b].at = "sent" /\ ~g[b].stale =>
                  bookings' = Room!Orphaned(bs) /\ ~b.stale
  <2>1. CASE bookings' = Room!Orphaned(bs)
    <3> DEFINE g == [b \in bs |-> [b EXCEPT !.here = FALSE]]
    <3>1. g \in [bs -> Room!Booking]
      <4>1. ASSUME NEW b \in bs PROVE [b EXCEPT !.here = FALSE] \in Room!Booking
        <5>1. b \in Room!Booking
          BY <1>1
        <5> QED BY <5>1 DEF Room!Booking
      <4> QED BY <4>1
    <3>2. bookings' = {g[b] : b \in bs}
      BY <2>1 DEF Room!Orphaned
    <3>3. \A b \in bs :
             /\ g[b].kind = b.kind /\ g[b].id = b.id /\ g[b].units = b.units /\ g[b].at = b.at
             /\ ~g[b].here /\ g[b].stale = b.stale
      BY <1>1 DEF Room!Booking
    <3> HIDE DEF g
    <3> QED BY <2>1, <3>1, <3>2, <3>3
  <2>2. CASE bookings' = {[b EXCEPT !.stale = b.kind = "count" /\ b.at = "sent"] : b \in bs}
    <3> DEFINE g == [b \in bs |-> [b EXCEPT !.stale = b.kind = "count" /\ b.at = "sent"]]
    <3>1. g \in [bs -> Room!Booking]
      <4>1. ASSUME NEW b \in bs
            PROVE  [b EXCEPT !.stale = b.kind = "count" /\ b.at = "sent"] \in Room!Booking
        <5>1. b \in Room!Booking
          BY <1>1
        <5>2. (b.kind = "count" /\ b.at = "sent") \in BOOLEAN
          OBVIOUS
        <5> QED BY <5>1, <5>2 DEF Room!Booking
      <4> QED BY <4>1
    <3>2. bookings' = {g[b] : b \in bs}
      BY <2>2
    <3>3. \A b \in bs :
             /\ g[b].kind = b.kind /\ g[b].id = b.id /\ g[b].units = b.units /\ g[b].at = b.at
             /\ g[b].here = b.here
             /\ g[b].kind = "count" /\ g[b].at = "sent" => g[b].stale
      BY <1>1 DEF Room!Booking
    <3> HIDE DEF g
    <3> QED BY <3>1, <3>2, <3>3
  <2> QED BY <2>1, <2>2
<1>4. \A b \in bs : g[b].id = b.id /\ Room!Awaited(g[b]) = Room!Awaited(b)
  BY <1>3 DEF Room!Awaited
<1>5. Room!Listed(bookings') /\ Sum(Due, bookings') = Sum(Due, bs)
  BY <1>2, <1>3, <1>4, AllChanged
<1>6. Room!OnTheWay' = Sum(Due, bs) /\ Room!OnTheWay' \in Int
  BY <1>2, <1>5, WayWillBe, WayInt
<1>7. \A c \in bookings' : \E b \in bs : c = g[b]
  BY <1>3
<1>8. ASSUME NEW c \in bookings'
      PROVE  /\ c.id < posts /\ Room!OfItsKind(c)
             /\ c.here => c.kind = "receive" /\ store.form.open /\ store.form.busy
             /\ \A d \in bookings' : c.here /\ d.here => c = d
  <2>1. PICK b \in bs : c = g[b]
    BY <1>7
  <2>2. c.kind = b.kind /\ c.id = b.id /\ c.units = b.units /\ (c.here => b.here)
    BY <1>3, <2>1
  <2>3. /\ b.id < posts /\ Room!OfItsKind(b)
        /\ b.here => b.kind = "receive" /\ store.form.open /\ store.form.busy
        /\ \A d \in bookings : b.here /\ d.here => b = d
    BY DEF Room!StoreTyped
  <2>4. Room!OfItsKind(c)
    BY <2>2, <2>3 DEF Room!OfItsKind
  <2>5. ASSUME NEW d \in bookings', c.here, d.here PROVE c = d
    <3>1. PICK e \in bs : d = g[e]
      BY <1>7
    <3>2. e.here
      BY <1>3, <2>5, <3>1
    <3> QED BY <2>1, <2>2, <2>3, <2>5, <3>1, <3>2
  <2> QED BY <2>2, <2>3, <2>4, <2>5
<1>9. ASSUME Room!CountsAlone, NEW c \in bookings', c.kind = "count"
      PROVE  /\ bookings' = {c}
             /\ c.at = "sent" /\ ~c.stale => bookings' = Room!Orphaned(bs) /\ c.units = shelf
  <2>1. PICK b \in bs : c = g[b]
    BY <1>7
  <2>2. c.kind = b.kind /\ c.units = b.units /\ c.at = b.at
        /\ (c.kind = "count" /\ c.at = "sent" /\ ~c.stale => bookings' = Room!Orphaned(bs)
             /\ ~b.stale)
    BY <1>3, <2>1
  <2>3. bookings = {b} /\ (b.at = "sent" /\ ~b.stale => b.units = shelf)
    BY <1>9, <2>2 DEF Room!CountsAlone
  <2>4. bs = {b}
    BY <2>3
  <2>5. bookings' = {c}
    BY <1>7, <2>1, <2>4
  <2> QED BY <1>9, <2>2, <2>3, <2>5
<1>10. ASSUME Room!FormsCovered, NEW c \in bookings', c.here, c.at # "ok"
       PROVE  Pack * store.form.packs <= Pack * truck + c.units
  <2>1. PICK b \in bs : c = g[b]
    BY <1>7
  <2>2. b.here /\ c.units = b.units /\ c.at = b.at
    BY <1>3, <1>10, <2>1
  <2>3. Pack * store.form.packs <= Pack * truck + b.units
    BY <1>10, <2>2 DEF Room!FormsCovered
  <2> QED BY <2>2, <2>3
<1>11. ASSUME bookings' = Room!Orphaned(bs), NEW c \in bookings' PROVE ~c.here
  <2>1. PICK b \in bs : c = [b EXCEPT !.here = FALSE]
    BY <1>11 DEF Room!Orphaned
  <2>2. b \in Room!Booking
    BY <1>1
  <2> QED BY <2>1, <2>2 DEF Room!Booking
<1> QED BY <1>2, <1>5, <1>6, <1>8, <1>9, <1>10, <1>11

\* The form is closed, by the owner or by the answer of what it sent.
LEMMA FormCloses ==
  ASSUME Pack \in Nat \ {0}, Room!StoreInv,
         Room!CloseForm \/ \E b \in bookings : Room!DeliveryBooked(b)
  PROVE  Room!StoreInv'
<1>1. Room!Listed(bookings) /\ store \in Room!Page /\ Room!StoreTyped
  BY DEF Room!StoreInv, Room!StoreTyped
<1>2. /\ store' = [store EXCEPT !.form = Room!NoForm]
      /\ UNCHANGED <<posts, stock, shelf, truck, broken, because>>
  BY DEF Room!CloseForm, Room!DeliveryBooked, Room!Venue
<1>3. PICK bs \in SUBSET bookings : bookings' = Room!Orphaned(bs)
             /\ Sum(Due, bs) = Sum(Due, bookings)
  <2>1. CASE Room!CloseForm
    BY <2>1 DEF Room!CloseForm
  <2>2. ASSUME NEW b \in bookings, Room!DeliveryBooked(b) 
        PROVE  \E bs \in SUBSET bookings : bookings' = Room!Orphaned(bs)
                 /\ Sum(Due, bs) = Sum(Due, bookings)
    <3>1. Room!Awaited(b) = 0 /\ bookings' = Room!Orphaned(bookings \ {b})
      BY <2>2 DEF Room!DeliveryBooked, Room!Awaited
    <3>2. Sum(Due, bookings \ {b}) = Sum(Due, bookings)
      BY <1>1, <3>1, OneLess, WayInt
    <3> QED BY <3>1, <3>2
  <2> QED BY <2>1, <2>2
<1>4. Room!OnTheWay' = Room!OnTheWay
  BY <1>1, <1>3, Marked, WayIs
<1>5. store' \in Room!Page /\ store'.box = store.box /\ store'.stale = store.stale
        /\ ~store'.form.open
  BY <1>1, <1>2 DEF Room!Page, Room!NoForm
<1>6. Room!StoreTyped'
  <2>1. \A c \in bookings' : c.id < posts' /\ Room!OfItsKind(c) /\ ~c.here
    BY <1>1, <1>2, <1>3, Marked
  <2>2. Room!Listed(bookings')
    BY <1>1, <1>3, Marked
  <2> QED BY <1>2, <1>5, <2>1, <2>2 DEF Room!StoreInv, Room!StoreTyped
<1>7. ASSUME because' = {} PROVE Room!Balanced' /\ Room!CountsAlone' /\ Room!FormsCovered'
  <2>1. Room!Balanced /\ Room!CountsAlone /\ Room!FormsCovered
    BY <1>2, <1>7 DEF Room!StoreInv
  <2>2. Room!Balanced'
    BY <1>2, <1>4, <2>1 DEF Room!Balanced
  <2>3. Room!CountsAlone'
    <3>1. \A c \in bookings' : c.kind = "count" =>
              /\ bookings' = {c}
              /\ c.at = "sent" /\ ~c.stale => c.units = shelf
      BY <1>1, <1>3, <2>1, Marked
    <3> QED BY <1>2, <1>5, <2>1, <3>1 DEF Room!CountsAlone
  <2>4. Room!FormsCovered'
    <3>1. \A c \in bookings' : ~c.here
      BY <1>1, <1>3, Marked
    <3> QED BY <1>5, <3>1 DEF Room!FormsCovered
  <2> QED BY <2>2, <2>3, <2>4
<1> QED BY <1>6, <1>7 DEF Room!StoreInv

\* The shelf moves: what is counted gets old.
LEMMA ShelfStep ==
  ASSUME Pack \in Nat \ {0}, Room!StoreInv, Room!CrateArrives \/ Room!CrateBreaks \/ Room!Sold
  PROVE  Room!StoreInv'
<1>1. Room!Listed(bookings) /\ store \in Room!Page /\ Room!StoreTyped
      /\ stock \in Nat /\ shelf \in Nat /\ truck \in Nat /\ broken \in Nat
  BY DEF Room!StoreInv, Room!StoreTyped
<1>2. PICK n \in Int :
        /\ Room!Moves(n) /\ posts' = posts
        /\ stock' \in Nat /\ truck' \in Nat /\ broken' \in Nat /\ truck <= truck'
        /\ because' = {} => /\ because = {}
                            /\ stock' + Pack * truck' - Pack * broken'
                               = stock + Pack * truck - Pack * broken + n
  <2>1. CASE Room!CrateArrives
    BY <1>1, <2>1 DEF Room!CrateArrives
  <2>2. CASE Room!CrateBreaks
    BY <1>1, <2>2 DEF Room!CrateBreaks
  <2>3. CASE Room!Sold
    <3>1. stock' \in Nat /\ (stock > 0 => stock' = stock - 1)
      BY <1>1, <2>3 DEF Room!Sold, Room!Floored
    <3>2. Room!Moves(-1) /\ UNCHANGED <<posts, truck, broken>>
      BY <2>3 DEF Room!Sold
    <3>3. because' = {} => because = {} /\ stock > 0
      BY <2>3 DEF Room!Sold
    <3> DEFINE u == Pack * truck
               v == Pack * broken
    <3>4. u \in Int /\ v \in Int /\ u = Pack * truck' /\ v = Pack * broken'
      BY <1>1, <3>2
    <3>5. stock > 0 => stock' + u - v = stock + u - v + (-1)
      <4> HIDE DEF u, v
      <4> QED BY <1>1, <3>1, <3>4
    <3>6. stock > 0 => stock' + Pack * truck' - Pack * broken'
                       = stock + Pack * truck - Pack * broken + (-1)
      BY <3>2, <3>5
    <3>7. posts' = posts /\ truck' \in Nat /\ broken' \in Nat /\ truck <= truck'
      BY <1>1, <3>2
    <3> HIDE DEF u, v
    <3> QED BY <3>1, <3>2, <3>3, <3>6, <3>7
  <2> QED BY <2>1, <2>2, <2>3
<1>3. /\ shelf' = shelf + n /\ shelf' \in Nat
      /\ store' = [store EXCEPT !.stale = store.box # Room!NoBox]
      /\ bookings' = {[b EXCEPT !.stale = b.kind = "count" /\ b.at = "sent"] : b \in bookings}
  BY <1>2 DEF Room!Moves
<1>4. store' \in Room!Page /\ store'.box = store.box /\ store'.form = store.form
      /\ (store.box # Room!NoBox => store'.stale)
  <2>1. (store.box # Room!NoBox) \in BOOLEAN
    OBVIOUS
  <2> QED BY <1>1, <1>3, <2>1 DEF Room!Page
<1>5. /\ Room!Listed(bookings') /\ Room!OnTheWay' = Sum(Due, bookings) /\ Room!OnTheWay' \in Int
      /\ \A c \in bookings' :
           /\ c.id < posts /\ Room!OfItsKind(c)
           /\ c.here => c.kind = "receive" /\ store.form.open /\ store.form.busy
           /\ \A d \in bookings' : c.here /\ d.here => c = d
      /\ Room!CountsAlone => \A c \in bookings' : c.kind = "count" => bookings' = {c}
      /\ Room!FormsCovered => \A c \in bookings' : c.here /\ c.at # "ok" =>
           Pack * store.form.packs <= Pack * truck + c.units
  BY <1>1, <1>3, Marked
<1>6. Room!OnTheWay' = Room!OnTheWay
  BY <1>1, <1>5, WayIs
<1>7. \A c \in bookings' : c.kind = "count" /\ c.at = "sent" => c.stale
  <2> TAKE c \in bookings'
  <2>1. PICK b \in bookings : c = [b EXCEPT !.stale = b.kind = "count" /\ b.at = "sent"]
    BY <1>3
  <2>2. b \in Room!Booking
    BY <1>1, FiniteAlike DEF Room!Listed
  <2> QED BY <2>1, <2>2 DEF Room!Booking
<1>8. Room!StoreTyped'
  <2>1. \A c \in bookings' :
           /\ c.id < posts' /\ Room!OfItsKind(c)
           /\ c.here => c.kind = "receive" /\ store'.form.open /\ store'.form.busy
           /\ \A d \in bookings' : c.here /\ d.here => c = d
    BY <1>2, <1>4, <1>5
  <2>2. stock' \in Nat /\ shelf' \in Nat /\ truck' \in Nat /\ broken' \in Nat /\ posts' \in Nat
    BY <1>1, <1>2, <1>3 DEF Room!StoreTyped
  <2> QED BY <1>4, <1>5, <2>1, <2>2 DEF Room!StoreTyped
<1>9. ASSUME because' = {} PROVE Room!Balanced' /\ Room!CountsAlone' /\ Room!FormsCovered'
  <2>1. Room!Balanced /\ Room!CountsAlone /\ Room!FormsCovered
    BY <1>2, <1>9 DEF Room!StoreInv
  <2>2. Room!Balanced'
    <3> DEFINE u == Pack * truck
               v == Pack * broken
               x == Pack * truck'
               y == Pack * broken'
    <3>1. u \in Int /\ v \in Int /\ x \in Int /\ y \in Int
      BY <1>1, <1>2
    <3>2. shelf = stock + u - v + Room!OnTheWay /\ stock' + x - y = stock + u - v + n
      BY <1>2, <1>9, <2>1 DEF Room!Balanced
    <3> HIDE DEF u, v, x, y
    <3>3. shelf' = stock' + x - y + Room!OnTheWay'
      BY <1>1, <1>2, <1>3, <1>5, <1>6, <3>1, <3>2
    <3> QED BY <3>3 DEF Room!Balanced, x, y
  <2>3. Room!CountsAlone'
    BY <1>4, <1>5, <1>7, <2>1 DEF Room!CountsAlone
  <2>4. Room!FormsCovered'
    <3>1. Pack * truck <= Pack * truck'
      BY <1>1, <1>2, Grows
    <3>2. store.form.packs \in Nat
      BY <1>1 DEF Room!Page
    <3>3. ASSUME NEW c \in bookings', c.here, c.at # "ok"
          PROVE  Pack * store'.form.packs <= Pack * truck' + c.units
      <4>1. Pack * store.form.packs <= Pack * truck + c.units
        BY <1>5, <2>1, <3>3
      <4>2. c.units \in Int
        BY <1>5, FiniteAlike DEF Room!Listed, Room!Booking
      <4> DEFINE p == Pack * store.form.packs
                 u == Pack * truck
                 x == Pack * truck'
      <4>3. p \in Int /\ u \in Int /\ x \in Int
        BY <1>1, <1>2, <3>2
      <4>4. p <= x + c.units
        <5> HIDE DEF p, u, x
        <5> QED BY <4>2, <4>3, <4>1, <3>1 DEF p, u, x
      <4> QED BY <1>4, <4>4
    <3>4. store.form.open /\ ~store.form.busy => store.form.packs <= truck'
      BY <1>1, <1>2, <2>1, <3>2 DEF Room!FormsCovered
    <3> QED BY <1>4, <3>3, <3>4 DEF Room!FormsCovered
  <2> QED BY <2>2, <2>3, <2>4
<1> QED BY <1>8, <1>9 DEF Room!StoreInv

\* The venue books a request; one that counts is alone and says what stands there.
LEMMA BookStep ==
  ASSUME Pack \in Nat \ {0}, Room!StoreInv, NEW b \in bookings,
         Room!Booked(b) \/ Room!BookingFails(b)
  PROVE  Room!StoreInv'
<1>1. /\ Room!Listed(bookings) /\ store \in Room!Page /\ Room!StoreTyped /\ b \in Room!Booking
           /\ posts \in Nat
      /\ stock \in Nat /\ shelf \in Nat /\ truck \in Nat /\ broken \in Nat
      /\ b.units \in Int /\ Room!OfItsKind(b)
  BY FiniteAlike DEF Room!StoreInv, Room!StoreTyped, Room!Listed, Room!Booking
<1>2. PICK c \in Room!Booking :
        /\ bookings' = (bookings \ {b}) \union {c} /\ UNCHANGED <<posts, store, shelf>>
        /\ c.kind = b.kind /\ c.id = b.id /\ c.units = b.units /\ c.here = b.here
        /\ c.at # "sent" /\ b.at # "failed"
        /\ c.at = "ok" <=> Room!Booked(b)
  <2>1. CASE Room!Booked(b)
    <3> DEFINE c == [b EXCEPT !.at = "ok"]
    <3>1. c \in Room!Booking /\ c.kind = b.kind /\ c.id = b.id /\ c.units = b.units
            /\ c.here = b.here
          /\ c.at = "ok"
      BY <1>1 DEF Room!Booking
    <3>2. bookings' = (bookings \ {b}) \union {c} /\ UNCHANGED <<posts, store, shelf>>
            /\ b.at = "sent"
      BY <2>1 DEF Room!Booked, Room!Becomes
    <3> HIDE DEF c
    <3> QED BY <2>1, <3>1, <3>2
  <2>2. CASE Room!BookingFails(b) /\ ~Room!Booked(b)
    <3> DEFINE c == [b EXCEPT !.at = "failed"]
    <3>1. c \in Room!Booking /\ c.kind = b.kind /\ c.id = b.id /\ c.units = b.units
            /\ c.here = b.here
          /\ c.at = "failed"
      BY <1>1 DEF Room!Booking
    <3>2. bookings' = (bookings \ {b}) \union {c} /\ UNCHANGED <<posts, store, shelf>>
          /\ b.at \in {"sent", "ok"}
      BY <2>2 DEF Room!BookingFails, Room!Becomes
    <3> HIDE DEF c
    <3> QED BY <2>2, <3>1, <3>2
  <2> QED BY <2>1, <2>2
<1>3. /\ Room!Listed(bookings')
      /\ Room!OnTheWay' = Room!OnTheWay - Room!Awaited(b) + Room!Awaited(c)
      /\ Room!OnTheWay \in Int /\ Room!Awaited(b) \in Int /\ Room!Awaited(c) \in Int
  <2>1. Room!Listed(bookings')
          /\ Sum(Due, bookings') = Sum(Due, bookings) - Room!Awaited(b) + Room!Awaited(c)
    BY <1>1, <1>2, OneChanged
  <2> QED BY <1>1, <2>1, WayIs, WayWillBe, WayInt, DueIs
<1>4. /\ stock' \in Nat
      /\ truck' \in {0, truck} /\ broken' \in {0, broken}
      /\ b.kind # "count" => truck' = truck /\ broken' = broken
  <2>1. CASE Room!Booked(b)
    <3>1. stock' = Room!Floored(Room!Level(b)) /\ Room!Level(b) \in Int
      BY <1>1, <2>1 DEF Room!Booked, Room!Level
    <3> QED BY <2>1, <3>1 DEF Room!Booked, Room!Floored
  <2>2. CASE Room!BookingFails(b)
    BY <1>1, <2>2 DEF Room!BookingFails
  <2> QED BY <2>1, <2>2
<1>5. Room!StoreTyped'
  <2>1. Room!OfItsKind(c)
    BY <1>1, <1>2 DEF Room!OfItsKind
  <2>2. \A d \in bookings :
           /\ d.id < posts' /\ Room!OfItsKind(d)
           /\ d.here => d.kind = "receive" /\ store'.form.open /\ store'.form.busy
           /\ \A e \in bookings : d.here /\ e.here => d = e
    BY <1>2 DEF Room!StoreInv, Room!StoreTyped
  <2>3. c.id < posts' /\ (c.here => c.kind = "receive" /\ store'.form.open /\ store'.form.busy)
    BY <1>2, <2>2
  <2>4. \A d, e \in bookings' : d.here /\ e.here => d = e
    BY <1>2, <2>2
  <2>5. \A d \in bookings' :
           /\ d.id < posts' /\ Room!OfItsKind(d)
           /\ d.here => d.kind = "receive" /\ store'.form.open /\ store'.form.busy
    BY <1>2, <2>1, <2>2, <2>3
  <2>6. truck' \in Nat /\ broken' \in Nat
    BY <1>1, <1>4
  <2> QED BY <1>1, <1>2, <1>3, <1>4, <2>4, <2>5, <2>6 DEF Room!StoreTyped
<1>6. ASSUME because' = {} PROVE Room!Balanced' /\ Room!CountsAlone' /\ Room!FormsCovered'
  <2>1. because = {} /\ (Room!Booked(b) =>
          Room!Level(b) >= 0 /\ ~b.stale /\ ~(b.kind = "count" /\ Room!Filled))
                     /\ (Room!BookingFails(b) => b.at # "ok")
    <3>1. CASE Room!Booked(b)
      <4>1. because' = because \union (IF Room!Level(b) < 0 THEN {"floored"} ELSE {})
                    \union (IF b.stale THEN {"stale"} ELSE {})
                    \union (IF b.kind = "count" /\ Room!Filled THEN {"crossed"} ELSE {})
        BY <3>1 DEF Room!Booked
      <4>2. because = {} /\ ~(Room!Level(b) < 0) /\ ~b.stale /\ ~(b.kind = "count" /\ Room!Filled)
        BY <1>6, <4>1
      <4>3. Room!Level(b) \in Int /\ b.at = "sent"
        BY <1>1, <3>1 DEF Room!Booked, Room!Level
      <4>4. Room!Level(b) >= 0
        <5> HIDE DEF Room!Level
        <5> QED BY <4>2, <4>3
      <4> QED BY <4>2, <4>3, <4>4
    <3>2. CASE Room!BookingFails(b) /\ ~Room!Booked(b)
      BY <1>6, <3>2 DEF Room!BookingFails
    <3> QED BY <3>1, <3>2
  <2>2. Room!Balanced /\ Room!CountsAlone /\ Room!FormsCovered
    BY <2>1 DEF Room!StoreInv
  <2>3. b.at = "sent"
    BY <2>1 DEF Room!Booked, Room!BookingFails
  <2>4. Room!Balanced'
    <3>1. CASE ~Room!Booked(b)
      <4>1. UNCHANGED <<stock, shelf, truck, broken>>
        BY <3>1 DEF Room!BookingFails
      <4>2. Room!Awaited(c) = Room!Awaited(b)
        BY <1>2, <2>3, <3>1 DEF Room!Awaited
      <4>3. Room!OnTheWay' = Room!OnTheWay
        BY <1>3, <4>2
      <4> QED BY <2>2, <4>1, <4>3 DEF Room!Balanced
    <3>2. CASE Room!Booked(b) /\ b.kind # "count"
      <4>1. Room!Awaited(b) = b.units /\ Room!Awaited(c) = 0
        BY <1>2, <2>3, <3>2 DEF Room!Awaited
      <4>2. stock' = stock + b.units /\ UNCHANGED <<shelf, truck, broken>>
        BY <1>1, <2>1, <3>2 DEF Room!Booked, Room!Level, Room!Floored
      <4>3. Room!OnTheWay' = Room!OnTheWay - b.units
        BY <1>1, <1>3, <4>1
      <4> DEFINE u == Pack * truck
                 v == Pack * broken
      <4>4. u \in Int /\ v \in Int /\ shelf = stock + u - v + Room!OnTheWay
        BY <1>1, <2>2 DEF Room!Balanced
      <4> HIDE DEF u, v
      <4>5. shelf' = stock' + u - v + Room!OnTheWay'
        BY <1>1, <1>3, <4>2, <4>3, <4>4
      <4> QED BY <4>2, <4>5 DEF Room!Balanced, u, v
    <3>3. CASE Room!Booked(b) /\ b.kind = "count"
      <4>1. Room!Awaited(b) = 0 /\ Room!Awaited(c) = 0
        BY <1>2, <3>3 DEF Room!Awaited
      <4>2. bookings = {b} /\ b.units = shelf
        BY <2>1, <2>2, <2>3, <3>3 DEF Room!CountsAlone
      <4>3. Room!OnTheWay = 0
        <5>1. Sum(Due, {} \union {b}) = Sum(Due, {}) + Due[b]
          <6>1. \A x \in {} \union {b} : Due[x] \in Int
            BY <1>1, DueIs
          <6> QED BY <6>1, FS_EmptySet, SumAdd
        <5>2. {} \union {b} = bookings
          BY <4>2
        <5>3. Due[b] = 0 
          BY <1>1, <4>1, DueIs
        <5>4. Sum(Due, bookings) = 0
          BY <5>1, <5>2, <5>3, SumEmpty
        <5> QED BY <1>1, <5>4, WayIs
      <4>4. Room!OnTheWay' = 0
        BY <1>3, <4>1, <4>3
      <4>5. stock' = shelf /\ shelf' = shelf /\ truck' = 0 /\ broken' = 0
        BY <1>1, <3>3, <4>2 DEF Room!Booked, Room!Level, Room!Floored
      <4>6. Pack * truck' = 0 /\ Pack * broken' = 0
        BY <4>5
      <4> QED BY <1>1, <4>4, <4>5, <4>6 DEF Room!Balanced
    <3> QED BY <3>1, <3>2, <3>3
  <2>5. Room!CountsAlone'
    <3>1. ASSUME NEW d \in bookings', d.kind = "count"
          PROVE  bookings' = {d} /\ d.at # "sent"
      <4>1. PICK e \in bookings : e.kind = "count" /\ (d = c \/ d = e)
        BY <1>2, <3>1
      <4>2. bookings = {e}
        BY <2>2, <4>1 DEF Room!CountsAlone
      <4>3. e = b /\ bookings' = {c}
        BY <1>2, <4>2
      <4> QED BY <1>2, <3>1, <4>3
    <3> QED BY <1>2, <2>2, <3>1 DEF Room!CountsAlone
  <2>6. Room!FormsCovered'
    <3>1. CASE b.kind # "count"
      <4>1. truck' = truck /\ store' = store
        BY <1>2, <1>4, <3>1
      <4>2. ASSUME NEW d \in bookings', d.here, d.at # "ok"
            PROVE  Pack * store.form.packs <= Pack * truck + d.units
        <5>1. CASE d = c
          <6>1. b.here /\ b.at # "ok" /\ d.units = b.units
            BY <1>2, <2>3, <4>2, <5>1
          <6> QED BY <2>2, <6>1 DEF Room!FormsCovered
        <5>2. CASE d \in bookings
          BY <2>2, <4>2, <5>2 DEF Room!FormsCovered
        <5> QED BY <1>2, <5>1, <5>2
      <4> QED BY <2>2, <4>1, <4>2 DEF Room!FormsCovered
    <3>2. CASE b.kind = "count"
      <4>1. bookings' = {c} /\ ~c.here
        <5>1. bookings = {b}
          BY <2>2, <3>2 DEF Room!CountsAlone
        <5>2. ~b.here
          BY <1>1, <3>2 DEF Room!StoreTyped
        <5> QED BY <1>2, <5>1, <5>2
      <4>2. store.form.open => store.form.packs <= truck' \/ store.form.busy
        <5>1. CASE Room!Booked(b)
          <6>1. store.form.packs \in Nat /\ (store.form.open => ~(store.form.packs > 0))
            BY <1>1, <2>1, <3>2, <5>1 DEF Room!Filled, Room!Page
          <6>2. truck' \in Nat
            BY <1>1, <1>4
          <6> QED BY <6>1, <6>2
        <5>2. CASE Room!BookingFails(b)
          BY <2>2, <5>2 DEF Room!BookingFails, Room!FormsCovered
        <5> QED BY <5>1, <5>2
      <4> QED BY <1>2, <4>1, <4>2 DEF Room!FormsCovered
    <3> QED BY <3>1, <3>2
  <2> QED BY <2>4, <2>5, <2>6
<1> QED BY <1>5, <1>6 DEF Room!StoreInv

\* An answer arrives, and what it answered is on its way no longer.
LEMMA AnswerStep ==
  ASSUME Pack \in Nat \ {0}, Room!StoreInv, NEW b \in bookings,
         Room!CountSaved(b) \/ Room!Adjusted(b) \/ Room!NotBooked(b)
  PROVE  Room!StoreInv'
<1>1. /\ Room!Listed(bookings) /\ store \in Room!Page /\ Room!StoreTyped /\ b \in Room!Booking
      /\ stock \in Nat /\ shelf \in Nat /\ truck \in Nat /\ broken \in Nat
      /\ b.units \in Int /\ Room!OfItsKind(b)
  BY FiniteAlike DEF Room!StoreInv, Room!StoreTyped, Room!Listed, Room!Booking
<1>2. /\ bookings' = bookings \ {b} /\ UNCHANGED <<posts, stock, shelf, because>>
  BY DEF Room!CountSaved, Room!Adjusted, Room!NotBooked, Room!Answered, Room!Venue
<1>3. /\ Room!Listed(bookings') /\ Room!OnTheWay' = Room!OnTheWay - Room!Awaited(b)
      /\ Room!OnTheWay \in Int /\ Room!Awaited(b) \in Int
  <2>1. Room!Listed(bookings') /\ Sum(Due, bookings') = Sum(Due, bookings) - Room!Awaited(b)
    BY <1>1, <1>2, OneLess
  <2> QED BY <1>1, <2>1, WayIs, WayWillBe, WayInt, DueIs
<1>4. /\ truck' \in Nat /\ broken' \in Nat /\ truck <= truck'
      /\ Pack * truck' - Pack * broken' = Pack * truck - Pack * broken + Room!Awaited(b)
      /\ Room!NotBooked(b) /\ b.here => Pack * truck' = Pack * truck + b.units
  <2> DEFINE u == Pack * truck
             v == Pack * broken
  <2>0. u \in Int /\ v \in Int
    BY <1>1
  <2>1. CASE Room!CountSaved(b) \/ Room!Adjusted(b) \/ b.kind = "count"
    <3>1. Room!Awaited(b) = 0 /\ truck' = truck /\ broken' = broken /\ (Room!NotBooked(b)
            /\ b.here => FALSE)
      <4>1. CASE Room!CountSaved(b)
        BY <1>1, <4>1 DEF Room!CountSaved, Room!Answered, Room!Awaited, Room!Venue,
           Room!NotBooked
      <4>2. CASE Room!Adjusted(b)
        BY <1>1, <4>2 DEF Room!Adjusted, Room!Answered, Room!Awaited, Room!Venue, Room!NotBooked
      <4>3. CASE Room!NotBooked(b) /\ b.kind = "count"
        <5>1. ~(b.units < 0) /\ ~b.here
          BY <1>1, <4>3 DEF Room!OfItsKind, Room!StoreTyped
        <5> QED BY <4>3, <5>1 DEF Room!NotBooked, Room!Awaited
      <4> QED BY <2>1, <4>1, <4>2, <4>3
    <3>2. u - v = u - v + 0
      <4> HIDE DEF u, v
      <4> QED BY <2>0
    <3> QED BY <1>1, <3>1, <3>2
  <2>2. CASE Room!NotBooked(b) /\ b.kind # "count"
    <3>1. b.at = "failed" /\ Room!Awaited(b) = b.units
      BY <2>2 DEF Room!NotBooked, Room!Answered, Room!Awaited
    <3>2. CASE b.units > 0
      <4>1. PICK k \in Nat : b.units = k * Pack
        <5>1. CASE b.kind = "adjust"
          <6>1. b.units = 1 * Pack
            BY <1>1, <3>2, <5>1 DEF Room!OfItsKind
          <6> QED BY <6>1
        <5>2. CASE b.kind = "receive"
          BY <1>1, <5>2 DEF Room!OfItsKind
        <5> QED BY <1>1, <2>2, <5>1, <5>2 DEF Room!Booking
      <4>2. b.units \div Pack = k
        BY <4>1, WholeCrates
      <4>3. truck' = truck + k /\ broken' = broken
        BY <1>1, <2>2, <3>2, <4>2 DEF Room!NotBooked
      <4>4. Pack * truck' = u + b.units
        BY <1>1, <4>1, <4>3
      <4>5. u + b.units - v = u - v + b.units
        <5> HIDE DEF u, v
        <5> QED BY <1>1, <2>0
      <4> HIDE DEF u, v
      <4> QED BY <1>1, <3>1, <4>3, <4>4, <4>5 DEF u, v
    <3>3. CASE ~(b.units > 0)
      <4>1. b.kind = "adjust" /\ b.units = -Pack /\ ~b.here
        <5>1. b.kind # "receive"
          <6>1. SUFFICES ASSUME b.kind = "receive" PROVE FALSE
            OBVIOUS
          <6>2. PICK n \in Nat \ {0} : b.units = n * Pack
            BY <1>1, <6>1 DEF Room!OfItsKind
          <6> QED BY <3>3, <6>2
        <5>2. b.kind = "adjust" /\ ~b.here
          BY <1>1, <2>2, <5>1 DEF Room!Booking, Room!StoreTyped
        <5> QED BY <1>1, <3>3, <5>2 DEF Room!OfItsKind
      <4>2. truck' = truck /\ broken' = broken + 1
        BY <1>1, <2>2, <3>3, <4>1 DEF Room!NotBooked
      <4>3. Pack * broken' = v + Pack
        BY <1>1, <4>2
      <4>4. u - (v + Pack) = u - v + (-Pack)
        <5> HIDE DEF u, v
        <5> QED BY <1>1, <2>0
      <4> HIDE DEF u, v
      <4> QED BY <1>1, <3>1, <4>1, <4>2, <4>3, <4>4 DEF u, v
    <3> QED BY <3>2, <3>3
  <2> QED BY <2>1, <2>2
<1>5. /\ store' \in Room!Page /\ store'.form.packs = store.form.packs
           /\ store'.form.open = store.form.open
      /\ store'.form.busy = store.form.busy \/ (Room!NotBooked(b) /\ b.here)
      /\ store'.box = Room!NoBox \/ (store'.box = store.box /\ store'.stale = store.stale)
  <2>1. CASE Room!CountSaved(b)
    <3>1. Room!NoBox \in Room!Box
      BY DEF Room!NoBox, Room!Box, Room!Blank
    <3> QED BY <1>1, <2>1, <3>1 DEF Room!CountSaved, Room!Page
  <2>2. CASE Room!Adjusted(b)
    BY <1>1, <2>2 DEF Room!Adjusted, Room!Page
  <2>3. CASE Room!NotBooked(b) /\ b.kind = "count"
    BY <1>1, <2>3 DEF Room!NotBooked, Room!Page
  <2>4. CASE Room!NotBooked(b) /\ b.kind # "count" /\ b.here
    BY <1>1, <2>4 DEF Room!NotBooked, Room!Page
  <2>5. CASE Room!NotBooked(b) /\ b.kind # "count" /\ ~b.here
    BY <1>1, <2>5 DEF Room!NotBooked, Room!Page
  <2> QED BY <2>1, <2>2, <2>3, <2>4, <2>5
<1>6. Room!StoreTyped'
  <2>1. \A d \in bookings' : d \in bookings /\ d # b
    BY <1>2
  <2>2. \A d \in bookings :
          /\ d.id < posts' /\ Room!OfItsKind(d)
          /\ d.here => d.kind = "receive" /\ store.form.open /\ store.form.busy
          /\ \A e \in bookings : d.here /\ e.here => d = e
    BY <1>2 DEF Room!StoreInv, Room!StoreTyped
  <2>3. \A d \in bookings' : d.here => store'.form.busy /\ store'.form.open
    BY <1>5, <2>1, <2>2
  <2>4. posts' \in Nat
    BY <1>1, <1>2 DEF Room!StoreTyped
  <2> QED BY <1>1, <1>2, <1>3, <1>4, <1>5, <2>1, <2>2, <2>3, <2>4 DEF Room!StoreTyped
<1>7. ASSUME because' = {} PROVE Room!Balanced' /\ Room!CountsAlone' /\ Room!FormsCovered'
  <2>1. Room!Balanced /\ Room!CountsAlone /\ Room!FormsCovered
    BY <1>2, <1>7 DEF Room!StoreInv
  <2>2. Room!Balanced'
    <3> DEFINE u == Pack * truck
               v == Pack * broken
               x == Pack * truck'
               y == Pack * broken'
    <3>1. u \in Int /\ v \in Int /\ x \in Int /\ y \in Int
      BY <1>1, <1>4
    <3>2. shelf = stock + u - v + Room!OnTheWay /\ x - y = u - v + Room!Awaited(b)
      BY <1>4, <2>1 DEF Room!Balanced
    <3> HIDE DEF u, v, x, y
    <3>3. shelf' = stock' + x - y + Room!OnTheWay'
      BY <1>1, <1>2, <1>3, <3>1, <3>2
    <3> QED BY <3>3 DEF Room!Balanced, x, y
  <2>3. Room!CountsAlone'
    <3>1. \A d \in bookings' : d.kind # "count"
      BY <1>2, <2>1 DEF Room!CountsAlone
    <3> QED BY <1>2, <1>5, <2>1, <3>1 DEF Room!CountsAlone
  <2>4. Room!FormsCovered'
    <3>1. store.form.packs \in Nat
      BY <1>1 DEF Room!Page
    <3>2. ASSUME NEW d \in bookings', d.here, d.at # "ok"
          PROVE  Pack * store'.form.packs <= Pack * truck' + d.units
      <4> DEFINE p == Pack * store.form.packs
                 u == Pack * truck
                 x == Pack * truck'
      <4>1. p <= u + d.units /\ d.units \in Int
        BY <1>1, <1>2, <2>1, <3>2, FiniteAlike DEF Room!FormsCovered, Room!Listed, Room!Booking
      <4>2. u <= x
        BY <1>1, <1>4, Grows
      <4>3. p \in Int /\ u \in Int /\ x \in Int
        BY <1>1, <1>4, <3>1
      <4>4. p <= x + d.units
        <5> HIDE DEF p, u, x
        <5> QED BY <4>1, <4>2, <4>3
      <4> QED BY <1>5, <4>4
    <3>3. store'.form.open /\ ~store'.form.busy => store'.form.packs <= truck'
      <4>1. CASE store'.form.busy = store.form.busy
        BY <1>1, <1>4, <1>5, <2>1, <3>1, <4>1 DEF Room!FormsCovered
      <4>2. CASE Room!NotBooked(b) /\ b.here
        <5>1. b.at = "failed"
          BY <4>2 DEF Room!NotBooked, Room!Answered
        <5>2. Pack * store.form.packs <= Pack * truck'
          BY <1>4, <2>1, <4>2, <5>1 DEF Room!FormsCovered
        <5>3. store.form.packs <= truck'
          <6>1. SUFFICES ASSUME truck' < store.form.packs PROVE FALSE
            BY <1>4, <3>1
          <6>2. truck' + 1 <= store.form.packs
            BY <1>4, <3>1, <6>1
          <6>3. Pack * (truck' + 1) <= Pack * store.form.packs
            BY <1>4, <3>1, <6>2, Grows
          <6> QED BY <1>4, <3>1, <5>2, <6>3
        <5> QED BY <1>5, <5>3
      <4> QED BY <1>5, <4>1, <4>2
    <3> QED BY <3>2, <3>3 DEF Room!FormsCovered
  <2> QED BY <2>2, <2>3, <2>4
<1> QED BY <1>6, <1>7 DEF Room!StoreInv

LEMMA StoreStep ==
  ASSUME Pack \in Nat \ {0}, Room!StoreInv, Room!StoreNext \/ UNCHANGED Room!storeroom
  PROVE  Room!StoreInv'
<1>1. CASE Room!StoreNext
  BY <1>1, ScreenStep, FormCloses, CountSent, ButtonStep, DeliverySent, BookStep, AnswerStep,
     ShelfStep DEF Room!StoreNext
<1>2. CASE UNCHANGED Room!storeroom
  <2>1. Room!OnTheWay' = Room!OnTheWay
    BY <1>2, WayIs, WayWillBe DEF Room!StoreInv, Room!StoreTyped, Room!storeroom
  <2>2. Room!Balanced' = Room!Balanced
    BY <1>2, <2>1 DEF Room!Balanced, Room!storeroom
  <2>3. Room!CountsAlone' <=> Room!CountsAlone
    BY <1>2 DEF Room!CountsAlone, Room!storeroom
  <2>4. Room!FormsCovered' <=> Room!FormsCovered
    BY <1>2 DEF Room!FormsCovered, Room!storeroom
  <2>5. Room!StoreTyped' <=> Room!StoreTyped
    BY <1>2 DEF Room!StoreTyped, Room!storeroom
  <2> QED BY <1>2, <2>2, <2>3, <2>4, <2>5 DEF Room!StoreInv, Room!storeroom
<1> QED BY <1>1, <1>2

LEMMA StoreSafe == ASSUME Pack \in Nat \ {0}, Room!StoreInv PROVE Room!LevelIsShelf
<1> SUFFICES ASSUME bookings = {}, truck = 0, broken = 0, because = {} PROVE stock = shelf
  BY DEF Room!LevelIsShelf
<1>1. Room!Balanced /\ Room!Listed(bookings) /\ stock \in Int
  BY DEF Room!StoreInv, Room!StoreTyped
<1>2. Room!OnTheWay = 0
  BY <1>1, WayIs, SumEmpty
<1>3. Pack * truck = 0 /\ Pack * broken = 0
  OBVIOUS
<1> QED BY <1>1, <1>2, <1>3 DEF Room!Balanced

\* For any article, crate and number of requests: with nothing under way the stored
\* level is what stands on the shelf, unless requests met, an answer was lost, a count
\* was old or more was taken off than was stored (stock page, routers/stock.py).
THEOREM LevelHolds == Spec => []LevelIsShelf
<1>1. Init => Room!StoreInv
  BY StoreStart, CratesHoldBottles DEF Init
<1>2. Room!StoreInv /\ [Next]_vars => Room!StoreInv'
  <2> SUFFICES ASSUME Room!StoreInv, [Next]_vars PROVE Room!StoreInv'
    OBVIOUS
  <2>1. Room!StoreNext \/ UNCHANGED Room!storeroom
    BY DEF Next, Only, vars, roomVars, Room!storeroom
  <2> QED BY <2>1, StoreStep, CratesHoldBottles
<1>3. Room!StoreInv => LevelIsShelf
  BY StoreSafe, CratesHoldBottles DEF LevelIsShelf
<1> QED BY <1>1, <1>2, <1>3, PTL DEF Spec

-----------------------------------------------------------------------------
\* The promos and their prices.
\* The ticks of a day.
Hours == 0 .. Ticks - 1

\* A day of the clock and a tick of it.
LEMMA DayAndClock ==
  ASSUME NEW t \in Int
  PROVE  /\ t \div Ticks \in Int /\ Tonight!ClockOf(t) \in Hours
         /\ t = Ticks * (t \div Ticks) + Tonight!ClockOf(t)
BY TimesAreOfADay DEF Tonight!ClockOf, Hours

LEMMA SameNight ==
  ASSUME NEW m \in Int, NEW n \in Int, NEW a \in Hours, NEW b \in Hours,
         Ticks * m + a = Ticks * n + b
  PROVE  m = n
<1>1. CASE m < n
  <2>1. Ticks * (n - m) >= Ticks
    <3>1. n - m - 1 \in Nat
      BY <1>1
    <3>2. \A k \in Nat : Ticks * k >= 0
      BY TimesAreOfADay
    <3>3. Ticks * (n - m) = Ticks * (n - m - 1) + Ticks
      BY TimesAreOfADay
    <3> QED BY <3>1, <3>2, <3>3, TimesAreOfADay
  <2>2. Ticks * (n - m) = Ticks * n - Ticks * m
    BY TimesAreOfADay
  <2>3. Ticks * n \in Int /\ Ticks * m \in Int
    BY TimesAreOfADay
  <2> QED BY <2>1, <2>2, <2>3, TimesAreOfADay DEF Hours
<1>2. CASE n < m
  <2>1. Ticks * (m - n) >= Ticks
    <3>1. m - n - 1 \in Nat
      BY <1>2
    <3>2. \A k \in Nat : Ticks * k >= 0
      BY TimesAreOfADay
    <3>3. Ticks * (m - n) = Ticks * (m - n - 1) + Ticks
      BY TimesAreOfADay
    <3> QED BY <3>1, <3>2, <3>3, TimesAreOfADay
  <2>2. Ticks * (m - n) = Ticks * m - Ticks * n
    BY TimesAreOfADay
  <2>3. Ticks * n \in Int /\ Ticks * m \in Int
    BY TimesAreOfADay
  <2> QED BY <2>1, <2>2, <2>3, TimesAreOfADay DEF Hours
<1> QED BY <1>1, <1>2

\* What is within a day of zero.
LEMMA Around ==
  ASSUME NEW a \in Int, -Ticks < a, a < Ticks
  PROVE  Tonight!ClockOf(a) = (IF a < 0 THEN a + Ticks ELSE a)
<1>1. PICK q \in Int : q = a \div Ticks
  BY DayAndClock
<1>2. Tonight!ClockOf(a) \in Hours /\ a = Ticks * q + Tonight!ClockOf(a)
  BY <1>1, DayAndClock
<1>3. CASE a < 0
  <2> DEFINE b == a + Ticks
  <2>1. b \in Hours
    BY <1>3, TimesAreOfADay DEF Hours
  <2>2. Ticks * (0 - 1) = -Ticks
    BY TimesAreOfADay
  <2>3. Ticks * (0 - 1) + b = a
    BY <2>2, TimesAreOfADay
  <2> HIDE DEF b
  <2>4. q = 0 - 1
    BY <1>1, <1>2, <2>1, <2>3, SameNight
  <2>5. Tonight!ClockOf(a) = a + Ticks
    BY <1>2, <2>2, <2>4, TimesAreOfADay DEF Hours
  <2> QED BY <1>3, <2>5
<1>4. CASE a >= 0
  <2>1. a \in Hours /\ Ticks * 0 + a = a /\ 0 \in Int
    BY <1>4, TimesAreOfADay DEF Hours
  <2>0. Ticks * q + Tonight!ClockOf(a) = Ticks * 0 + a /\ q \in Int /\ Tonight!ClockOf(a) \in Hours
    BY <1>2, <2>1
  <2>2. q = 0
    BY <2>0, <2>1, SameNight
  <2>3. Ticks * q = 0
    BY <2>2, TimesAreOfADay
  <2> QED BY <1>2, <1>4, <2>3, TimesAreOfADay DEF Hours
<1> QED BY <1>3, <1>4

\* A night runs from the rollover to the next.
LEMMA NightOf ==
  ASSUME NEW t \in 0 .. LastTick
  PROVE  /\ Tonight!BusinessDate(t) \in -1 .. LastTick \div Ticks
         /\ \E h \in Hours : /\ t = Ticks * Tonight!BusinessDate(t) + Rollover + h
                             /\ h = IF Tonight!ClockOf(t) < Rollover THEN Tonight!ClockOf(t) + Ticks - Rollover
                                                             ELSE Tonight!ClockOf(t) - Rollover
<1> DEFINE d == t \div Ticks
           l == LastTick \div Ticks
<1>1. /\ t \in Int /\ d \in Int /\ Tonight!ClockOf(t) \in Hours
      /\ t = Ticks * d + Tonight!ClockOf(t)
  BY DayAndClock, TimesAreOfADay
<1>2. /\ LastTick \in Int /\ l \in Int /\ Tonight!ClockOf(LastTick) \in Hours
      /\ LastTick = Ticks * l + Tonight!ClockOf(LastTick)
  BY DayAndClock, TimesAreOfADay
<1>3. d >= 0
  BY TimesAreOfADay
<1>4. d <= l
  <2> SUFFICES ASSUME l < d PROVE FALSE
    BY <1>1, <1>2
  <2>1. d - l - 1 \in Nat
    BY <1>1, <1>2
  <2>2. \A k \in Nat : Ticks * k >= 0
    BY TimesAreOfADay
  <2>3. Ticks * (d - l - 1) = Ticks * d - Ticks * l - Ticks
    BY <1>1, <1>2, TimesAreOfADay
  <2>4. Ticks * d \in Int /\ Ticks * l \in Int /\ Ticks * (d - l - 1) >= 0
    BY <1>1, <1>2, <2>1, <2>2, TimesAreOfADay
  <2> HIDE DEF d, l
  <2> QED BY <1>1, <1>2, <2>3, <2>4, TimesAreOfADay DEF Hours
<1>5. Tonight!BusinessDate(t) = IF Tonight!ClockOf(t) < Rollover THEN d - 1 ELSE d
  BY DEF Tonight!BusinessDate
<1>6. Ticks * (d - 1) = Ticks * d - Ticks /\ Ticks * d \in Int
  BY <1>1, TimesAreOfADay
<1>7. Tonight!BusinessDate(t) \in -1 .. l
  <2> HIDE DEF d, l
  <2> QED BY <1>1, <1>2, <1>3, <1>4, <1>5
<1> DEFINE h == IF Tonight!ClockOf(t) < Rollover THEN Tonight!ClockOf(t) + Ticks - Rollover
                                         ELSE Tonight!ClockOf(t) - Rollover
<1>8. h \in Hours
  BY <1>1, TimesAreOfADay DEF Hours
<1>9. t = Ticks * Tonight!BusinessDate(t) + Rollover + h
  <2> HIDE DEF d
  <2> QED BY <1>1, <1>5, <1>6, TimesAreOfADay DEF Hours
<1> QED BY <1>7, <1>8, <1>9

\* On its night a plain promo opens after the rollover and closes before the next.
LEMMA WithinNight ==
  ASSUME NEW p, p.start \in Hours, p.end \in Hours, Tonight!Plain(p), NEW n \in Int
  PROVE  \E o \in Hours :
           /\ Tonight!Opens(p, n) = Ticks * n + Rollover + o
           /\ o = IF Tonight!AllNight(p) THEN 0
                  ELSE IF p.start < Rollover THEN p.start + Ticks - Rollover ELSE p.start - Rollover
           /\ Tonight!Lasts(p) \in Hours /\ o + Tonight!Lasts(p) \in Hours
           /\ Tonight!Lasts(p) = IF Tonight!AllNight(p) THEN Ticks - 1
                         ELSE IF p.end < p.start THEN p.end - p.start + Ticks ELSE p.end - p.start
<1> DEFINE s == p.start
           e == p.end
           o == IF Tonight!AllNight(p) THEN 0
                ELSE IF s < Rollover THEN s + Ticks - Rollover ELSE s - Rollover
<1>1. s \in Int /\ e \in Int /\ s - Rollover \in Int /\ e - s \in Int
  BY TimesAreOfADay DEF Hours
<1>2. (s - Rollover) % Ticks = (IF s < Rollover THEN s + Ticks - Rollover ELSE s - Rollover)
  <2>1. -Ticks < s - Rollover /\ s - Rollover < Ticks
    BY TimesAreOfADay DEF Hours
  <2>2. Tonight!ClockOf(s - Rollover) = (IF s - Rollover < 0 THEN s - Rollover + Ticks ELSE s - Rollover)
    BY <1>1, <2>1, Around
  <2> HIDE DEF s
  <2> QED BY <1>1, <2>2, TimesAreOfADay DEF Tonight!ClockOf
<1>3. (e - s) % Ticks = (IF e < s THEN e - s + Ticks ELSE e - s)
  <2>1. -Ticks < e - s /\ e - s < Ticks
    BY TimesAreOfADay DEF Hours
  <2>2. Tonight!ClockOf(e - s) = (IF e - s < 0 THEN e - s + Ticks ELSE e - s)
    BY <1>1, <2>1, Around
  <2> HIDE DEF s, e
  <2> QED BY <1>1, <2>2, TimesAreOfADay DEF Tonight!ClockOf
<1>4. Ticks * n \in Int /\ n * Ticks = Ticks * n
  BY TimesAreOfADay
<1>5. Tonight!Opens(p, n) = Ticks * n + Rollover + o
  <2>1. Tonight!Opens(p, n) = Ticks * n + (IF Tonight!AllNight(p) THEN Rollover
                                   ELSE IF s < Rollover THEN s + Ticks ELSE s)
    BY <1>4 DEF Tonight!Opens
  <2> HIDE DEF s
  <2> QED BY <1>1, <1>4, <2>1, TimesAreOfADay
<1>6. Tonight!Lasts(p) = IF Tonight!AllNight(p) THEN Ticks - 1 ELSE IF e < s THEN e - s + Ticks ELSE e - s
  BY <1>3 DEF Tonight!Lasts
<1>7. o \in Hours /\ Tonight!Lasts(p) \in Hours /\ o + Tonight!Lasts(p) \in Hours
  <2>1. CASE Tonight!AllNight(p)
    BY <1>6, <2>1, TimesAreOfADay DEF Hours
  <2>2. CASE ~Tonight!AllNight(p)
    <3>1. ((s - Rollover) % Ticks) + Tonight!Lasts(p) < Ticks
      BY <2>2 DEF Tonight!Plain
    <3>2. o = (s - Rollover) % Ticks
      BY <1>2, <2>2
    <3>3. o \in Hours /\ Tonight!Lasts(p) \in Hours
      BY <1>6, <2>2, TimesAreOfADay DEF Hours
    <3> HIDE DEF o
    <3> QED BY <3>1, <3>2, <3>3, TimesAreOfADay DEF Hours
  <2> QED BY <2>1, <2>2
<1> QED BY <1>5, <1>6, <1>7

\* What apply_promo looks at is what the poster says.
LEMMA PosterSaysSo ==
  ASSUME NEW p, p.start \in Hours, p.end \in Hours, Tonight!Plain(p), NEW t \in 0 .. LastTick
  PROVE  Tonight!Runs(p, t) <=> Tonight!Advertised(p, t)
<1> DEFINE b == Tonight!BusinessDate(t)
           c == Tonight!ClockOf(t)
<1>1. b \in -1 .. LastTick \div Ticks /\ LastTick \div Ticks \in Int
  BY NightOf, DayAndClock, TimesAreOfADay
<1>b. b \in Int
  BY <1>1
<1>2. PICK h \in Hours : /\ t = Ticks * b + Rollover + h
                         /\ h = IF c < Rollover THEN c + Ticks - Rollover ELSE c - Rollover
  BY NightOf
<1>3. t \in Int /\ c \in Hours
  BY DayAndClock, TimesAreOfADay
<1>4. \A n \in Int : Tonight!Opens(p, n) <= t /\ t <= Tonight!Opens(p, n) + Tonight!Lasts(p) =>
        n = b
  <2> SUFFICES ASSUME NEW n \in Int, Tonight!Opens(p, n) <= t, t <= Tonight!Opens(p,
                      n) + Tonight!Lasts(p)
               PROVE  n = b
    OBVIOUS
  <2>1. PICK o \in Hours : /\ Tonight!Opens(p, n) = Ticks * n + Rollover + o
                           /\ Tonight!Lasts(p) \in Hours /\ o + Tonight!Lasts(p) \in Hours
    BY WithinNight
  <2>2. PICK a \in Int : a = Ticks * n
    BY TimesAreOfADay
  <2>3. PICK d \in Int : d = Ticks * b
    BY <1>b, TimesAreOfADay
  <2>4. t - a - Rollover \in Hours
    <3> HIDE DEF b, c
    <3> QED BY <1>3, <2>1, <2>2, TimesAreOfADay DEF Hours
  <2>5. a + (t - a - Rollover) = d + h
    <3> HIDE DEF b, c
    <3> QED BY <1>2, <1>3, <2>2, <2>3, TimesAreOfADay DEF Hours
  <2> HIDE DEF b, c
  <2> QED BY <1>b, <2>2, <2>3, <2>4, <2>5, SameNight
<1>5. Tonight!InWindow(c, p.start, p.end) <=> Tonight!Opens(p, b) <= t
        /\ t <= Tonight!Opens(p, b) + Tonight!Lasts(p)
  <2>1. PICK o \in Hours :
           /\ Tonight!Opens(p, b) = Ticks * b + Rollover + o
           /\ o = IF Tonight!AllNight(p) THEN 0
                  ELSE IF p.start < Rollover THEN p.start + Ticks - Rollover ELSE p.start - Rollover
           /\ Tonight!Lasts(p) \in Hours /\ o + Tonight!Lasts(p) \in Hours
           /\ Tonight!Lasts(p) = IF Tonight!AllNight(p) THEN Ticks - 1
                         ELSE IF p.end < p.start THEN p.end - p.start + Ticks ELSE p.end - p.start
    BY <1>b, WithinNight
  <2>2. PICK d \in Int : d = Ticks * b
    BY <1>b, TimesAreOfADay
  <2>3. Tonight!Opens(p, b) <= t /\ t <= Tonight!Opens(p, b) + Tonight!Lasts(p) <=> o <= h
          /\ h <= o + Tonight!Lasts(p)
    <3> HIDE DEF b, c
    <3> QED BY <1>2, <1>3, <2>1, <2>2, TimesAreOfADay DEF Hours
  <2>4. Tonight!InWindow(c, p.start, p.end) <=> o <= h /\ h <= o + Tonight!Lasts(p)
    <3>1. CASE Tonight!AllNight(p)
      <4>1. Tonight!InWindow(c, p.start, p.end)
        BY <3>1, TimesAreOfADay DEF Tonight!InWindow, Tonight!AllNight, Hours
      <4>2. o = 0 /\ Tonight!Lasts(p) = Ticks - 1
        BY <2>1, <3>1
      <4> HIDE DEF b, c
      <4> QED BY <4>1, <4>2, TimesAreOfADay DEF Hours
    <3>2. CASE ~Tonight!AllNight(p)
      <4>1. PICK s \in Hours, e \in Hours : s = p.start /\ e = p.end /\ s # e
        BY <3>2 DEF Tonight!AllNight
      <4>2. Tonight!InWindow(c, s, e) <=> IF s < e THEN s <= c /\ c <= e ELSE c >= s \/ c <= e
        BY <4>1 DEF Tonight!InWindow
      <4>3. /\ o = IF s < Rollover THEN s + Ticks - Rollover ELSE s - Rollover
            /\ Tonight!Lasts(p) = IF e < s THEN e - s + Ticks ELSE e - s
        BY <2>1, <3>2, <4>1
      <4>4. o + Tonight!Lasts(p) \in Hours
        BY <2>1
      <4> HIDE DEF b, c
      <4> QED BY <1>2, <1>3, <4>1, <4>2, <4>3, <4>4, TimesAreOfADay DEF Hours
    <3> QED BY <3>1, <3>2
  <2> QED BY <2>3, <2>4
<1>6. Tonight!OnNight(p, b) <=> p.days = {} \/ Tonight!Weekday(t) \in p.days
  BY DEF Tonight!OnNight, Tonight!Weekday
<1>7. Tonight!Runs(p, t) <=> Tonight!Opens(p, b) <= t
        /\ t <= Tonight!Opens(p, b) + Tonight!Lasts(p) /\ Tonight!OnNight(p, b)
  BY <1>5, <1>6 DEF Tonight!Runs
<1>8. ASSUME Tonight!Advertised(p, t)
      PROVE Tonight!Opens(p, b) <= t /\ t <= Tonight!Opens(p, b) + Tonight!Lasts(p)
              /\ Tonight!OnNight(p, b)
  <2>1. PICK n \in -1 .. LastTick \div Ticks :
          Tonight!OnNight(p, n) /\ Tonight!Opens(p, n) <= t
            /\ t <= Tonight!Opens(p, n) + Tonight!Lasts(p)
    BY <1>8 DEF Tonight!Advertised
  <2>2. n = b
    BY <1>1, <1>4, <2>1
  <2> QED BY <2>1, <2>2
<1>9. ASSUME Tonight!Opens(p, b) <= t /\ t <= Tonight!Opens(p, b) + Tonight!Lasts(p)
               /\ Tonight!OnNight(p, b)
      PROVE Tonight!Advertised(p, t)
  BY <1>1, <1>9 DEF Tonight!Advertised
<1> QED BY <1>7, <1>8, <1>9

LEMMA PromosStart == Tonight!PromosInit => Tonight!PromosInv
  BY TimesAreOfADay DEF Tonight!PromosInit, Tonight!PromosInv

LEMMA PromosStep ==
  ASSUME Tonight!PromosInv, Tonight!PromosNext \/ UNCHANGED Tonight!pricing
  PROVE  Tonight!PromosInv'
<1> DEFINE PromoRows  == Tonight!Entries \union {Tonight!Deleted}
           Pages == [open : BOOLEAN, posts : Seq(Tonight!Entries), listed : SUBSET Nat]
<1>0. now \in 0 .. LastTick /\ promos \in Seq(PromoRows) /\ promoPage \in Pages
  BY DEF Tonight!PromosInv
<1>1. \A rows : DOMAIN rows \subseteq Nat => \A l \in Tonight!Reloaded(rows) : l \in SUBSET Nat
  BY <1>0 DEF Tonight!Reloaded
<1>2. \A s \in Seq(PromoRows) : DOMAIN s \subseteq Nat
  OBVIOUS
<1> SUFFICES now' \in 0 .. LastTick /\ promos' \in Seq(PromoRows) /\ promoPage' \in Pages
  BY DEF Tonight!PromosInv
<1> HIDE DEF PromoRows
<1>3. CASE Tonight!NewPromo \/ Tonight!Cancel
  BY <1>0, <1>3 DEF Tonight!NewPromo, Tonight!Cancel
<1>4. ASSUME NEW e \in Tonight!Entries, Tonight!CreatePromo(e)
      PROVE promoPage' \in Pages /\ UNCHANGED <<now, promos>>
  <2>1. Append(promoPage.posts, e) \in Seq(Tonight!Entries)
    BY <1>0
  <2> QED BY <1>0, <1>4, <2>1 DEF Tonight!CreatePromo
<1>5. CASE Tonight!Created
  <2>1. PICK l \in Tonight!Reloaded(promos') :
               promoPage' = [promoPage EXCEPT !.posts = Tail(@), !.open = FALSE, !.listed = l]
    BY <1>5 DEF Tonight!Created
  <2>2. Head(promoPage.posts) \in Tonight!Entries /\ Tail(promoPage.posts) \in Seq(Tonight!Entries)
    BY <1>0, <1>5 DEF Tonight!Created
  <2>3. promos' \in Seq(PromoRows)
    BY <1>0, <1>5, <2>2 DEF Tonight!Created, PromoRows
  <2>4. l \in SUBSET Nat
    BY <1>1, <1>2, <2>1, <2>3
  <2> QED BY <1>0, <1>5, <2>1, <2>2, <2>3, <2>4 DEF Tonight!Created
<1>6. CASE Tonight!CreateFails
  <2>1. Tail(promoPage.posts) \in Seq(Tonight!Entries)
    BY <1>0, <1>6 DEF Tonight!CreateFails
  <2> QED BY <1>0, <1>6, <2>1 DEF Tonight!CreateFails
<1>7. ASSUME NEW i \in promoPage.listed, Tonight!DeletePromo(i)
      PROVE promos' \in Seq(PromoRows) /\ promoPage' \in Pages /\ UNCHANGED now
  <2>1. PICK l \in Tonight!Reloaded(promos') : promoPage' = [promoPage EXCEPT !.listed = l]
    BY <1>7 DEF Tonight!DeletePromo
  <2>2. promos' \in Seq(PromoRows)
    <3>1. promos' = [promos EXCEPT ![i] = Tonight!Deleted] /\ Tonight!Deleted \in PromoRows
      BY <1>7 DEF Tonight!DeletePromo, PromoRows
    <3>2. DOMAIN promos' = DOMAIN promos /\ DOMAIN promos = 1 .. Len(promos) /\ Len(promos) \in Nat
      BY <1>0, <3>1
    <3>3. \A j \in DOMAIN promos : promos'[j] \in PromoRows
      BY <1>0, <3>1
    <3>4. promos' \in [1 .. Len(promos) -> PromoRows]
      BY <3>1, <3>2, <3>3
    <3> QED BY <3>2, <3>4
  <2>4. l \in SUBSET Nat
    BY <1>1, <1>2, <2>1, <2>2
  <2> QED BY <1>0, <1>7, <2>1, <2>2, <2>4 DEF Tonight!DeletePromo
<1>8. CASE Tonight!Tick
  BY <1>0, <1>8, TimesAreOfADay DEF Tonight!Tick
<1>9. CASE UNCHANGED Tonight!pricing
  BY <1>0, <1>9 DEF Tonight!pricing
<1> QED BY <1>0, <1>3, <1>4, <1>5, <1>6, <1>7, <1>8, <1>9 DEF Tonight!PromosNext

LEMMA PromosSafe == Tonight!PromosInv => Tonight!PricedAsAdvertised
<1> SUFFICES ASSUME Tonight!PromosInv, \A p \in Tonight!Range(promos) : p # Tonight!Deleted =>
                      Tonight!Plain(p)
             PROVE  Tonight!Price(now) = 100 - Tonight!Best({p \in Tonight!Range(promos) :
                      Tonight!Advertised(p, now)})
  BY DEF Tonight!PricedAsAdvertised
<1>1. \A p \in Tonight!Range(promos) : p = Tonight!Deleted \/ p \in Tonight!Entries
  BY DEF Tonight!PromosInv, Tonight!Range
<1>2. \A p \in Tonight!Range(promos) : p.start \in Hours /\ p.end \in Hours
  BY <1>1, TimesAreOfADay DEF Tonight!Entries, Tonight!Deleted, Hours
<1>3. \A p \in Tonight!Range(promos) : Tonight!Plain(p)
  <2>1. Tonight!Plain(Tonight!Deleted)
    BY DEF Tonight!Plain, Tonight!AllNight, Tonight!Deleted
  <2> QED BY <2>1
<1>4. \A p \in Tonight!Range(promos) : Tonight!Runs(p, now) <=> Tonight!Advertised(p, now)
  BY <1>2, <1>3, PosterSaysSo DEF Tonight!PromosInv
<1>5. {p \in Tonight!Range(promos) : Tonight!Runs(p, now)} = {p \in Tonight!Range(promos) :
        Tonight!Advertised(p, now)}
  BY <1>4
<1> QED BY <1>5 DEF Tonight!Price

\* For any windows, discounts and weeks, however windows wrap and nights roll: the price
\* is that of the best promo on its poster (venue_time.py:12-14).
THEOREM PricesAsAdvertised == Spec => []PricedAsAdvertised
<1>1. Init => Tonight!PromosInv
  BY PromosStart, TimesAreOfADay DEF Init
<1>2. Tonight!PromosInv /\ [Next]_vars => Tonight!PromosInv'
  <2> SUFFICES ASSUME Tonight!PromosInv, [Next]_vars PROVE Tonight!PromosInv'
    OBVIOUS
  <2>1. Tonight!PromosNext \/ UNCHANGED Tonight!pricing
    BY DEF Next, Only, vars, tonightVars, Tonight!pricing
  <2> QED BY <2>1, PromosStep, TimesAreOfADay
<1>3. Tonight!PromosInv => PricedAsAdvertised
  BY PromosSafe, TimesAreOfADay DEF PricedAsAdvertised
<1> QED BY <1>1, <1>2, <1>3, PTL DEF Spec
=============================================================================
