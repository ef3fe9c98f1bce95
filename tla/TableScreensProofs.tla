------------------------- MODULE TableScreensProofs -------------------------
(***************************************************************************)
(* Proofs about the screens around a table, for any number of bills,       *)
(* sockets, orders, calls, lists, sheets and guests: the guest's visits,   *)
(* bill page and channel, what the attendant carries (the floor's orders,  *)
(* headcounts, calls, the order sheet), and the door.                      *)
(*                                                                         *)
(* Each part has an invariant of its module, stated there beside the       *)
(* property and why it is needed, and three lemmas about it: it holds at   *)
(* the start, every step of the screen keeps it, and it implies the        *)
(* property.  The theorem that follows is about Screens, where a step of   *)
(* another screen leaves this one as it is.                                *)
(***************************************************************************)
EXTENDS Screens, Sums

-----------------------------------------------------------------------------
\* The guest's channel.  The invariant is ChannelTypeOK /\ ChannelInv: only the
\* page's own socket is open at the phone's end, so that a second one at the
\* worker's end is one that was left behind; without such a one the place can be
\* given up only by the socket that has it.
ChannelIInv == ChannelTypeOK /\ ChannelInv

LEMMA ChannelStart == ChannelInit => ChannelIInv
<1> SUFFICES ASSUME ChannelInit PROVE ChannelIInv
  OBVIOUS
<1>1. ChannelTypeOK
  BY DEF ChannelInit, ChannelTypeOK
<1>2. Accepted = {} /\ \A n \in Sockets : socket[n] = "unused"
  BY DEF ChannelInit, Accepted
<1>3. ChannelInv
  BY <1>2 DEF ChannelInit, ChannelInv, DeafNeedsCrossing
<1> QED BY <1>1, <1>3 DEF ChannelIInv

\* A socket that was never dialled is found, if there is one.
LEMMA NextIsUnused ==
  ASSUME Unused # {}
  PROVE  NextSocket \in Sockets /\ socket[NextSocket] = "unused"
BY DEF NextSocket, Unused

\* Closing the phone's end leaves the worker's as it is.
LEMMA ClosedAtOneEnd ==
  ASSUME ChannelIInv
  PROVE  /\ Closes(view.socket) \in [Sockets -> {"unused", "dialled", "open", "closed", "gone"}]
         /\ \A n \in Sockets :
              /\ Closes(view.socket)[n] \notin {"dialled", "open"}
              /\ Closes(view.socket)[n] = "closed" <=> n \in Accepted
              /\ socket[n] = "unused" => Closes(view.socket)[n] = "unused"
BY DEF ChannelIInv, ChannelTypeOK, ChannelInv, Closes, Accepted

\* The next page's socket is one nobody has accepted yet.
LEMMA MountStep ==
  ASSUME ChannelIInv, NEW page \in {"table", "bill"}, Mount(page), UNCHANGED <<customer, calls,
         crossed>>
  PROVE  ChannelIInv'
<1> DEFINE n == NextSocket
<1>1. n \in Sockets /\ socket[n] = "unused"
  BY NextIsUnused DEF Mount
<1>2. /\ socket' \in [Sockets -> {"unused", "dialled", "open", "closed", "gone"}]
      /\ socket'[n] = "dialled"
      /\ \A m \in Sockets \ {n} : socket'[m] = Closes(view.socket)[m]
  BY <1>1, ClosedAtOneEnd DEF Mount
<1>3. view' = [page |-> page, socket |-> n, sheet |-> FALSE, status |-> "idle"]
  BY DEF Mount
<1> HIDE DEF n
<1>4. Accepted' = Accepted
  BY <1>1, <1>2, ClosedAtOneEnd DEF Accepted
<1>5. ChannelTypeOK'
  BY <1>1, <1>2, <1>3 DEF ChannelIInv, ChannelTypeOK
<1>6. ChannelInv'
  BY <1>1, <1>2, <1>3, <1>4, ClosedAtOneEnd DEF ChannelIInv, ChannelInv, DeafNeedsCrossing
<1> QED BY <1>5, <1>6 DEF ChannelIInv

LEMMA ReconnectStep == ASSUME ChannelIInv, Reconnect PROVE ChannelIInv'
<1> DEFINE n == NextSocket
<1>1. n \in Sockets /\ socket[n] = "unused"
  BY NextIsUnused DEF Reconnect
<1>2. /\ socket' = [socket EXCEPT ![n] = "dialled"] /\ view' = [view EXCEPT !.socket = n]
      /\ UNCHANGED <<customer, crossed>> /\ socket[view.socket] \in {"closed", "gone"}
  BY DEF Reconnect
<1> HIDE DEF n
<1>3. ChannelTypeOK'
  BY <1>1, <1>2 DEF ChannelIInv, ChannelTypeOK
<1>4. Accepted' = Accepted
  BY <1>1, <1>2 DEF ChannelIInv, ChannelTypeOK, Accepted
<1>5. view'.socket = n /\ socket'[n] = "dialled" /\ \A m \in Sockets \ {n} : socket'[m] = socket[m]
  BY <1>1, <1>2 DEF ChannelIInv, ChannelTypeOK
<1>6. ChannelInv'
  BY <1>1, <1>2, <1>4, <1>5 DEF ChannelIInv, ChannelInv, DeafNeedsCrossing
<1> QED BY <1>3, <1>6 DEF ChannelIInv

LEMMA DropStep == ASSUME ChannelIInv, SocketDrops PROVE ChannelIInv'
<1>1. socket' = Closes(view.socket) /\ UNCHANGED <<view, customer, crossed>>
  BY DEF SocketDrops
<1>2. Accepted' = Accepted
  BY <1>1, ClosedAtOneEnd DEF Accepted
<1>3. ChannelTypeOK'
  BY <1>1, ClosedAtOneEnd DEF ChannelIInv, ChannelTypeOK
<1>4. ChannelInv'
  BY <1>1, <1>2, <1>3, ClosedAtOneEnd DEF ChannelIInv, ChannelTypeOK, ChannelInv,
     DeafNeedsCrossing
<1> QED BY <1>3, <1>4 DEF ChannelIInv

\* Whoever is accepted is the page's own socket, and gets the place.
LEMMA ConnectStep ==
  ASSUME ChannelIInv, NEW n \in Sockets, ConnectCustomer(n)
  PROVE  ChannelIInv'
<1>1. /\ socket[n] = "dialled" /\ socket' = [socket EXCEPT ![n] = "open"] /\ customer' = n
      /\ crossed' = (crossed \/ Accepted # {}) /\ UNCHANGED view
  BY DEF ConnectCustomer, PlaceTaken
<1>2. /\ socket'[n] = "open" /\ \A m \in Sockets \ {n} : socket'[m] = socket[m]
      /\ n = view.socket
  BY <1>1 DEF ChannelIInv, ChannelTypeOK, ChannelInv
<1>3. Accepted' = Accepted \union {n}
  BY <1>1, <1>2 DEF Accepted
<1>4. ChannelTypeOK'
  BY <1>1 DEF ChannelIInv, ChannelTypeOK
<1>5. ChannelInv'
  BY <1>1, <1>2, <1>3 DEF ChannelIInv, ChannelInv, DeafNeedsCrossing
<1> QED BY <1>4, <1>5 DEF ChannelIInv

\* A socket whose phone is gone gives the place up; if the page has another that
\* is open, there were two.
LEMMA DisconnectStep ==
  ASSUME ChannelIInv, NEW n \in Sockets, DisconnectCustomer(n)
  PROVE  ChannelIInv'
<1>1. /\ socket[n] = "closed" /\ socket' = [socket EXCEPT ![n] = "gone"] /\ customer' = 0
      /\ UNCHANGED <<view, crossed>>
  BY DEF DisconnectCustomer, PlaceAfter
<1>2. socket'[n] = "gone" /\ \A m \in Sockets \ {n} : socket'[m] = socket[m]
  BY <1>1 DEF ChannelIInv, ChannelTypeOK
<1>3. n \in Accepted /\ Accepted' = Accepted \ {n}
  BY <1>1, <1>2 DEF Accepted
<1>4. ChannelTypeOK'
  BY <1>1 DEF ChannelIInv, ChannelTypeOK
<1>5. ~(view'.socket # 0 /\ socket'[view'.socket] = "open" /\ ~crossed')
  <2> SUFFICES ASSUME view.socket # 0, socket'[view.socket] = "open", ~crossed PROVE FALSE
    BY <1>1
  <2>1. view.socket \in Sockets /\ view.socket # n /\ socket[view.socket] = "open"
    BY <1>2 DEF ChannelIInv, ChannelTypeOK
  <2>2. view.socket \in Accepted
    BY <2>1 DEF Accepted
  <2> QED BY <1>3, <2>1, <2>2 DEF ChannelIInv, ChannelInv
<1>6. ChannelInv'
  BY <1>1, <1>2, <1>3, <1>5 DEF ChannelIInv, ChannelInv, DeafNeedsCrossing
<1> QED BY <1>4, <1>6 DEF ChannelIInv

\* A message may find a dead socket, never the page's open one.
LEMMA SendStep == ASSUME ChannelIInv, SendToCustomer PROVE ChannelIInv'
<1>1. /\ UNCHANGED <<socket, crossed>>
      /\ view' = view \/ view' = [view EXCEPT !.status = "coming"]
  BY DEF SendToCustomer
<1>2. customer' = customer \/ (customer' = 0 /\ socket[customer] = "closed")
  BY DEF SendToCustomer
<1>3. view'.socket = view.socket /\ ChannelTypeOK'
  BY <1>1, <1>2 DEF ChannelIInv, ChannelTypeOK
<1>4. Accepted' = Accepted
  BY <1>1 DEF Accepted
<1>5. ChannelInv'
  BY <1>1, <1>2, <1>3, <1>4 DEF ChannelIInv, ChannelInv, DeafNeedsCrossing
<1> QED BY <1>3, <1>5 DEF ChannelIInv

\* The sheet and the guest's call touch no socket.
LEMMA CallSheetStep ==
  ASSUME ChannelIInv, OpenSheet \/ CloseSheet \/ SendAlert
  PROVE  ChannelIInv'
<1>1. UNCHANGED <<socket, customer, crossed>>
  BY DEF OpenSheet, CloseSheet, SendAlert
<1>2. \/ view' = [view EXCEPT !.sheet = TRUE]
      \/ view' = [view EXCEPT !.sheet = FALSE]
      \/ view' = [view EXCEPT !.sheet = FALSE, !.status = "sent"]
  BY DEF OpenSheet, CloseSheet, SendAlert
<1>3. view'.socket = view.socket /\ ChannelTypeOK'
  BY <1>1, <1>2 DEF ChannelIInv, ChannelTypeOK
<1>4. ChannelInv'
  BY <1>1, <1>3 DEF ChannelIInv, ChannelInv, DeafNeedsCrossing, Accepted
<1> QED BY <1>3, <1>4 DEF ChannelIInv

LEMMA ChannelStep == ChannelIInv /\ [ChannelNext]_channel => ChannelIInv'
<1> SUFFICES ASSUME ChannelIInv, [ChannelNext]_channel PROVE ChannelIInv'
  OBVIOUS
<1>1. CASE MountTable \/ MountBill
  BY <1>1, MountStep DEF MountTable, MountBill
<1>2. CASE Reconnect \/ SocketDrops \/ SendToCustomer
  BY <1>2, ReconnectStep, DropStep, SendStep
<1>3. ASSUME NEW n \in Sockets, ConnectCustomer(n) \/ DisconnectCustomer(n) PROVE ChannelIInv'
  BY <1>3, ConnectStep, DisconnectStep
<1>4. CASE OpenSheet \/ CloseSheet \/ SendAlert
  BY <1>4, CallSheetStep
<1>5. CASE UNCHANGED channel
  BY <1>5 DEF channel, ChannelIInv, ChannelTypeOK, ChannelInv, DeafNeedsCrossing, Accepted
<1> QED BY <1>1, <1>2, <1>3, <1>4, <1>5 DEF ChannelNext

\* The phone, its sockets and the worker's place keep their types
\* (ws_manager.py:140-157, the guest's pages).
THEOREM ChannelTypeCorrect == ChannelSpec => []ChannelTypeOK
<1>1. ChannelInit => ChannelIInv
  BY ChannelStart
<1>2. ChannelIInv /\ [ChannelNext]_channel => ChannelIInv'
  BY ChannelStep
<1>3. ChannelIInv => ChannelTypeOK
  BY DEF ChannelIInv
<1> QED BY <1>1, <1>2, <1>3, PTL DEF ChannelSpec

\* A guest whose socket is open has the session's place, unless the worker once
\* had two sockets of the session, and the place is that of a socket it still has
\* (ws_manager.py:140-157, 220-226).
THEOREM GuestIsHeard == ChannelSpec => []DeafNeedsCrossing
<1>1. ChannelInit => ChannelIInv
  BY ChannelStart
<1>2. ChannelIInv /\ [ChannelNext]_channel => ChannelIInv'
  BY ChannelStep
<1>3. ChannelIInv => DeafNeedsCrossing
  BY DEF ChannelIInv, ChannelInv
<1> QED BY <1>1, <1>2, <1>3, PTL DEF ChannelSpec

-----------------------------------------------------------------------------
\* The visits the phone keeps.
\* The module counts as FiniteSets does.
LEMMA RoundsCountAlike == \A S : Visit!Cardinality(S) = Cardinality(S)
  BY DEF Visit!Cardinality, Cardinality

LEMMA VisitStart == MaxRounds \in Nat /\ Visit!GuestInit => Visit!VisitInv
<1> SUFFICES ASSUME MaxRounds \in Nat, Visit!GuestInit PROVE Visit!VisitInv
  OBVIOUS
<1>1. Visit!SessionsKept
  BY DEF Visit!GuestInit, Visit!SessionsKept
<1>2. /\ \A r \in Visit!Rounds : made[r].session = 0 /\ made[r].opened = 0
      /\ DOMAIN made = Visit!Rounds /\ wire = {} /\ stored = {}
  BY DEF Visit!GuestInit
<1>3. \A r \in Visit!Rounds : made[r].session # 0 <=> r <= 0
  BY <1>2 DEF Visit!Rounds
<1>4. Visit!RoundsMade
  <2>1. \E n \in 0 .. MaxRounds : \A r \in Visit!Rounds : made[r].session # 0 <=> r <= n
    BY <1>3
  <2> QED BY <1>2, <2>1 DEF Visit!RoundsMade
<1>5. Visit!OrdersKept
  <2>1. table = [on     |-> [r \in Visit!Rounds |-> 0],
                 line   |-> [r \in Visit!Rounds |-> "absent"],
                 status |-> [r \in Visit!Rounds |-> "none"]]
    BY DEF Visit!GuestInit
  <2>2. /\ DOMAIN table = {"on", "line", "status"} /\ DOMAIN table.line = Visit!Rounds
        /\ table.on = [r \in Visit!Rounds |-> 0] /\ table.status = [r \in Visit!Rounds |-> "none"]
    BY <2>1
  <2> QED BY <1>2, <2>2 DEF Visit!OrdersKept, Visit!Stages
<1>6. Visit!LeftBehind
  BY <1>2 DEF Visit!LeftBehind
<1> QED BY <1>1, <1>4, <1>5, <1>6 DEF Visit!VisitInv

\* What stays when only the page, the cart and who waits for an answer change.
Paper == <<phone.session, phone.saved, phone.savedNight, phone.minted, phone.late>>

\* The page alone.
LEMMA VisitPage ==
  ASSUME Visit!VisitInv, UNCHANGED <<wire, stored, made, table, night>>, UNCHANGED Paper,
         DOMAIN phone' = DOMAIN phone, phone'.page = "table" => phone.page = "table"
  PROVE  Visit!VisitInv'
<1>1. Visit!SessionsKept'
  BY DEF Visit!VisitInv, Visit!SessionsKept, Paper
<1>2. Visit!RoundsMade'
  BY DEF Visit!VisitInv, Visit!RoundsMade, Paper
<1>3. Visit!OrdersKept'
  BY DEF Visit!VisitInv, Visit!OrdersKept
<1>4. Visit!LeftBehind'
  BY DEF Visit!VisitInv, Visit!LeftBehind, Paper
<1> QED BY <1>1, <1>2, <1>3, <1>4 DEF Visit!VisitInv

LEMMA VisitPages ==
  ASSUME Visit!VisitInv,
         \/ Visit!MenuArrives \/ Visit!DeadCode \/ \E d \in Dishes : Visit!AddToCart(d)
              \/ Visit!UpdateQuantity(d)
         \/ Visit!ReviewOrder \/ Visit!CloseCart \/ Visit!AddMoreItems \/ Visit!ViewBill
              \/ Visit!PayOnline \/ Visit!LeaveTable
  PROVE  Visit!VisitInv'
<1>0. DOMAIN phone = {"page", "session", "saved", "savedNight", "minted", "cart", "waiting",
                      "late", "ui"}
  BY DEF Visit!VisitInv, Visit!SessionsKept
<1>1. CASE Visit!MenuArrives \/ Visit!DeadCode \/ Visit!ReviewOrder \/ Visit!CloseCart
             \/ Visit!AddMoreItems
  <2>1. UNCHANGED <<wire, stored, made, table, night>>
    BY <1>1 DEF Visit!MenuArrives, Visit!DeadCode, Visit!ReviewOrder, Visit!CloseCart,
       Visit!AddMoreItems, Visit!PageStep
  <2>2. DOMAIN phone' = DOMAIN phone /\ phone'.page = phone.page /\ UNCHANGED Paper
    BY <1>0, <1>1 DEF Visit!MenuArrives, Visit!DeadCode, Visit!ReviewOrder, Visit!CloseCart,
       Visit!AddMoreItems, Paper
  <2> QED BY <2>1, <2>2, VisitPage
<1>2. ASSUME NEW d \in Dishes, Visit!AddToCart(d) \/ Visit!UpdateQuantity(d)
      PROVE Visit!VisitInv'
  <2>1. UNCHANGED <<wire, stored, made, table, night>>
    BY <1>2 DEF Visit!AddToCart, Visit!UpdateQuantity, Visit!PageStep
  <2>2. DOMAIN phone' = DOMAIN phone /\ phone'.page = phone.page /\ UNCHANGED Paper
    BY <1>0, <1>2 DEF Visit!AddToCart, Visit!UpdateQuantity, Paper
  <2> QED BY <2>1, <2>2, VisitPage
<1>3. CASE Visit!ViewBill \/ Visit!PayOnline \/ Visit!LeaveTable
  <2>1. UNCHANGED <<wire, stored, made, table, night>>
    BY <1>3 DEF Visit!ViewBill, Visit!PayOnline, Visit!LeaveTable
  <2>2. DOMAIN phone' = DOMAIN phone /\ UNCHANGED Paper
    BY <1>0, <1>3 DEF Visit!ViewBill, Visit!PayOnline, Visit!LeaveTable, Paper
  <2>3. phone'.page # "table"
    BY <1>0, <1>3 DEF Visit!ViewBill, Visit!PayOnline, Visit!LeaveTable
  <2> QED BY <2>1, <2>2, <2>3, VisitPage
<1> QED BY <1>1, <1>2, <1>3

\* A new token is no round's yet.
LEMMA VisitMints ==
  ASSUME Visit!VisitInv, UNCHANGED <<wire, stored, made, table, night>>,
         DOMAIN phone' = DOMAIN phone,
         phone'.session = phone.minted + 1, phone'.saved = phone.minted + 1,
         phone'.minted = phone.minted + 1, phone'.savedNight = night,
         phone.late \subseteq phone'.late,
         \A r \in Visit!Rounds :
           made[r].session = phone.session /\ made[r].session # 0 /\ made[r].opened = night =>
             \/ r \in phone'.late
             \/ /\ r \notin wire \union stored
                /\ table.on[r] # 0 => table.status[table.on[r]] = "paid"
  PROVE  Visit!VisitInv'
<1>0. Visit!SessionsKept /\ Visit!RoundsMade /\ Visit!OrdersKept /\ Visit!LeftBehind
  BY DEF Visit!VisitInv
<1>1. Visit!SessionsKept'
  BY <1>0 DEF Visit!SessionsKept
<1>2. \A r \in Visit!Rounds : made[r].session # phone'.session
  BY <1>0 DEF Visit!RoundsMade, Visit!SessionsKept
<1>3. Visit!RoundsMade'
  <2>1. phone.minted <= phone'.minted
    BY <1>0 DEF Visit!SessionsKept
  <2>2. \A r \in Visit!Rounds : made[r].session # 0 => made[r].session <= phone'.minted
    BY <1>0, <2>1 DEF Visit!SessionsKept, Visit!RoundsMade
  <2> QED BY <1>0, <1>2, <2>2 DEF Visit!RoundsMade
<1>4. Visit!OrdersKept'
  BY <1>0 DEF Visit!OrdersKept
<1>5. Visit!LeftBehind'
  BY <1>0 DEF Visit!LeftBehind
<1> QED BY <1>1, <1>3, <1>4, <1>5 DEF Visit!VisitInv

\* What the visit had is paid for, or was on its way.
LEMMA VisitSettles ==
  ASSUME MaxRounds \in Nat, Visit!VisitInv, Visit!MenuSaysSettled PROVE Visit!VisitInv'
<1>0. Visit!SessionsKept /\ Visit!RoundsMade /\ Visit!OrdersKept /\ Visit!LeftBehind
  BY DEF Visit!VisitInv
<1>1. /\ UNCHANGED <<wire, stored, made, table, night>>
      /\ phone' = [Visit!MintSession(phone) EXCEPT !.late = @ \union stored \union wire]
      /\ Visit!Settled(phone.session)
  BY DEF Visit!MenuSaysSettled
<1>2. PICK p : p = Visit!MintSession(phone)
  OBVIOUS
<1>3. /\ DOMAIN p = DOMAIN phone /\ p.session = phone.minted + 1 /\ p.saved = phone.minted + 1
      /\ p.minted = phone.minted + 1 /\ p.savedNight = night /\ p.late = phone.late
  BY <1>0, <1>2 DEF Visit!MintSession, Visit!SessionsKept
<1>4. /\ DOMAIN phone' = DOMAIN phone /\ phone'.session = phone.minted + 1
      /\ phone'.saved = phone.minted + 1 /\ phone'.minted = phone.minted + 1
      /\ phone'.savedNight = night /\ phone'.late = phone.late \union stored \union wire
  <2>1. phone' = [p EXCEPT !.late = @ \union stored \union wire]
    BY <1>1, <1>2
  <2> QED BY <1>0, <1>3, <2>1 DEF Visit!SessionsKept
<1>5. ASSUME NEW r \in Visit!Rounds, made[r].session = phone.session, r \notin wire \union stored,
             table.on[r] # 0
      PROVE  table.status[table.on[r]] = "paid"
  <2>1. PICK o \in Visit!Rounds : o = table.on[r]
    BY <1>0, <1>5 DEF Visit!OrdersKept, Visit!Rounds
  <2>2. o \in Visit!OrdersOf(phone.session)
    BY <1>0, <1>5, <2>1 DEF Visit!OrdersKept, Visit!OrdersOf
  <2> QED BY <1>1, <2>1, <2>2 DEF Visit!Settled
<1> QED BY <1>1, <1>4, <1>5, VisitMints

\* Another night's token is given up, tonight's is kept.
LEMMA VisitOpens ==
  ASSUME Visit!VisitInv, UNCHANGED <<wire, stored, made, table, night>>, Visit!CanOpen,
         NEW p, p = Visit!OpenSession(phone), DOMAIN phone' = DOMAIN p, phone'.session = p.session,
         phone'.saved = p.saved, phone'.savedNight = p.savedNight, phone'.minted = p.minted,
         phone'.late = p.late
  PROVE  Visit!VisitInv'
<1>0. Visit!SessionsKept /\ Visit!RoundsMade /\ Visit!OrdersKept /\ Visit!LeftBehind
  BY DEF Visit!VisitInv
<1>1. CASE phone.saved # 0 /\ phone.savedNight = night
  <2>1. p = [phone EXCEPT !.session = phone.saved]
    BY <1>1 DEF Visit!OpenSession
  <2>2. UNCHANGED Paper /\ DOMAIN phone' = DOMAIN phone
    BY <1>0, <2>1 DEF Visit!SessionsKept, Paper
  <2>3. Visit!SessionsKept'
    BY <1>0, <1>1, <2>2 DEF Visit!SessionsKept, Paper
  <2>4. Visit!RoundsMade'
    BY <1>0, <2>2 DEF Visit!RoundsMade, Paper
  <2>5. Visit!OrdersKept' /\ Visit!LeftBehind'
    BY <1>0, <2>2 DEF Visit!OrdersKept, Visit!LeftBehind, Paper
  <2> QED BY <2>3, <2>4, <2>5 DEF Visit!VisitInv
<1>2. CASE ~(phone.saved # 0 /\ phone.savedNight = night)
  <2>1. p = Visit!MintSession(phone)
    BY <1>2 DEF Visit!OpenSession
  <2>2. /\ DOMAIN p = DOMAIN phone /\ p.session = phone.minted + 1 /\ p.saved = phone.minted + 1
        /\ p.minted = phone.minted + 1 /\ p.savedNight = night /\ p.late = phone.late
    BY <1>0, <2>1 DEF Visit!MintSession, Visit!SessionsKept
  <2>3. \A r \in Visit!Rounds :
          ~(made[r].session = phone.session /\ made[r].session # 0 /\ made[r].opened = night)
    BY <1>0, <1>2 DEF Visit!SessionsKept, Visit!RoundsMade
  <2> QED BY <2>2, <2>3, VisitMints
<1> QED BY <1>1, <1>2

LEMMA VisitEnters ==
  ASSUME Visit!VisitInv, Visit!ScanTable \/ Visit!BackToMenu PROVE Visit!VisitInv'
<1>1. PICK p : p = Visit!OpenSession(phone)
  OBVIOUS
<1>2. DOMAIN p = {"page", "session", "saved", "savedNight", "minted", "cart", "waiting",
                  "late", "ui"}
  BY <1>1 DEF Visit!VisitInv, Visit!SessionsKept, Visit!OpenSession, Visit!MintSession
<1>3. Visit!CanOpen /\ UNCHANGED <<wire, stored, made, table, night>>
  BY DEF Visit!ScanTable, Visit!BackToMenu
<1>4. \/ phone' = [p EXCEPT !.page = "table", !.cart = Visit!Nothing, !.waiting = {},
           !.ui = Visit!FreshPage]
      \/ phone' = [p EXCEPT !.page = "table", !.ui = Visit!FreshPage]
  BY <1>1 DEF Visit!ScanTable, Visit!BackToMenu
<1>5. /\ DOMAIN phone' = DOMAIN p /\ phone'.session = p.session /\ phone'.saved = p.saved
      /\ phone'.savedNight = p.savedNight /\ phone'.minted = p.minted /\ phone'.late = p.late
  BY <1>2, <1>4
<1> QED BY <1>1, <1>3, <1>5, VisitOpens

\* The rounds that were made are counted from one.
LEMMA NextIsNew ==
  ASSUME MaxRounds \in Nat, Visit!VisitInv, Visit!NextRound \in Visit!Rounds
  PROVE  /\ \A r \in Visit!Rounds : made[r].session # 0 <=> r <= Visit!NextRound - 1
         /\ Visit!NextRound - 1 \in 0 .. MaxRounds
<1>1. PICK n \in 0 .. MaxRounds : \A r \in Visit!Rounds : made[r].session # 0 <=> r <= n
  BY DEF Visit!VisitInv, Visit!RoundsMade
<1>2. {r \in Visit!Rounds : made[r].session # 0} = 1 .. n
  BY <1>1 DEF Visit!Rounds
<1>3. Cardinality(1 .. n) = n
  BY <1>1, FS_Interval
<1>4. Visit!NextRound = 1 + n
  BY <1>2, <1>3, RoundsCountAlike DEF Visit!NextRound
<1> QED BY <1>1, <1>4

LEMMA VisitPlaces ==
  ASSUME MaxRounds \in Nat, Visit!VisitInv, Visit!PlaceOrder PROVE Visit!VisitInv'
<1>0. Visit!SessionsKept /\ Visit!RoundsMade /\ Visit!OrdersKept /\ Visit!LeftBehind
  BY DEF Visit!VisitInv
<1>1. PICK n \in Visit!Rounds : n = Visit!NextRound
  BY DEF Visit!PlaceOrder
<1>2. made[n].session = 0 /\ \A r \in Visit!Rounds : made[r].session # 0 <=> r <= n - 1
  BY <1>1, NextIsNew DEF Visit!Rounds
<1>3. PICK new : new = [session |-> phone.session, cart |-> phone.cart, opened |-> phone.savedNight]
  OBVIOUS
<1>4. /\ made' = [made EXCEPT ![n] = new] /\ wire' = wire \union {n}
      /\ UNCHANGED <<stored, table, night>>
  BY <1>1, <1>3 DEF Visit!PlaceOrder
<1>5. /\ DOMAIN made' = Visit!Rounds /\ made'[n] = new /\ \A r \in Visit!Rounds \ {n} :
           made'[r] = made[r]
      /\ new.session = phone.session /\ new.opened = phone.savedNight
  BY <1>0, <1>3, <1>4 DEF Visit!RoundsMade
<1>6. DOMAIN phone' = DOMAIN phone /\ phone'.page = phone.page /\ UNCHANGED Paper
  BY <1>0 DEF Visit!PlaceOrder, Visit!SessionsKept, Paper
<1>7. phone.session # 0
  BY <1>0 DEF Visit!PlaceOrder, Visit!CheckoutPanel, Visit!Loaded, Visit!SessionsKept
<1>8. Visit!SessionsKept'
  BY <1>0, <1>4, <1>6 DEF Visit!SessionsKept, Paper
<1>9. Visit!RoundsMade'
  <2>1. \A r \in Visit!Rounds : made'[r].session # 0 <=> r <= n
    BY <1>2, <1>5, <1>7 DEF Visit!Rounds
  <2>2. n \in 0 .. MaxRounds
    BY DEF Visit!Rounds
  <2>3. \A r \in Visit!Rounds : made'[r].session \in Nat /\ made'[r].opened \in Nat
    BY <1>0, <1>5 DEF Visit!RoundsMade, Visit!SessionsKept
  <2>4. \A r \in Visit!Rounds : made'[r].session # 0 =>
         /\ made'[r].session <= phone'.minted /\ made'[r].opened <= night'
         /\ made'[r].session = phone'.session => made'[r].opened = phone'.savedNight
    BY <1>0, <1>4, <1>5, <1>6 DEF Visit!RoundsMade, Visit!SessionsKept, Paper
  <2>5. wire' \union stored' \subseteq {r \in Visit!Rounds : made'[r].session # 0}
    BY <1>0, <1>4, <1>5, <1>7 DEF Visit!RoundsMade
  <2>6. wire' \intersect stored' = {}
    BY <1>0, <1>2, <1>4 DEF Visit!RoundsMade
  <2> QED BY <1>5, <2>1, <2>2, <2>3, <2>4, <2>5, <2>6 DEF Visit!RoundsMade
<1>10. Visit!OrdersKept'
  <2>1. table.on[n] = 0
    BY <1>0, <1>1, <1>2 DEF Visit!OrdersKept
  <2>2. ASSUME NEW r \in Visit!Rounds PROVE table.on[r] # n
    <3>1. table.on[r] # 0 => table.status[table.on[r]] # "none"
      BY <1>0 DEF Visit!OrdersKept
    <3>2. table.status[n] # "none" => table.on[n] = n
      BY <1>0, <1>1 DEF Visit!OrdersKept
    <3> QED BY <1>1, <2>1, <3>1, <3>2 DEF Visit!Rounds
  <2> QED BY <1>0, <1>4, <1>5, <2>1, <2>2 DEF Visit!OrdersKept, Visit!Rounds
<1>11. Visit!LeftBehind'
  BY <1>0, <1>4, <1>5, <1>6 DEF Visit!LeftBehind, Paper
<1> QED BY <1>8, <1>9, <1>10, <1>11 DEF Visit!VisitInv

\* A round comes to the venue: an order that owes takes it, or it opens one.
LEMMA VisitLands ==
  ASSUME MaxRounds \in Nat, Visit!VisitInv, NEW r \in wire \union stored, Visit!Lands(r),
         UNCHANGED <<made, night>>,
         wire' \subseteq wire, stored' \subseteq stored, r \notin wire' \union stored',
         UNCHANGED Paper, DOMAIN phone' = DOMAIN phone, phone'.page = phone.page
  PROVE  Visit!VisitInv'
<1>0. Visit!SessionsKept /\ Visit!RoundsMade /\ Visit!OrdersKept /\ Visit!LeftBehind
  BY DEF Visit!VisitInv
<1>r. r \in Visit!Rounds /\ made[r].session # 0 /\ table.on[r] = 0 /\ table.status[r] = "none"
  BY <1>0 DEF Visit!RoundsMade, Visit!OrdersKept, Visit!Rounds
<1>1. PICK joinable :
        joinable = {o \in Visit!OrdersOf(made[r].session) : table.status[o] \in {"open", "partly"}}
  OBVIOUS
<1>2. PICK o : o = IF joinable = {} THEN r ELSE CHOOSE x \in joinable : TRUE
  OBVIOUS
<1>3. table' = [table EXCEPT !.on[r] = o, !.line[r] = "pending",
                             !.status[o] = IF joinable = {} THEN "open" ELSE @]
  BY <1>1, <1>2 DEF Visit!Lands
<1>4. /\ o \in Visit!Rounds /\ made[o].session = made[r].session
      /\ joinable = {} => o = r
      /\ joinable # {} => table.status[o] \in {"open", "partly"}
  <2>1. CASE joinable = {}
    BY <1>2, <1>r, <2>1
  <2>2. CASE joinable # {}
    <3>1. o \in joinable
      BY <1>2, <2>2
    <3> QED BY <1>1, <2>2, <3>1 DEF Visit!OrdersOf
  <2> QED BY <2>1, <2>2
<1>5. /\ DOMAIN table' = DOMAIN table
      /\ table'.on = [table.on EXCEPT ![r] = o]
      /\ table'.line = [table.line EXCEPT ![r] = "pending"]
      /\ table'.status = [table.status EXCEPT ![o] = IF joinable = {} THEN "open" ELSE @]
  BY <1>0, <1>3 DEF Visit!OrdersKept
<1>6. /\ table'.on[r] = o /\ \A q \in Visit!Rounds \ {r} : table'.on[q] = table.on[q]
      /\ table'.on \in [Visit!Rounds -> 0 .. MaxRounds]
  BY <1>0, <1>r, <1>4, <1>5 DEF Visit!OrdersKept, Visit!Rounds
<1>7. /\ table'.status[o] = IF joinable = {} THEN "open" ELSE table.status[o]
      /\ \A q \in Visit!Rounds \ {o} : table'.status[q] = table.status[q]
  BY <1>0, <1>4, <1>5 DEF Visit!OrdersKept
<1>8. table'.status \in [Visit!Rounds -> Visit!Stages] /\ DOMAIN table'.line = Visit!Rounds
  BY <1>0, <1>5 DEF Visit!OrdersKept, Visit!Stages
<1>9. \A q \in Visit!Rounds : table.status[q] # "none" => table'.status[q] = table.status[q]
  BY <1>r, <1>4, <1>7
<1>10. Visit!SessionsKept'
  BY <1>0 DEF Visit!SessionsKept, Paper
<1>11. Visit!RoundsMade'
  BY <1>0 DEF Visit!RoundsMade, Paper
<1>12. Visit!OrdersKept'
  <2>1. ASSUME NEW q \in Visit!Rounds
        PROVE  /\ q \in wire' \union stored' => table'.on[q] = 0
               /\ table'.status[q] # "none" => table'.on[q] = q
               /\ table'.on[q] # 0 => /\ made'[q].session # 0
                    /\ table'.status[table'.on[q]] # "none"
                                      /\ made'[table'.on[q]].session = made'[q].session
    <3>1. CASE q = r
      <4>1. table'.on[q] = o /\ table'.status[o] # "none"
        BY <1>4, <1>6, <1>7, <3>1
      <4>2. table'.status[r] # "none" => o = r
        BY <1>r, <1>7
      <4> QED BY <1>r, <1>4, <3>1, <4>1, <4>2
    <3>2. CASE q # r
      <4>1. table'.on[q] = table.on[q]
        BY <1>6, <3>2
      <4>2. table.on[q] # 0 => table.on[q] \in Visit!Rounds
        BY <1>0, <1>r DEF Visit!OrdersKept, Visit!Rounds
      <4>3. table'.status[q] # "none" => table.status[q] # "none"
        BY <1>4, <1>7, <3>2
      <4> QED BY <1>0, <1>9, <4>1, <4>2, <4>3 DEF Visit!OrdersKept
    <3> QED BY <3>1, <3>2
  <2> QED BY <1>0, <1>5, <1>6, <1>8, <2>1 DEF Visit!OrdersKept
<1>13. Visit!LeftBehind'
  <2>1. ASSUME NEW q \in Visit!Rounds, made[q].session \notin {0, phone.session},
               made[q].opened = night
        PROVE  \/ q \in phone.late
               \/ /\ q \notin wire' \union stored'
                  /\ table'.on[q] # 0 => table'.status[table'.on[q]] = "paid"
    <3>1. CASE q = r
      BY <1>0, <2>1, <3>1 DEF Visit!LeftBehind
    <3>2. CASE q # r
      <4>1. table'.on[q] = table.on[q] /\ (table.on[q] # 0 => table.on[q] \in Visit!Rounds)
        BY <1>0, <1>r, <1>6, <3>2 DEF Visit!OrdersKept, Visit!Rounds
      <4> QED BY <1>0, <1>9, <2>1, <4>1 DEF Visit!LeftBehind
    <3> QED BY <3>1, <3>2
  <2> QED BY <2>1 DEF Visit!LeftBehind, Paper
<1> QED BY <1>10, <1>11, <1>12, <1>13 DEF Visit!VisitInv

\* The venue serves and settles; what is paid stays paid.
LEMMA VisitTable ==
  ASSUME MaxRounds \in Nat, Visit!VisitInv, UNCHANGED <<phone, wire, stored, made, night>>,
         DOMAIN table' = DOMAIN table, DOMAIN table'.line = Visit!Rounds, table'.on = table.on,
         table'.status \in [Visit!Rounds -> Visit!Stages],
         \A q \in Visit!Rounds : /\ table'.status[q] = "none" <=> table.status[q] = "none"
                                 /\ table.status[q] = "paid" => table'.status[q] = "paid"
  PROVE  Visit!VisitInv'
<1>0. Visit!SessionsKept /\ Visit!RoundsMade /\ Visit!OrdersKept /\ Visit!LeftBehind
  BY DEF Visit!VisitInv
<1>1. \A q \in Visit!Rounds : table.on[q] # 0 => table.on[q] \in Visit!Rounds
  BY <1>0 DEF Visit!OrdersKept, Visit!Rounds
<1>2. Visit!SessionsKept' /\ Visit!RoundsMade'
  BY <1>0 DEF Visit!SessionsKept, Visit!RoundsMade
<1>3. Visit!OrdersKept'
  <2>1. DOMAIN table' = {"on", "line", "status"} /\ table'.on \in [Visit!Rounds -> 0 .. MaxRounds]
    BY <1>0 DEF Visit!OrdersKept
  <2>2. ASSUME NEW q \in Visit!Rounds
        PROVE  /\ q \in wire \union stored => table.on[q] = 0
               /\ table'.status[q] # "none" => table.on[q] = q
               /\ table.on[q] # 0 => /\ made[q].session # 0
                                    /\ table'.status[table.on[q]] # "none"
                                    /\ made[table.on[q]].session = made[q].session
    <3>1. table.on[q] # 0 =>
            table'.status[table.on[q]] = "none" <=> table.status[table.on[q]] = "none"
      BY <1>1
    <3> QED BY <1>0, <3>1 DEF Visit!OrdersKept
  <2> QED BY <2>1, <2>2 DEF Visit!OrdersKept
<1>4. Visit!LeftBehind'
  <2>1. ASSUME NEW q \in Visit!Rounds, table.on[q] # 0
        PROVE  table.status[table.on[q]] = "paid" => table'.status[table.on[q]] = "paid"
    BY <1>1, <2>1
  <2> QED BY <1>0, <2>1 DEF Visit!LeftBehind
<1> QED BY <1>2, <1>3, <1>4 DEF Visit!VisitInv

LEMMA VisitServes ==
  ASSUME MaxRounds \in Nat, Visit!VisitInv, NEW r \in Visit!Rounds, NEW to \in {"delivered",
         "void"}, Visit!Settle(r) \/ Visit!Serve(r, to)
  PROVE  Visit!VisitInv'
<1>0. Visit!OrdersKept
  BY DEF Visit!VisitInv
<1>1. CASE Visit!Settle(r)
  <2>1. /\ table' = [table EXCEPT !.status[r] = "paid"] /\ table.status[r] # "none"
        /\ UNCHANGED <<phone, wire, stored, made, night>>
    BY <1>1 DEF Visit!Settle
  <2>2. /\ DOMAIN table' = DOMAIN table /\ table'.line = table.line /\ table'.on = table.on
        /\ table'.status = [table.status EXCEPT ![r] = "paid"]
    BY <1>0, <2>1 DEF Visit!OrdersKept
  <2>3. /\ table'.status[r] = "paid" /\ \A q \in Visit!Rounds \ {r} :
             table'.status[q] = table.status[q]
        /\ table'.status \in [Visit!Rounds -> Visit!Stages] /\ DOMAIN table'.line = Visit!Rounds
    BY <1>0, <2>2 DEF Visit!OrdersKept, Visit!Stages
  <2> QED BY <2>1, <2>2, <2>3, VisitTable
<1>2. CASE Visit!Serve(r, to)
  <2>1. PICK o : o = table.on[r]
    OBVIOUS
  <2>2. PICK line : line = [table.line EXCEPT ![r] = to]
    OBVIOUS
  <2>3. PICK live : live = {q \in Visit!RoundsOn(o) : line[q] # "void"}
    OBVIOUS
  <2>4. PICK done : done = {q \in live : line[q] = "delivered"}
    OBVIOUS
  <2>5. /\ table' = [table EXCEPT
             !.line = line,
             !.status[o] = IF @ = "paid" \/ done = {} THEN @
                           ELSE IF done = live THEN "served" ELSE "partly"]
        /\ UNCHANGED <<phone, wire, stored, made, night>>
    BY <1>2, <2>1, <2>2, <2>3, <2>4 DEF Visit!Serve
  <2>6. PICK s : s = IF table.status[o] = "paid" \/ done = {} THEN table.status[o]
                     ELSE IF done = live THEN "served" ELSE "partly"
    OBVIOUS
  <2>7. /\ DOMAIN table' = DOMAIN table /\ table'.line = line /\ table'.on = table.on
        /\ table'.status = [table.status EXCEPT ![o] = s]
    BY <1>0, <2>5, <2>6 DEF Visit!OrdersKept
  <2>8. DOMAIN table'.line = Visit!Rounds
    BY <1>0, <2>2, <2>7 DEF Visit!OrdersKept
  <2>9. CASE o \in Visit!Rounds
    <3>1. table.status[o] # "none" /\ table.status[o] \in Visit!Stages
      BY <1>0, <2>1, <2>9 DEF Visit!OrdersKept, Visit!Rounds
    <3>2. s \in Visit!Stages \ {"none"} /\ (table.status[o] = "paid" => s = "paid")
      BY <2>6, <3>1 DEF Visit!Stages
    <3>3. /\ table'.status[o] = s /\ \A q \in Visit!Rounds \ {o} :
               table'.status[q] = table.status[q]
          /\ table'.status \in [Visit!Rounds -> Visit!Stages]
      BY <1>0, <2>7, <2>9, <3>2 DEF Visit!OrdersKept
    <3> QED BY <2>5, <2>7, <2>8, <3>1, <3>2, <3>3, VisitTable
  <2>10. CASE o \notin Visit!Rounds
    <3>1. table'.status = table.status
      BY <1>0, <2>7, <2>10 DEF Visit!OrdersKept
    <3>2. table'.status \in [Visit!Rounds -> Visit!Stages]
      BY <1>0, <3>1 DEF Visit!OrdersKept
    <3> QED BY <2>5, <2>7, <2>8, <3>1, <3>2, VisitTable
  <2> QED BY <2>9, <2>10
<1> QED BY <1>1, <1>2

\* What the phone learns of a round that went somewhere, or nowhere.
LEMMA VisitPosts ==
  ASSUME MaxRounds \in Nat, Visit!VisitInv, NEW r \in Visit!Rounds,
         Visit!PlaceAccepted(r) \/ Visit!PlaceFails(r) \/ Visit!PlaceRefused(r) \/ Visit!Replay(r)
  PROVE  Visit!VisitInv'
<1>0. Visit!SessionsKept /\ Visit!RoundsMade /\ Visit!OrdersKept /\ Visit!LeftBehind
  BY DEF Visit!VisitInv
<1>1. ASSUME Visit!Confirm(r) \/ UNCHANGED phone
      PROVE  UNCHANGED Paper /\ DOMAIN phone' = DOMAIN phone /\ phone'.page = phone.page
  BY <1>0, <1>1 DEF Visit!Confirm, Visit!SessionsKept, Paper
<1>2. CASE Visit!PlaceAccepted(r)
  <2>1. /\ r \in wire /\ wire' = wire \ {r} /\ Visit!Lands(r) /\ UNCHANGED <<stored, made, night>>
        /\ Visit!Confirm(r) \/ UNCHANGED phone
    BY <1>2 DEF Visit!PlaceAccepted
  <2>2. r \notin wire' \union stored'
    BY <1>0, <2>1 DEF Visit!RoundsMade
  <2> QED BY <1>1, <2>1, <2>2, VisitLands
<1>3. CASE Visit!Replay(r)
  <2>1. /\ r \in stored /\ stored' = stored \ {r} /\ Visit!Lands(r)
        /\ UNCHANGED <<phone, wire, made, night>>
    BY <1>3 DEF Visit!Replay
  <2>2. r \notin wire' \union stored'
    BY <1>0, <2>1 DEF Visit!RoundsMade
  <2> QED BY <1>1, <2>1, <2>2, VisitLands
<1>4. CASE Visit!PlaceFails(r) \/ Visit!PlaceRefused(r)
  <2>1. /\ r \in wire /\ wire' = wire \ {r} /\ stored \subseteq stored'
        /\ stored' \subseteq stored \union {r} /\ UNCHANGED <<made, table, night>>
    BY <1>4 DEF Visit!PlaceFails, Visit!PlaceRefused
  <2>2. UNCHANGED Paper /\ DOMAIN phone' = DOMAIN phone /\ phone'.page = phone.page
    <3>1. CASE Visit!PlaceFails(r)
      BY <1>1, <3>1 DEF Visit!PlaceFails
    <3>2. CASE Visit!PlaceRefused(r)
      BY <1>0, <3>2 DEF Visit!PlaceRefused, Visit!SessionsKept, Paper
    <3> QED BY <1>4, <3>1, <3>2
  <2>3. Visit!SessionsKept'
    BY <1>0, <2>1, <2>2 DEF Visit!SessionsKept, Paper
  <2>4. Visit!RoundsMade'
    BY <1>0, <2>1, <2>2 DEF Visit!RoundsMade, Paper
  <2>5. Visit!OrdersKept'
    BY <1>0, <2>1 DEF Visit!OrdersKept
  <2>6. Visit!LeftBehind'
    BY <1>0, <2>1, <2>2 DEF Visit!LeftBehind, Paper
  <2> QED BY <2>3, <2>4, <2>5, <2>6 DEF Visit!VisitInv
<1> QED BY <1>2, <1>3, <1>4

LEMMA VisitStep ==
  ASSUME MaxRounds \in Nat, Visit!VisitInv, Visit!GuestNext \/ UNCHANGED Visit!guest
  PROVE  Visit!VisitInv'
<1>0. Visit!SessionsKept /\ Visit!RoundsMade /\ Visit!OrdersKept /\ Visit!LeftBehind
  BY DEF Visit!VisitInv
<1>1. CASE Visit!ScanTable \/ Visit!BackToMenu \/ Visit!MenuSaysSettled \/ Visit!PlaceOrder
  BY <1>1, VisitEnters, VisitSettles, VisitPlaces
<1>2. CASE \/ Visit!MenuArrives \/ Visit!DeadCode \/ \E d \in Dishes : Visit!AddToCart(d)
                \/ Visit!UpdateQuantity(d)
           \/ Visit!ReviewOrder \/ Visit!CloseCart \/ Visit!AddMoreItems \/ Visit!ViewBill
                \/ Visit!PayOnline \/ Visit!LeaveTable
  BY <1>2, VisitPages
<1>3. CASE Visit!NightPasses
  <2>1. night' = night + 1 /\ UNCHANGED <<phone, wire, stored, made, table>>
    BY <1>3 DEF Visit!NightPasses
  <2>2. Visit!SessionsKept' /\ Visit!RoundsMade' /\ Visit!OrdersKept'
    BY <1>0, <2>1 DEF Visit!SessionsKept, Visit!RoundsMade, Visit!OrdersKept
  <2>3. \A r \in Visit!Rounds : made[r].session # 0 => made[r].opened # night + 1
    BY <1>0 DEF Visit!SessionsKept, Visit!RoundsMade
  <2>4. Visit!LeftBehind'
    BY <2>1, <2>3 DEF Visit!LeftBehind
  <2> QED BY <2>2, <2>4 DEF Visit!VisitInv
<1>4. ASSUME NEW r \in Visit!Rounds, Visit!PlaceAccepted(r) \/ Visit!PlaceFails(r)
               \/ Visit!PlaceRefused(r) \/ Visit!Replay(r)
      PROVE  Visit!VisitInv'
  BY <1>4, VisitPosts
<1>5. ASSUME NEW r \in Visit!Rounds, NEW to \in {"delivered", "void"}, Visit!Settle(r)
               \/ Visit!Serve(r, to)
      PROVE  Visit!VisitInv'
  BY <1>5, VisitServes
<1>6. CASE UNCHANGED Visit!guest
  <2>1. UNCHANGED <<wire, stored, made, table, night>> /\ UNCHANGED phone
    BY <1>6 DEF Visit!guest
  <2> QED BY <2>1, VisitPage DEF Paper
<1> QED BY <1>1, <1>2, <1>3, <1>4, <1>5, <1>6 DEF Visit!GuestNext

LEMMA VisitSafe == Visit!VisitInv => Visit!StrandedNeedsOutbox
<1> SUFFICES ASSUME Visit!VisitInv, NEW r \in Visit!Rounds, Visit!Owes(r),
                    made[r].session # phone.session,
                    made[r].opened = night
             PROVE  r \in phone.late
  BY DEF Visit!StrandedNeedsOutbox
<1>1. table.on[r] # 0 /\ table.status[table.on[r]] # "paid"
  BY DEF Visit!Owes, Visit!Owing
<1>2. made[r].session # 0
  BY <1>1 DEF Visit!VisitInv, Visit!OrdersKept
<1> QED BY <1>1, <1>2 DEF Visit!VisitInv, Visit!LeftBehind

\* However many rounds a guest sends: an unpaid round of tonight on no bill the phone
\* can open was on its way when the menu said its visit was settled (guestSession.ts:19-21).
THEOREM StrandedOnlyByOutbox == Spec => []StrandedNeedsOutbox
<1>1. Init => Visit!VisitInv
  BY VisitStart, RoundsAreCounted DEF Init
<1>2. Visit!VisitInv /\ [Next]_vars => Visit!VisitInv'
  <2> SUFFICES ASSUME Visit!VisitInv, [Next]_vars PROVE Visit!VisitInv'
    OBVIOUS
  <2>1. Visit!GuestNext \/ UNCHANGED Visit!guest
    BY DEF Next, Only, vars, visitVars, Visit!guest
  <2> QED BY <2>1, VisitStep, RoundsAreCounted
<1>3. Visit!VisitInv => StrandedNeedsOutbox
  BY VisitSafe, RoundsAreCounted DEF StrandedNeedsOutbox
<1> QED BY <1>1, <1>2, <1>3, PTL DEF Spec

-----------------------------------------------------------------------------
\* What the line of the visit says.  The rounds are added up over sets.
\* How much each round comes to.
Portions == [r \in Visit!Rounds |-> Visit!Count(made[r].cart)]

\* A cart comes to a number of dishes.
LEMMA CountIsNat ==
  ASSUME IsFiniteSet(Dishes), NEW c \in [Dishes -> Nat]
  PROVE  Visit!Count(c) \in Nat
<1>1. Visit!Count(c) = Sum(c, Dishes)
  BY DEF Visit!Count, Visit!MapThenSumSet, Visit!MapThenFoldSet, Sum, MapThenSumSet,
         MapThenFoldSet
<1>2. Sum(c, Dishes) \in Int /\ Sum(c, {}) <= Sum(c, Dishes)
  BY SumIsInt, SumGrows
<1> QED BY <1>1, <1>2, SumEmpty

LEMMA RoundsFinite ==
  ASSUME MaxRounds \in Nat, NEW S \in SUBSET Visit!Rounds PROVE IsFiniteSet(S)
<1>1. IsFiniteSet(1 .. MaxRounds)
  BY FS_Interval
<1> QED BY <1>1, FS_Subset DEF Visit!Rounds

\* What a set of rounds comes to.
LEMMA ItemsAreSum ==
  ASSUME MaxRounds \in Nat, NEW S \in SUBSET Visit!Rounds
  PROVE  Visit!ItemsOf(S) = Sum(Portions, S)
<1> DEFINE A(g) == g = [s \in SUBSET S |->
                          IF s = {} THEN 0 ELSE Visit!Count(made[First(s)].cart) + g[s \ {First(s)}]]
<1>0. IsFiniteSet(S)
  BY RoundsFinite
<1>1. Visit!ItemsOf(S) = (CHOOSE g : A(g))[S]
  BY DEF Visit!ItemsOf, Visit!MapThenSumSet, Visit!MapThenFoldSet, First
<1>2. ASSUME NEW g PROVE A(g) <=> Adds(g, Portions, S)
  <2>1. \A s \in SUBSET S : s # {} => Portions[First(s)] = Visit!Count(made[First(s)].cart)
    <3> TAKE s \in SUBSET S
    <3>1. s # {} => First(s) \in Visit!Rounds
      BY FirstIn
    <3> QED BY <3>1 DEF Portions
  <2>2. [s \in SUBSET S |-> IF s = {} THEN 0 ELSE Visit!Count(made[First(s)].cart) + g[s \ {First(s)}]]
        = [s \in SUBSET S |-> IF s = {} THEN 0 ELSE Portions[First(s)] + g[s \ {First(s)}]]
    BY <2>1
  <2> QED BY <2>2 DEF Adds
<1> HIDE DEF A
<1>3. A(CHOOSE g : A(g))
  BY <1>0, <1>2, AdderExists
<1>4. Adds(CHOOSE g : A(g), Portions, S)
  BY <1>2, <1>3
<1>5. Adds(Adder(Portions, S), Portions, S)
  BY <1>0, AdderExists DEF Adder
<1>6. (CHOOSE g : A(g)) = Adder(Portions, S)
  BY <1>0, <1>4, <1>5, AdderUnique
<1> QED BY <1>1, <1>6, SumIs
LEMMA ItemsAre ==
  MaxRounds \in Nat => \A S \in SUBSET Visit!Rounds : Visit!ItemsOf(S) = Sum(Portions, S)
  BY ItemsAreSum
LEMMA ItemsWillBe ==
  (MaxRounds \in Nat => \A S \in SUBSET Visit!Rounds : Visit!ItemsOf(S) = Sum(Portions, S))'
  BY ItemsAre, PTL

\* A number, and no less for more rounds.
LEMMA ItemsGrow ==
  ASSUME MaxRounds \in Nat, IsFiniteSet(Dishes),
         \A r \in Visit!Rounds : made[r].cart \in [Dishes -> Nat],
         NEW S \in SUBSET Visit!Rounds, NEW T \in SUBSET S
  PROVE  Visit!ItemsOf(S) \in Nat /\ Visit!ItemsOf(T) <= Visit!ItemsOf(S)
<1>1. \A r \in Visit!Rounds : Portions[r] \in Nat
  BY CountIsNat DEF Portions
<1>2. IsFiniteSet(S) /\ T \in SUBSET Visit!Rounds /\ {} \in SUBSET Visit!Rounds
  BY RoundsFinite
<1>3. Sum(Portions, S) \in Int /\ Sum(Portions, T) <= Sum(Portions, S)
      /\ Sum(Portions, {}) <= Sum(Portions, S)
  BY <1>1, <1>2, SumIsInt, SumGrows
<1> QED BY <1>2, <1>3, SumEmpty, ItemsAre

\* A step that loses no round of the visit, and adds at most what it adds to the
\* rounds; or that shows nothing.
LEMMA FiguresKept ==
  ASSUME MaxRounds \in Nat, IsFiniteSet(Dishes), Visit!FiguresInv,
         phone'.cart \in [Dishes -> Nat],
         \A r \in Visit!Rounds : made'[r].cart \in [Dishes -> Nat],
         DOMAIN phone'.ui = DOMAIN phone.ui,
         \/ phone'.ui.visit.items = 0
         \/ /\ Visit!Counted \subseteq Visit!Counted' /\ \A r \in Visit!Counted :
                 made'[r].cart = made[r].cart
            /\ \/ phone'.ui.visit.items = phone.ui.visit.items
               \/ \E r \in Visit!Counted' \ Visit!Counted :
                    phone'.ui.visit.items = phone.ui.visit.items + Visit!Count(made'[r].cart),
         phone'.ui.menu = "none" => phone'.ui.placing = 0 /\ phone'.ui.visit.items = 0,
         phone'.ui.placing # 0 => /\ phone'.ui.placing \in Visit!Rounds
                                  /\ made'[phone'.ui.placing].session = phone'.session
  PROVE  Visit!FiguresInv'
<1>1. \A r \in Visit!Rounds : Portions[r] \in Nat /\ Portions[r] = Visit!Count(made[r].cart)
  BY CountIsNat DEF Portions, Visit!FiguresInv
<1>2. \A r \in Visit!Rounds : Portions'[r] \in Nat /\ Portions'[r] = Visit!Count(made'[r].cart)
  BY CountIsNat DEF Portions
<1>3. Visit!Counted \in SUBSET Visit!Rounds /\ Visit!Counted' \in SUBSET Visit!Rounds
  BY DEF Visit!Counted
<1>4. IsFiniteSet(Visit!Counted) /\ IsFiniteSet(Visit!Counted')
  BY <1>3, RoundsFinite
<1>5. Visit!ItemsOf(Visit!Counted) = Sum(Portions, Visit!Counted)
        /\ Visit!ItemsOf(Visit!Counted)' = Sum(Portions', Visit!Counted')
  BY <1>3, ItemsAre, ItemsWillBe
<1>6. Visit!ItemsOf(Visit!Counted)' \in Nat
  <2>1. Sum(Portions', Visit!Counted') \in Int
          /\ Sum(Portions', {}) <= Sum(Portions', Visit!Counted')
    BY <1>2, <1>3, <1>4, SumIsInt, SumGrows
  <2> QED BY <1>5, <2>1, SumEmpty
<1>7. phone'.ui.visit.items \in 0 .. Visit!ItemsOf(Visit!Counted)'
  <2>1. CASE phone'.ui.visit.items = 0
    BY <1>6, <2>1
  <2>2. ASSUME Visit!Counted \subseteq Visit!Counted', \A r \in Visit!Counted :
                 made'[r].cart = made[r].cart
        PROVE  /\ Sum(Portions', Visit!Counted) = Visit!ItemsOf(Visit!Counted)
               /\ Visit!ItemsOf(Visit!Counted) \in Nat
                    /\ Visit!ItemsOf(Visit!Counted) <= Visit!ItemsOf(Visit!Counted)'
    <3>1. \A r \in Visit!Counted : Portions'[r] = Portions[r]
      BY <1>1, <1>2, <1>3, <2>2
    <3>2. Sum(Portions', Visit!Counted) = Sum(Portions, Visit!Counted)
      BY <1>4, <3>1, SumSame
    <3>3. Sum(Portions', Visit!Counted) <= Sum(Portions', Visit!Counted')
      BY <1>2, <1>3, <1>4, <2>2, SumGrows
    <3>4. Sum(Portions, Visit!Counted) \in Int /\ Sum(Portions, {}) <= Sum(Portions, Visit!Counted)
      BY <1>1, <1>3, <1>4, SumIsInt, SumGrows
    <3> QED BY <1>5, <3>2, <3>3, <3>4, SumEmpty
  <2>3. CASE /\ Visit!Counted \subseteq Visit!Counted' /\ \A r \in Visit!Counted :
                  made'[r].cart = made[r].cart
             /\ phone'.ui.visit.items = phone.ui.visit.items
    BY <1>6, <2>2, <2>3 DEF Visit!FiguresInv
  <2>4. ASSUME Visit!Counted \subseteq Visit!Counted', \A r \in Visit!Counted :
                 made'[r].cart = made[r].cart,
               NEW r \in Visit!Counted' \ Visit!Counted,
               phone'.ui.visit.items = phone.ui.visit.items + Visit!Count(made'[r].cart)
        PROVE  phone'.ui.visit.items \in 0 .. Visit!ItemsOf(Visit!Counted)'
    <3>1. \A x \in Visit!Counted \union {r} : Portions'[x] \in Int
      BY <1>2, <1>3, <2>4
    <3>2. Sum(Portions', Visit!Counted \union {r}) = Sum(Portions', Visit!Counted) + Portions'[r]
      BY <1>4, <2>4, <3>1, SumAdd
    <3>3. Sum(Portions', Visit!Counted \union {r}) <= Sum(Portions', Visit!Counted')
      BY <1>2, <1>3, <1>4, <2>4, SumGrows
    <3>4. Portions'[r] \in Nat /\ Portions'[r] = Visit!Count(made'[r].cart)
      BY <1>2, <1>3, <2>4
    <3>5. phone.ui.visit.items \in 0 .. Visit!ItemsOf(Visit!Counted)
            /\ Visit!ItemsOf(Visit!Counted) \in Nat
          /\ Sum(Portions', Visit!Counted) = Visit!ItemsOf(Visit!Counted)
      BY <2>2, <2>4 DEF Visit!FiguresInv
    <3> QED BY <1>5, <1>6, <2>4, <3>2, <3>3, <3>4, <3>5
  <2> QED BY <2>1, <2>3, <2>4
<1> QED BY <1>7 DEF Visit!FiguresInv

LEMMA FiguresStart ==
  MaxRounds \in Nat /\ IsFiniteSet(Dishes) /\ Visit!GuestInit => Visit!FiguresInv
<1> SUFFICES ASSUME MaxRounds \in Nat, IsFiniteSet(Dishes), Visit!GuestInit
             PROVE Visit!FiguresInv
  OBVIOUS
<1>1. /\ phone.cart = Visit!Nothing /\ phone.ui = Visit!FreshPage
      /\ \A r \in Visit!Rounds : made[r].cart = Visit!Nothing
  BY DEF Visit!GuestInit
<1>2. Visit!Nothing \in [Dishes -> Nat]
  BY DEF Visit!Nothing
<1>3. Visit!ItemsOf(Visit!Counted) \in Nat
  BY <1>1, <1>2, ItemsGrow DEF Visit!Counted
<1>4. phone.ui.visit.items = 0 /\ phone.ui.placing = 0
  BY <1>1 DEF Visit!FreshPage, Visit!NoLine
<1> QED BY <1>1, <1>2, <1>3, <1>4 DEF Visit!FiguresInv, Visit!FreshPage

\* The page shows no visit yet.
LEMMA FiguresFresh ==
  ASSUME MaxRounds \in Nat, IsFiniteSet(Dishes), Visit!FiguresInv, UNCHANGED made,
         phone'.ui = Visit!FreshPage, phone'.cart = phone.cart \/ phone'.cart = Visit!Nothing
  PROVE  Visit!FiguresInv'
<1>1. phone'.cart \in [Dishes -> Nat]
  BY DEF Visit!FiguresInv, Visit!Nothing
<1>2. phone'.ui.visit.items = 0 /\ phone'.ui.placing = 0 /\ DOMAIN phone'.ui = DOMAIN phone.ui
  BY DEF Visit!FreshPage, Visit!NoLine, Visit!FiguresInv
<1>3. \A r \in Visit!Rounds : made'[r].cart \in [Dishes -> Nat]
  BY DEF Visit!FiguresInv
<1> QED BY <1>1, <1>2, <1>3, FiguresKept

\* The rounds of the visit stay, and so does what the page says of them.
LEMMA FiguresStay ==
  ASSUME MaxRounds \in Nat, IsFiniteSet(Dishes), Visit!FiguresInv,
         UNCHANGED <<made, phone.session>>, Visit!Counted \subseteq Visit!Counted',
         phone'.cart \in [Dishes -> Nat],
         DOMAIN phone'.ui = DOMAIN phone.ui, phone'.ui.visit = phone.ui.visit,
         phone'.ui.menu = phone.ui.menu \/ phone'.ui.menu # "none",
         phone'.ui.placing \in {phone.ui.placing, 0}
  PROVE  Visit!FiguresInv'
<1>1. \A r \in Visit!Rounds : made'[r].cart \in [Dishes -> Nat]
  BY DEF Visit!FiguresInv
<1>2. \A r \in Visit!Counted : made'[r].cart = made[r].cart
  OBVIOUS
<1>3. phone'.ui.menu = "none" => phone'.ui.placing = 0 /\ phone'.ui.visit.items = 0
  BY DEF Visit!FiguresInv
<1>4. phone'.ui.placing # 0 => /\ phone'.ui.placing \in Visit!Rounds
                               /\ made'[phone'.ui.placing].session = phone'.session
  BY DEF Visit!FiguresInv
<1> QED BY <1>1, <1>2, <1>3, <1>4, FiguresKept

LEMMA FiguresPages ==
  ASSUME MaxRounds \in Nat, IsFiniteSet(Dishes), Visit!VisitInv, Visit!FiguresInv,
         \/ Visit!ScanTable \/ Visit!BackToMenu \/ Visit!MenuSaysSettled \/ Visit!DeadCode
              \/ Visit!ViewBill \/ Visit!PayOnline \/ Visit!LeaveTable
         \/ Visit!ReviewOrder \/ Visit!CloseCart \/ Visit!AddMoreItems \/ \E d \in Dishes :
              Visit!AddToCart(d) \/ Visit!UpdateQuantity(d)
  PROVE  Visit!FiguresInv'
<1>0. DOMAIN phone = {"page", "session", "saved", "savedNight", "minted", "cart", "waiting",
                      "late", "ui"}
  BY DEF Visit!VisitInv, Visit!SessionsKept
<1>1. DOMAIN phone.ui = {"menu", "visit", "again", "cartOpen", "orderSent", "sentTo", "placing"}
      /\ phone.cart \in [Dishes -> Nat]
  BY DEF Visit!FiguresInv
<1>2. CASE Visit!ScanTable \/ Visit!BackToMenu
  <2>1. PICK p : p = Visit!OpenSession(phone)
    OBVIOUS
  <2>2. DOMAIN p = DOMAIN phone /\ p.cart = phone.cart
    BY <1>0, <2>1 DEF Visit!OpenSession, Visit!MintSession
  <2>3. \/ phone' = [p EXCEPT !.page = "table", !.cart = Visit!Nothing, !.waiting = {},
             !.ui = Visit!FreshPage]
        \/ phone' = [p EXCEPT !.page = "table", !.ui = Visit!FreshPage]
    BY <1>2, <2>1 DEF Visit!ScanTable, Visit!BackToMenu
  <2>4. phone'.ui = Visit!FreshPage /\ (phone'.cart = phone.cart \/ phone'.cart = Visit!Nothing)
    BY <1>0, <2>2, <2>3
  <2>5. UNCHANGED made
    BY <1>2 DEF Visit!ScanTable, Visit!BackToMenu
  <2> QED BY <2>4, <2>5, FiguresFresh
<1>3. CASE Visit!ViewBill \/ Visit!LeaveTable
  <2>1. phone'.ui = Visit!FreshPage /\ (phone'.cart = phone.cart \/ phone'.cart = Visit!Nothing)
          /\ UNCHANGED made
    BY <1>0, <1>3 DEF Visit!ViewBill, Visit!LeaveTable
  <2> QED BY <2>1, FiguresFresh
<1>4. CASE Visit!MenuSaysSettled
  <2>1. PICK p : p = Visit!MintSession(phone)
    OBVIOUS
  <2>2. DOMAIN p = DOMAIN phone /\ p.cart = phone.cart /\ p.ui = phone.ui
    BY <1>0, <2>1 DEF Visit!MintSession
  <2>3. phone' = [p EXCEPT !.late = @ \union stored \union wire] /\ UNCHANGED made
        /\ phone.ui.menu = "none"
    BY <1>4, <2>1 DEF Visit!MenuSaysSettled
  <2>4. phone'.ui = phone.ui /\ phone'.cart = phone.cart
    BY <1>0, <2>2, <2>3
  <2>5. phone.ui.placing = 0 /\ phone.ui.visit.items = 0
    BY <2>3 DEF Visit!FiguresInv
  <2>6. \A r \in Visit!Rounds : made'[r].cart \in [Dishes -> Nat]
    BY <2>3 DEF Visit!FiguresInv
  <2> QED BY <1>1, <2>4, <2>5, <2>6, FiguresKept
<1>5. CASE Visit!DeadCode \/ Visit!PayOnline \/ Visit!ReviewOrder \/ Visit!CloseCart
             \/ Visit!AddMoreItems
  <2>1. UNCHANGED <<wire, stored, made, table, night>>
    BY <1>5 DEF Visit!DeadCode, Visit!PayOnline, Visit!ReviewOrder, Visit!CloseCart,
       Visit!AddMoreItems, Visit!PageStep
  <2>2. /\ phone'.session = phone.session /\ DOMAIN phone'.ui = DOMAIN phone.ui
        /\ phone'.ui.visit = phone.ui.visit /\ phone'.ui.placing = phone.ui.placing
        /\ phone'.ui.menu = phone.ui.menu \/ phone'.ui.menu # "none"
    <3>1. CASE Visit!DeadCode
      BY <1>0, <1>1, <3>1 DEF Visit!DeadCode
    <3>2. CASE Visit!PayOnline
      BY <1>0, <1>1, <3>2 DEF Visit!PayOnline
    <3>3. CASE Visit!ReviewOrder
      BY <1>0, <1>1, <3>3 DEF Visit!ReviewOrder
    <3>4. CASE Visit!CloseCart
      BY <1>0, <1>1, <3>4 DEF Visit!CloseCart
    <3>5. CASE Visit!AddMoreItems
      BY <1>0, <1>1, <3>5 DEF Visit!AddMoreItems
    <3> QED BY <1>5, <3>1, <3>2, <3>3, <3>4, <3>5
  <2>3. phone'.cart = phone.cart \/ phone'.cart = Visit!Nothing
    BY <1>0, <1>1, <1>5 DEF Visit!DeadCode, Visit!PayOnline, Visit!ReviewOrder,
       Visit!CloseCart, Visit!AddMoreItems
  <2>4. phone'.cart \in [Dishes -> Nat] /\ Visit!Counted' = Visit!Counted
    BY <1>1, <2>1, <2>2, <2>3 DEF Visit!Nothing, Visit!Counted
  <2> QED BY <2>1, <2>2, <2>4, FiguresStay
<1>6. ASSUME NEW d \in Dishes, Visit!AddToCart(d) \/ Visit!UpdateQuantity(d)
      PROVE Visit!FiguresInv'
  <2>1. UNCHANGED <<wire, stored, made, table, night>>
    BY <1>6 DEF Visit!AddToCart, Visit!UpdateQuantity, Visit!PageStep
  <2>2. phone'.ui = phone.ui /\ phone'.session = phone.session
    BY <1>0, <1>6 DEF Visit!AddToCart, Visit!UpdateQuantity
  <2>3. CASE Visit!AddToCart(d)
    <3>1. phone'.cart = [phone.cart EXCEPT ![d] = @ + 1]
      BY <1>0, <2>3 DEF Visit!AddToCart
    <3>2. phone'.cart \in [Dishes -> Nat] /\ Visit!Counted' = Visit!Counted
      BY <1>1, <2>1, <2>2, <3>1 DEF Visit!Counted
    <3> QED BY <2>1, <2>2, <3>2, FiguresStay
  <2>4. CASE Visit!UpdateQuantity(d)
    <3>1. phone'.cart = [phone.cart EXCEPT ![d] = @ - 1] /\ phone.cart[d] > 0
      BY <1>0, <2>4 DEF Visit!UpdateQuantity, Visit!InCart
    <3>2. phone'.cart \in [Dishes -> Nat] /\ Visit!Counted' = Visit!Counted
      BY <1>1, <2>1, <2>2, <3>1 DEF Visit!Counted
    <3> QED BY <2>1, <2>2, <3>2, FiguresStay
  <2> QED BY <1>6, <2>3, <2>4
<1> QED BY <1>2, <1>3, <1>4, <1>5, <1>6

\* The answer counts what is on the visit's orders.
LEMMA FiguresArrive ==
  ASSUME MaxRounds \in Nat, IsFiniteSet(Dishes), Visit!VisitInv, Visit!FiguresInv,
         Visit!MenuArrives
  PROVE  Visit!FiguresInv'
<1>0. DOMAIN phone = {"page", "session", "saved", "savedNight", "minted", "cart", "waiting",
                      "late", "ui"}
  BY DEF Visit!VisitInv, Visit!SessionsKept
<1>1. DOMAIN phone.ui = {"menu", "visit", "again", "cartOpen", "orderSent", "sentTo", "placing"}
      /\ phone.cart \in [Dishes -> Nat] /\ \A r \in Visit!Rounds : made[r].cart \in [Dishes -> Nat]
  BY DEF Visit!FiguresInv
<1> DEFINE shown == UNION {Visit!Live(o) : o \in Visit!OrdersOf(phone.session)}
<1>2. /\ DOMAIN phone'.ui = DOMAIN phone.ui /\ phone'.ui.menu = "shown"
      /\ phone'.ui.visit = Visit!VisitLine(phone.session) /\ phone'.ui.placing = phone.ui.placing
      /\ phone'.session = phone.session /\ phone'.cart = phone.cart
      /\ UNCHANGED <<wire, stored, made, table, night>>
  BY <1>0, <1>1 DEF Visit!MenuArrives
<1>3. phone'.ui.visit.items = Visit!ItemsOf(shown)
  BY <1>2 DEF Visit!VisitLine
<1>4. shown \subseteq Visit!Counted
  <2> SUFFICES ASSUME NEW o \in Visit!OrdersOf(phone.session), NEW r \in Visit!Live(o)
               PROVE r \in Visit!Counted
    OBVIOUS
  <2>1. r \in Visit!Rounds /\ o \in Visit!Rounds /\ table.on[r] = o
          /\ made[o].session = phone.session
    BY DEF Visit!Live, Visit!RoundsOn, Visit!OrdersOf
  <2> QED BY <2>1 DEF Visit!Counted, Visit!VisitInv, Visit!OrdersKept, Visit!Rounds
<1>5. Visit!Counted \in SUBSET Visit!Rounds
  BY DEF Visit!Counted
<1> HIDE DEF shown
<1>6. Visit!ItemsOf(shown) \in 0 .. Visit!ItemsOf(Visit!Counted)
  <2>1. Visit!ItemsOf(shown) <= Visit!ItemsOf(Visit!Counted) /\ Visit!ItemsOf(Visit!Counted) \in Nat
    BY <1>1, <1>4, <1>5, ItemsGrow
  <2>2. Visit!ItemsOf(shown) \in Nat
    BY <1>1, <1>4, <1>5, ItemsGrow
  <2> QED BY <2>1, <2>2
<1>7. Visit!ItemsOf(Visit!Counted)' = Visit!ItemsOf(Visit!Counted)
  <2>1. Visit!Counted' = Visit!Counted /\ Portions' = Portions
    BY <1>2 DEF Visit!Counted, Portions
  <2> QED BY <1>5, <2>1, ItemsAre, ItemsWillBe
<1>8. phone'.ui.placing # 0 => /\ phone'.ui.placing \in Visit!Rounds
                               /\ made'[phone'.ui.placing].session = phone'.session
  BY <1>2 DEF Visit!FiguresInv
<1> QED BY <1>1, <1>2, <1>3, <1>6, <1>7, <1>8 DEF Visit!FiguresInv

\* The new round is on its way, and in no figure.
LEMMA FiguresPlace ==
  ASSUME MaxRounds \in Nat, IsFiniteSet(Dishes), Visit!VisitInv, Visit!FiguresInv,
         Visit!PlaceOrder
  PROVE  Visit!FiguresInv'
<1>0. DOMAIN phone = {"page", "session", "saved", "savedNight", "minted", "cart", "waiting",
                      "late", "ui"}
      /\ DOMAIN made = Visit!Rounds
  BY DEF Visit!VisitInv, Visit!SessionsKept, Visit!RoundsMade
<1>1. DOMAIN phone.ui = {"menu", "visit", "again", "cartOpen", "orderSent", "sentTo", "placing"}
      /\ phone.cart \in [Dishes -> Nat] /\ \A r \in Visit!Rounds : made[r].cart \in [Dishes -> Nat]
  BY DEF Visit!FiguresInv
<1>2. PICK n \in Visit!Rounds : n = Visit!NextRound
  BY DEF Visit!PlaceOrder
<1>3. PICK new : new = [session |-> phone.session, cart |-> phone.cart, opened |-> phone.savedNight]
  OBVIOUS
<1>4. made' = [made EXCEPT ![n] = new] /\ UNCHANGED <<stored, table, night>>
  BY <1>2, <1>3 DEF Visit!PlaceOrder
<1>5. made[n].session = 0
  BY <1>2, NextIsNew DEF Visit!Rounds
<1>6. /\ made'[n] = new /\ \A r \in Visit!Rounds \ {n} : made'[r] = made[r]
      /\ new.session = phone.session /\ new.cart = phone.cart
  BY <1>0, <1>3, <1>4
<1>7. /\ DOMAIN phone'.ui = DOMAIN phone.ui /\ phone'.ui.visit = phone.ui.visit
      /\ phone'.ui.menu = phone.ui.menu /\ phone'.ui.placing = n
      /\ phone'.session = phone.session /\ phone'.cart = phone.cart
  BY <1>0, <1>1, <1>2 DEF Visit!PlaceOrder
<1>8. phone.session # 0 /\ phone.ui.menu # "none"
  BY DEF Visit!PlaceOrder, Visit!CheckoutPanel, Visit!Loaded, Visit!VisitInv, Visit!SessionsKept
<1>9. n \notin Visit!Counted
  BY <1>5, <1>8 DEF Visit!Counted
<1>10. Visit!Counted \subseteq Visit!Counted' /\ \A r \in Visit!Counted :
         made'[r].cart = made[r].cart
  <2>1. \A r \in Visit!Counted : r \in Visit!Rounds \ {n}
    BY <1>9 DEF Visit!Counted
  <2> QED BY <1>4, <1>6, <1>7, <2>1 DEF Visit!Counted
<1>11. \A r \in Visit!Rounds : made'[r].cart \in [Dishes -> Nat]
  BY <1>1, <1>6
<1> QED BY <1>1, <1>6, <1>7, <1>8, <1>10, <1>11, FiguresKept

\* A round that has left the phone counts; the page adds it if it is still the one
\* that placed it.
LEMMA FiguresConfirm ==
  ASSUME MaxRounds \in Nat, IsFiniteSet(Dishes), Visit!VisitInv, Visit!FiguresInv,
         NEW r \in wire,
         UNCHANGED made, Visit!Confirm(r),
         \A q \in Visit!Counted : q \in stored' \/ table'.on[q] # 0,
         r \in stored' \/ table'.on[r] # 0
  PROVE  Visit!FiguresInv'
<1>0. DOMAIN phone = {"page", "session", "saved", "savedNight", "minted", "cart", "waiting",
                      "late", "ui"}
      /\ r \in Visit!Rounds /\ table.on[r] = 0 /\ r \notin stored
  BY DEF Visit!VisitInv, Visit!SessionsKept, Visit!RoundsMade, Visit!OrdersKept
<1>1. DOMAIN phone.ui = {"menu", "visit", "again", "cartOpen", "orderSent", "sentTo", "placing"}
      /\ phone.cart \in [Dishes -> Nat] /\ \A q \in Visit!Rounds : made'[q].cart \in [Dishes -> Nat]
  BY DEF Visit!FiguresInv
<1>2. phone'.session = phone.session /\ phone'.cart = Visit!Nothing
  BY <1>0 DEF Visit!Confirm
<1>3. phone'.cart \in [Dishes -> Nat] /\ Visit!Counted \subseteq Visit!Counted'
  BY <1>2 DEF Visit!Nothing, Visit!Counted
<1>4. CASE phone.ui.placing # r
  <2>1. phone'.ui = phone.ui
    BY <1>0, <1>4 DEF Visit!Confirm
  <2> QED BY <1>2, <1>3, <2>1, FiguresStay
<1>5. CASE phone.ui.placing = r
  <2>1. phone'.ui = [phone.ui EXCEPT !.visit = Visit!Fold(r), !.orderSent = TRUE, !.placing = 0,
                                     !.sentTo = Visit!SentTo(made[r].cart)]
    BY <1>0, <1>5 DEF Visit!Confirm
  <2>2. /\ DOMAIN phone'.ui = DOMAIN phone.ui /\ phone'.ui.visit = Visit!Fold(r)
        /\ phone'.ui.placing = 0 /\ phone'.ui.menu = phone.ui.menu
    BY <1>1, <2>1
  <2>3. phone'.ui.visit.items = phone.ui.visit.items + Visit!Count(made'[r].cart)
    BY <2>2 DEF Visit!Fold
  <2>4. made[r].session = phone.session /\ phone.ui.menu # "none"
    BY <1>0, <1>5 DEF Visit!FiguresInv, Visit!Rounds
  <2>5. r \in Visit!Counted' \ Visit!Counted
    BY <1>0, <1>2, <2>4 DEF Visit!Counted
  <2>6. \A q \in Visit!Counted : made'[q].cart = made[q].cart
    OBVIOUS
  <2> QED BY <1>1, <1>3, <2>2, <2>3, <2>4, <2>5, <2>6, FiguresKept
<1> QED BY <1>4, <1>5

\* A round that comes to the venue is on an order.
LEMMA LandsOn ==
  ASSUME MaxRounds \in Nat, Visit!VisitInv, NEW r \in Visit!Rounds, Visit!Lands(r)
  PROVE  table'.on[r] # 0 /\ \A q \in Visit!Rounds : table.on[q] # 0 => table'.on[q] # 0
<1>1. PICK joinable :
        joinable = {o \in Visit!OrdersOf(made[r].session) : table.status[o] \in {"open", "partly"}}
  OBVIOUS
<1>2. PICK o : o = IF joinable = {} THEN r ELSE CHOOSE x \in joinable : TRUE
  OBVIOUS
<1>3. table' = [table EXCEPT !.on[r] = o, !.line[r] = "pending",
                             !.status[o] = IF joinable = {} THEN "open" ELSE @]
  BY <1>1, <1>2 DEF Visit!Lands
<1>4. table'.on = [table.on EXCEPT ![r] = o] /\ DOMAIN table.on = Visit!Rounds
  BY <1>3 DEF Visit!VisitInv, Visit!OrdersKept
<1>5. o \in Visit!Rounds
  <2>1. joinable # {} => o \in joinable
    BY <1>2
  <2>2. joinable \subseteq Visit!Rounds
    BY <1>1 DEF Visit!OrdersOf
  <2> QED BY <1>2, <2>1, <2>2
<1> QED BY <1>4, <1>5 DEF Visit!Rounds

LEMMA FiguresPosts ==
  ASSUME MaxRounds \in Nat, IsFiniteSet(Dishes), Visit!VisitInv, Visit!FiguresInv,
         NEW r \in Visit!Rounds,
         Visit!PlaceAccepted(r) \/ Visit!PlaceFails(r) \/ Visit!PlaceRefused(r) \/ Visit!Replay(r)
  PROVE  Visit!FiguresInv'
<1>0. DOMAIN phone = {"page", "session", "saved", "savedNight", "minted", "cart", "waiting",
                      "late", "ui"}
  BY DEF Visit!VisitInv, Visit!SessionsKept
<1>1. DOMAIN phone.ui = {"menu", "visit", "again", "cartOpen", "orderSent", "sentTo", "placing"}
      /\ phone.cart \in [Dishes -> Nat]
  BY DEF Visit!FiguresInv
<1>2. Visit!Counted \subseteq Visit!Rounds /\ UNCHANGED made
  BY DEF Visit!Counted, Visit!PlaceAccepted, Visit!PlaceFails, Visit!PlaceRefused, Visit!Replay
<1>3. ASSUME UNCHANGED phone, Visit!Counted \subseteq Visit!Counted' PROVE Visit!FiguresInv'
  BY <1>1, <1>2, <1>3, FiguresStay
<1>4. CASE Visit!PlaceAccepted(r)
  <2>1. r \in wire /\ Visit!Lands(r) /\ UNCHANGED stored /\ (Visit!Confirm(r) \/ UNCHANGED phone)
    BY <1>4 DEF Visit!PlaceAccepted
  <2>2. table'.on[r] # 0 /\ \A q \in Visit!Rounds : table.on[q] # 0 => table'.on[q] # 0
    BY <2>1, LandsOn
  <2>3. \A q \in Visit!Counted : q \in stored' \/ table'.on[q] # 0
    BY <2>1, <2>2 DEF Visit!Counted
  <2>4. CASE Visit!Confirm(r)
    BY <1>2, <2>1, <2>2, <2>3, <2>4, FiguresConfirm
  <2>5. CASE UNCHANGED phone
    <3>1. Visit!Counted \subseteq Visit!Counted'
      BY <1>2, <2>3, <2>5 DEF Visit!Counted
    <3> QED BY <1>3, <2>5, <3>1
  <2> QED BY <2>1, <2>4, <2>5
<1>5. CASE Visit!PlaceFails(r)
  <2>1. r \in wire /\ UNCHANGED table
        /\ ((stored' = stored \union {r} /\ Visit!Confirm(r)) \/ UNCHANGED <<stored, phone>>)
    BY <1>5 DEF Visit!PlaceFails
  <2>2. CASE stored' = stored \union {r} /\ Visit!Confirm(r)
    <3>1. \A q \in Visit!Counted : q \in stored' \/ table'.on[q] # 0
      BY <2>1, <2>2 DEF Visit!Counted
    <3> QED BY <1>2, <2>1, <2>2, <3>1, FiguresConfirm
  <2>3. CASE UNCHANGED <<stored, phone>>
    <3>1. Visit!Counted \subseteq Visit!Counted'
      BY <1>2, <2>1, <2>3 DEF Visit!Counted
    <3> QED BY <1>3, <2>3, <3>1
  <2> QED BY <2>1, <2>2, <2>3
<1>6. CASE Visit!PlaceRefused(r)
  <2>1. UNCHANGED <<stored, table>>
        /\ phone' = [phone EXCEPT !.waiting = @ \ {r}, !.ui.placing = IF @ = r THEN 0 ELSE @]
    BY <1>6 DEF Visit!PlaceRefused
  <2>2. /\ DOMAIN phone'.ui = DOMAIN phone.ui /\ phone'.ui.visit = phone.ui.visit
        /\ phone'.ui.menu = phone.ui.menu /\ phone'.ui.placing \in {phone.ui.placing, 0}
        /\ phone'.session = phone.session /\ phone'.cart = phone.cart
    BY <1>0, <1>1, <2>1
  <2>3. Visit!Counted \subseteq Visit!Counted'
    BY <1>2, <2>1, <2>2 DEF Visit!Counted
  <2> QED BY <1>1, <1>2, <2>2, <2>3, FiguresStay
<1>7. CASE Visit!Replay(r)
  <2>1. r \in stored /\ stored' = stored \ {r} /\ Visit!Lands(r) /\ UNCHANGED phone
    BY <1>7 DEF Visit!Replay
  <2>2. table'.on[r] # 0 /\ \A q \in Visit!Rounds : table.on[q] # 0 => table'.on[q] # 0
    BY <2>1, LandsOn
  <2>3. Visit!Counted \subseteq Visit!Counted'
    BY <1>2, <2>1, <2>2 DEF Visit!Counted
  <2> QED BY <1>3, <2>1, <2>3
<1> QED BY <1>4, <1>5, <1>6, <1>7

LEMMA FiguresVenue ==
  ASSUME MaxRounds \in Nat, IsFiniteSet(Dishes), Visit!VisitInv, Visit!FiguresInv,
         UNCHANGED <<phone, made, stored>>, table'.on = table.on
  PROVE  Visit!FiguresInv'
<1>1. Visit!Counted' = Visit!Counted
  BY DEF Visit!Counted
<1> QED BY <1>1, FiguresStay DEF Visit!FiguresInv

LEMMA FiguresStep ==
  ASSUME MaxRounds \in Nat, IsFiniteSet(Dishes), Visit!VisitInv, Visit!FiguresInv,
         Visit!GuestNext \/ UNCHANGED Visit!guest
  PROVE  Visit!FiguresInv'
<1>0. DOMAIN table = {"on", "line", "status"}
  BY DEF Visit!VisitInv, Visit!OrdersKept
<1>1. CASE \/ Visit!ScanTable \/ Visit!BackToMenu \/ Visit!MenuSaysSettled \/ Visit!DeadCode
                \/ Visit!ViewBill \/ Visit!PayOnline
           \/ Visit!LeaveTable \/ Visit!ReviewOrder \/ Visit!CloseCart \/ Visit!AddMoreItems
           \/ \E d \in Dishes : Visit!AddToCart(d) \/ Visit!UpdateQuantity(d)
  BY <1>1, FiguresPages
<1>2. CASE Visit!MenuArrives \/ Visit!PlaceOrder
  BY <1>2, FiguresArrive, FiguresPlace
<1>3. ASSUME NEW r \in Visit!Rounds, Visit!PlaceAccepted(r) \/ Visit!PlaceFails(r)
               \/ Visit!PlaceRefused(r) \/ Visit!Replay(r)
      PROVE  Visit!FiguresInv'
  BY <1>3, FiguresPosts
<1>4. ASSUME NEW r \in Visit!Rounds, NEW to \in {"delivered", "void"}, Visit!Settle(r)
               \/ Visit!Serve(r, to)
      PROVE  Visit!FiguresInv'
  <2>1. UNCHANGED <<phone, made, stored>> /\ table'.on = table.on
    BY <1>0, <1>4 DEF Visit!Settle, Visit!Serve
  <2> QED BY <2>1, FiguresVenue
<1>5. CASE Visit!NightPasses \/ UNCHANGED Visit!guest
  <2>1. UNCHANGED <<phone, made, stored>> /\ table'.on = table.on
    BY <1>5 DEF Visit!NightPasses, Visit!guest
  <2> QED BY <2>1, FiguresVenue
<1> QED BY <1>1, <1>2, <1>3, <1>4, <1>5 DEF Visit!GuestNext

LEMMA FiguresSafe ==
  ASSUME MaxRounds \in Nat, IsFiniteSet(Dishes), Visit!FiguresInv
  PROVE  Visit!VisitNeverOverstates
<1>1. Visit!Counted \in SUBSET Visit!Sent /\ Visit!Sent \in SUBSET Visit!Rounds
  BY DEF Visit!Counted, Visit!Sent
<1>2. Visit!ItemsOf(Visit!Counted) <= Visit!ItemsOf(Visit!Sent)
        /\ Visit!ItemsOf(Visit!Sent) \in Nat /\ Visit!ItemsOf(Visit!Counted) \in Nat
  BY <1>1, ItemsGrow DEF Visit!FiguresInv
<1> QED BY <1>2 DEF Visit!FiguresInv, Visit!VisitNeverOverstates

\* However many dishes and rounds: what the visit's line says the guest has had is
\* never more than what was sent for this visit (table page:396).
THEOREM VisitLineIsTrue == Spec => []VisitNeverOverstates
<1>1. Init => Visit!VisitInv /\ Visit!FiguresInv
  BY VisitStart, FiguresStart, RoundsAreCounted, MenuIsFinite DEF Init
<1>2. (Visit!VisitInv /\ Visit!FiguresInv) /\ [Next]_vars => (Visit!VisitInv /\ Visit!FiguresInv)'
  <2> SUFFICES ASSUME Visit!VisitInv, Visit!FiguresInv, [Next]_vars
               PROVE  Visit!VisitInv' /\ Visit!FiguresInv'
    OBVIOUS
  <2>1. Visit!GuestNext \/ UNCHANGED Visit!guest
    BY DEF Next, Only, vars, visitVars, Visit!guest
  <2> QED BY <2>1, VisitStep, FiguresStep, RoundsAreCounted, MenuIsFinite
<1>3. Visit!VisitInv /\ Visit!FiguresInv => VisitNeverOverstates
  BY FiguresSafe, RoundsAreCounted, MenuIsFinite DEF VisitNeverOverstates
<1> QED BY <1>1, <1>2, <1>3, PTL DEF Spec

-----------------------------------------------------------------------------
\* The bill page.
LEMMA BillStart == Bill!BillInit => Bill!BillInv
  BY DEF Bill!BillInit, Bill!BillInv, Bill!BillTypeOK, Bill!ListsAreTrue, Bill!Told,
     Bill!FreshPage, Bill!Unplaced, Bill!Final

BilledOrder == [status : {"none", "open", "paid"},
                lines : {"none", "coming", "delivered", "cancelled"}]

\* A list stays true while the venue settles, or says what it undoes.
BillSettles ==
  /\ undone \subseteq undone' /\ late \subseteq late'
  /\ \A o \in Bills :
       /\ due[o].status = "paid" => due'[o].status = "paid" \/ o \in undone'
       /\ due[o].lines \in Bill!Final => due'[o].lines = due[o].lines \/ o \in undone'
       /\ due'[o].status # "none" => due[o].status # "none" \/ o \in late'

LEMMA BillVenueMoves ==
  ASSUME Bill!BillInv, Bill!BillTypeOK', BillSettles, UNCHANGED <<bill, answers>>
  PROVE  Bill!BillInv'
<1>1. ASSUME NEW l, Bill!Told(l) PROVE Bill!Told(l)'
  BY <1>1 DEF Bill!Told, BillSettles
<1>2. ASSUME NEW l, Bill!Complete(l) PROVE Bill!Complete(l)'
  BY <1>2 DEF Bill!Complete, BillSettles
<1>3. \A a \in answers : Bill!Told(a)' /\ Bill!Complete(a)'
  BY <1>1, <1>2 DEF Bill!BillInv, Bill!ListsAreTrue
<1>4. PICK l : l = bill.orders
  OBVIOUS
<1>5. Bill!Told(l) /\ (l = Bill!FreshPage.orders \/ Bill!Complete(l))
  BY <1>4 DEF Bill!BillInv, Bill!ListsAreTrue
<1>6. Bill!Told(bill.orders)'
  <2>1. Bill!Told(l)'
    BY <1>1, <1>5
  <2> QED BY <1>4, <2>1 DEF Bill!Told
<1>7. bill'.orders = Bill!FreshPage.orders \/ Bill!Complete(bill.orders)'
  <2>1. l = Bill!FreshPage.orders \/ Bill!Complete(l)'
    BY <1>2, <1>5
  <2> QED BY <1>4, <2>1 DEF Bill!Complete
<1>8. bill'.feedbackOpen => \E o \in Bills : due'[o].status = "paid" \/ o \in undone'
  BY DEF Bill!BillInv, Bill!ListsAreTrue, BillSettles
<1>9. Bill!FreshPage' = Bill!FreshPage
  BY DEF Bill!FreshPage, Bill!Unplaced
<1> QED BY <1>3, <1>6, <1>7, <1>8, <1>9 DEF Bill!BillInv, Bill!ListsAreTrue

\* What an order becomes in one step of the venue.
LEMMA OneBilledOrder ==
  ASSUME Bill!BillInv, NEW o \in Bills, NEW new \in BilledOrder,
         due' = [due EXCEPT ![o] = new], UNCHANGED <<bill, answers>>,
         undone \subseteq undone', late \subseteq late',
         new.lines = "cancelled" => new.status # "paid" \/ o \in undone',
         new.status # "none" <=> new.lines # "none",
         due[o].status = "paid" => new.status = "paid" \/ o \in undone',
         due[o].lines \in Bill!Final => new.lines = due[o].lines \/ o \in undone',
         new.status # "none" => due[o].status # "none" \/ o \in late'
  PROVE  Bill!BillInv'
<1>1. due'[o] = new /\ \A p \in Bills : p # o => due'[p] = due[p]
  BY DEF Bill!BillInv, Bill!BillTypeOK
<1>2. due' \in [Bills -> BilledOrder]
  BY DEF Bill!BillInv, Bill!BillTypeOK, BilledOrder
<1>3. Bill!BillTypeOK'
  <2>1. due' \in [Bills -> [status : {"none", "open", "paid"},
                            lines : {"none", "coming", "delivered", "cancelled"}]]
    BY <1>2 DEF BilledOrder
  <2>2. ASSUME NEW p \in Bills
        PROVE  /\ due'[p].lines = "cancelled" => due'[p].status # "paid" \/ p \in undone'
               /\ due'[p].status # "none" <=> due'[p].lines # "none"
    BY <1>1 DEF Bill!BillInv, Bill!BillTypeOK
  <2>3. DOMAIN bill' = DOMAIN Bill!FreshPage
    BY DEF Bill!BillInv, Bill!BillTypeOK
  <2>4. Bill!FreshPage' = Bill!FreshPage
    BY DEF Bill!FreshPage, Bill!Unplaced
  <2> QED BY <2>1, <2>2, <2>3, <2>4 DEF Bill!BillTypeOK
<1>4. BillSettles
  BY <1>1 DEF BillSettles
<1> QED BY <1>3, <1>4, BillVenueMoves

\* A list that is read now is true.
LEMMA BillReadNow == Bill!BillInv => Bill!Told(Bill!BillNow) /\ Bill!Complete(Bill!BillNow)
  BY DEF Bill!BillInv, Bill!BillTypeOK, Bill!Told, Bill!Complete, Bill!BillNow

\* What the page does with its lists.
LEMMA BillPageMoves ==
  ASSUME Bill!BillInv, due' = due, undone' = undone,
         late' = late \/ (answers' = {} /\ bill'.orders = Bill!FreshPage.orders),
         DOMAIN bill' = DOMAIN bill, Bill!Told(bill'.orders),
         bill'.orders = Bill!FreshPage.orders \/ Bill!Complete(bill'.orders),
         \A a \in answers' : Bill!Told(a) /\ Bill!Complete(a),
         bill'.feedbackOpen => \E o \in Bills : due[o].status = "paid" \/ o \in undone
  PROVE  Bill!BillInv'
<1>1. Bill!FreshPage' = Bill!FreshPage
  BY DEF Bill!FreshPage, Bill!Unplaced
<1>2. Bill!BillTypeOK'
  BY <1>1 DEF Bill!BillInv, Bill!BillTypeOK
<1>3. \A l : Bill!Told(l) => Bill!Told(l)'
  BY DEF Bill!Told
<1>4. late' = late => \A l : Bill!Complete(l) => Bill!Complete(l)'
  BY DEF Bill!Complete
<1>5. PICK l : l = bill'.orders
  OBVIOUS
<1>6. Bill!Told(bill.orders)'
  <2>1. Bill!Told(l)'
    BY <1>3, <1>5
  <2> QED BY <1>5, <2>1 DEF Bill!Told
<1>7. \A a \in answers' : Bill!Told(a)' /\ Bill!Complete(a)'
  BY <1>3, <1>4
<1>8. bill'.orders = Bill!FreshPage.orders \/ Bill!Complete(bill.orders)'
  <2>1. l = Bill!FreshPage.orders \/ Bill!Complete(l)'
    BY <1>4, <1>5
  <2> QED BY <1>5, <2>1 DEF Bill!Complete
<1> QED BY <1>1, <1>2, <1>6, <1>7, <1>8 DEF Bill!BillInv, Bill!ListsAreTrue

LEMMA BillStep == Bill!BillInv /\ (Bill!BillNext \/ UNCHANGED Bill!billing) => Bill!BillInv'
<1> SUFFICES ASSUME Bill!BillInv, Bill!BillNext \/ UNCHANGED Bill!billing PROVE Bill!BillInv'
  OBVIOUS
<1>0. ASSUME NEW o \in Bills
      PROVE  /\ due[o] \in BilledOrder
             /\ due[o].status \in {"none", "open", "paid"}
             /\ due[o].lines \in {"none", "coming", "delivered", "cancelled"}
             /\ due[o].lines = "cancelled" => due[o].status # "paid" \/ o \in undone
             /\ due[o].status # "none" <=> due[o].lines # "none"
             /\ due[o] = [status |-> due[o].status, lines |-> due[o].lines]
  BY DEF Bill!BillInv, Bill!BillTypeOK, BilledOrder
<1>1. ASSUME NEW o \in Bills, Bill!RoundPlaced(o) PROVE Bill!BillInv'
  <2> DEFINE new == [status |-> "open", lines |-> "coming"]
  <2>1. /\ due[o] = Bill!Unplaced /\ UNCHANGED <<bill, answers, undone>>
        /\ due' = [due EXCEPT ![o] = new] /\ late' = late \union {o}
    BY <1>1 DEF Bill!RoundPlaced, Bill!pageVars
  <2>2. due[o].status = "none" /\ due[o].lines = "none"
    BY <2>1 DEF Bill!Unplaced
  <2>3. new \in BilledOrder /\ new.status = "open" /\ new.lines = "coming"
    BY DEF BilledOrder
  <2> HIDE DEF new
  <2> QED BY <2>1, <2>2, <2>3, OneBilledOrder DEF Bill!Final
<1>2. ASSUME NEW o \in Bills, Bill!PaymentConfirmed(o) PROVE Bill!BillInv'
  <2> DEFINE new == [status |-> "paid", lines |-> due[o].lines]
  <2>1. /\ due[o].status = "open" /\ due[o].lines # "cancelled"
        /\ UNCHANGED <<bill, answers, undone, late>>
        /\ due' = [due EXCEPT ![o].status = "paid"]
    BY <1>2 DEF Bill!PaymentConfirmed, Bill!Payable, Bill!pageVars
  <2>2. due' = [due EXCEPT ![o] = new]
    <3> PICK old : old = due[o]
      OBVIOUS
    <3>1. old = [status |-> old.status, lines |-> old.lines]
      BY <1>0
    <3>2. [old EXCEPT !.status = "paid"] = new
      BY <3>1
    <3> QED BY <2>1, <3>2
  <2>3. new \in BilledOrder /\ new.status = "paid" /\ new.lines = due[o].lines
    BY <1>0 DEF BilledOrder
  <2> HIDE DEF new
  <2>4. due[o].lines # "none"
    BY <1>0, <2>1
  <2> QED BY <2>1, <2>2, <2>3, <2>4, OneBilledOrder DEF Bill!Final
<1>3. ASSUME NEW o \in Bills, NEW to \in {"coming", "delivered", "cancelled"},
             Bill!LineMoves(o, to)
      PROVE  Bill!BillInv'
  <2> DEFINE new == [status |-> due[o].status, lines |-> to]
  <2>1. /\ due[o] # Bill!Unplaced /\ UNCHANGED <<bill, answers, late>>
        /\ to = "cancelled" => due[o].status # "paid"
        /\ undone' = IF due[o].lines \in Bill!Final \ {to} THEN undone \union {o} ELSE undone
        /\ due' = [due EXCEPT ![o].lines = to]
    BY <1>3 DEF Bill!LineMoves, Bill!pageVars
  <2>2. due' = [due EXCEPT ![o] = new]
    <3> PICK old : old = due[o]
      OBVIOUS
    <3>1. old = [status |-> old.status, lines |-> old.lines]
      BY <1>0
    <3>2. [old EXCEPT !.lines = to] = new
      BY <3>1
    <3> QED BY <2>1, <3>2
  <2>3. new \in BilledOrder /\ new.status = due[o].status /\ new.lines = to
    BY <1>0 DEF BilledOrder
  <2>4. due[o].status # "none"
    BY <1>0, <2>1 DEF Bill!Unplaced
  <2> HIDE DEF new
  <2>5. undone \subseteq undone'
    BY <2>1
  <2>6. due[o].lines \in Bill!Final => new.lines = due[o].lines \/ o \in undone'
    BY <2>1, <2>3
  <2>7. new.lines = "cancelled" => new.status # "paid"
    BY <2>1, <2>3
  <2>8. new.status # "none" <=> new.lines # "none"
    BY <2>3, <2>4
  <2> QED BY <2>1, <2>2, <2>3, <2>4, <2>5, <2>6, <2>7, <2>8, OneBilledOrder
<1>4. ASSUME NEW o \in Bills, NEW to \in Bill!Final, Bill!StaleTap(o, to) PROVE Bill!BillInv'
  <2> DEFINE new == [status |-> IF to = "delivered" THEN "open" ELSE "paid", lines |-> to]
  <2>1. /\ due[o].status = "paid" /\ UNCHANGED <<bill, answers, late>>
        /\ due' = [due EXCEPT ![o] = new] /\ undone' = undone \union {o}
    BY <1>4 DEF Bill!StaleTap, Bill!pageVars
  <2>2. new \in BilledOrder /\ new.status # "none" /\ new.lines = to /\ to # "none"
    BY DEF BilledOrder, Bill!Final
  <2> HIDE DEF new
  <2> QED BY <2>1, <2>2, OneBilledOrder
\* What holds of the page's lists now.
<1>p. /\ Bill!Told(bill.orders)
      /\ bill.orders = Bill!FreshPage.orders \/ Bill!Complete(bill.orders)
      /\ \A a \in answers : Bill!Told(a) /\ Bill!Complete(a)
      /\ bill.feedbackOpen => \E o \in Bills : due[o].status = "paid" \/ o \in undone
  BY DEF Bill!BillInv, Bill!ListsAreTrue
<1>5. ASSUME Bill!LoadOrders PROVE Bill!BillInv'
  <2>1. answers' = answers \union {Bill!BillNow} /\ bill' = bill /\ due' = due /\ undone' = undone /\ late' = late
    BY <1>5 DEF Bill!LoadOrders
  <2>2. \A a \in answers' : Bill!Told(a) /\ Bill!Complete(a)
    BY <1>p, <2>1, BillReadNow
  <2> QED BY <1>p, <2>1, <2>2, BillPageMoves
<1>6. ASSUME NEW l, Bill!Told(l), Bill!Complete(l), bill' = [bill EXCEPT !.orders = l],
             answers' \subseteq answers, UNCHANGED <<due, undone, late>>
      PROVE  Bill!BillInv'
  <2>1. /\ DOMAIN bill' = DOMAIN bill /\ bill'.orders = l
        /\ bill'.feedbackOpen = bill.feedbackOpen
    BY <1>6 DEF Bill!BillInv, Bill!BillTypeOK, Bill!FreshPage
  <2>2. /\ Bill!Told(bill'.orders) /\ Bill!Complete(bill'.orders)
        /\ \A a \in answers' : Bill!Told(a) /\ Bill!Complete(a)
    BY <1>p, <1>6, <2>1
  <2>3. bill'.feedbackOpen => \E o \in Bills : due[o].status = "paid" \/ o \in undone
    BY <1>p, <2>1
  <2>4. due' = due /\ undone' = undone /\ late' = late
    BY <1>6
  <2> QED BY <2>1, <2>2, <2>3, <2>4, BillPageMoves
<1>7. ASSUME NEW a \in answers, Bill!OrdersArrive(a) PROVE Bill!BillInv'
  BY <1>6, <1>7 DEF Bill!OrdersArrive, Bill!BillInv, Bill!ListsAreTrue
<1>8. ASSUME Bill!LoadsAtOnce PROVE Bill!BillInv'
  BY <1>6, <1>8, BillReadNow DEF Bill!LoadsAtOnce
<1>9. ASSUME NEW v, UNCHANGED <<answers, due, undone, late>>, bill' = [bill EXCEPT !.paying = v]
      PROVE  Bill!BillInv'
  <2>1. /\ DOMAIN bill' = DOMAIN bill /\ bill'.orders = bill.orders
        /\ bill'.feedbackOpen = bill.feedbackOpen
    BY <1>9 DEF Bill!BillInv, Bill!BillTypeOK, Bill!FreshPage
  <2>2. answers' = answers /\ due' = due /\ undone' = undone /\ late' = late
    BY <1>9
  <2> QED BY <1>p, <2>1, <2>2, BillPageMoves
<1>10. ASSUME Bill!PayOnline \/ Bill!PayRefused PROVE Bill!BillInv'
  BY <1>9, <1>10 DEF Bill!PayOnline, Bill!PayRefused, Bill!Keeps
<1>11. ASSUME Bill!CheckoutOpens \/ Bill!OpenAgain PROVE Bill!BillInv'
  <2>1. bill' = Bill!FreshPage /\ answers' = {} /\ late' = {} /\ due' = due /\ undone' = undone
    BY <1>11 DEF Bill!CheckoutOpens, Bill!OpenAgain, Bill!Mounts
  <2>2. Bill!Told(Bill!FreshPage.orders) /\ ~Bill!FreshPage.feedbackOpen
    BY DEF Bill!Told, Bill!FreshPage, Bill!Unplaced, Bill!Final
  <2>3. DOMAIN bill' = DOMAIN bill
    BY <2>1 DEF Bill!BillInv, Bill!BillTypeOK
  <2> HIDE DEF Bill!FreshPage
  <2>4. bill'.orders = Bill!FreshPage.orders /\ ~bill'.feedbackOpen /\ Bill!Told(bill'.orders)
    BY <2>1, <2>2
  <2> QED BY <2>1, <2>3, <2>4, BillPageMoves
<1>12. ASSUME Bill!OpenFeedback PROVE Bill!BillInv'
  <2>1. /\ Bill!AllPaid /\ bill' = [bill EXCEPT !.feedbackOpen = TRUE]
        /\ answers' = answers /\ due' = due /\ undone' = undone /\ late' = late
    BY <1>12 DEF Bill!OpenFeedback, Bill!FeedbackCard, Bill!Keeps
  <2>2. DOMAIN bill' = DOMAIN bill /\ bill'.orders = bill.orders
    BY <2>1 DEF Bill!BillInv, Bill!BillTypeOK, Bill!FreshPage
  <2>3. \E o \in Bills : due[o].status = "paid" \/ o \in undone
    BY <2>1 DEF Bill!AllPaid, Bill!Listed, Bill!BillInv, Bill!ListsAreTrue, Bill!Told
  <2> QED BY <1>p, <2>1, <2>2, <2>3, BillPageMoves
<1>13. ASSUME Bill!SubmitFeedback PROVE Bill!BillInv'
  <2>1. /\ bill' = [bill EXCEPT !.feedbackOpen = FALSE]
        /\ answers' = answers /\ due' = due /\ undone' = undone /\ late' = late
    BY <1>13 DEF Bill!SubmitFeedback, Bill!Keeps
  <2>2. DOMAIN bill' = DOMAIN bill /\ bill'.orders = bill.orders /\ ~bill'.feedbackOpen
    BY <2>1 DEF Bill!BillInv, Bill!BillTypeOK, Bill!FreshPage
  <2> QED BY <1>p, <2>1, <2>2, BillPageMoves
<1>14. ASSUME UNCHANGED Bill!billing PROVE Bill!BillInv'
  <2>1. /\ bill' = bill /\ answers' = answers
        /\ due' = due /\ undone' = undone /\ late' = late
    BY <1>14 DEF Bill!billing
  <2> QED BY <1>p, <2>1, BillPageMoves
<1> QED BY <1>1, <1>2, <1>3, <1>4, <1>5, <1>7, <1>8, <1>10, <1>11, <1>12, <1>13, <1>14
           DEF Bill!BillNext

LEMMA BillSafe == Bill!BillInv => Bill!GoodbyeIsTrue
<1> SUFFICES ASSUME Bill!BillInv PROVE Bill!GoodbyeIsTrue
  OBVIOUS
<1>1. ASSUME Bill!Heading = "Your Night, Settled",
             NEW o \in Bill!Listed \union (Bills \ late)
      PROVE  due[o] = Bill!Unplaced \/ Bill!IsSettled(o) \/ o \in undone
  <2>1. Bill!AllPaid /\ ~Bill!StillComing
    BY <1>1 DEF Bill!Heading
  <2>2. CASE o \in Bill!Listed
    <3>1. bill.orders[o].status = "paid" /\ bill.orders[o].lines # "coming" /\ o \in Bills
      BY <2>1, <2>2 DEF Bill!AllPaid, Bill!StillComing, Bill!Listed
    <3>2. bill.orders[o].lines \in Bill!Final
      BY <3>1 DEF Bill!BillInv, Bill!ListsAreTrue, Bill!Told, Bill!Final
    <3>3. /\ due[o].status = "paid" \/ o \in undone
          /\ due[o].lines = bill.orders[o].lines \/ o \in undone
      BY <3>1, <3>2 DEF Bill!BillInv, Bill!ListsAreTrue, Bill!Told
    <3> QED BY <3>1, <3>2, <3>3 DEF Bill!BillInv, Bill!BillTypeOK, Bill!Final, Bill!IsSettled
  <2>3. CASE o \notin Bill!Listed
    <3>1. o \in Bills /\ o \notin late /\ bill.orders[o].status = "none"
      BY <1>1, <2>3 DEF Bill!Listed
    <3>2. bill.orders # Bill!FreshPage.orders
      BY <2>1 DEF Bill!AllPaid, Bill!Listed, Bill!FreshPage, Bill!Unplaced
    <3>3. due[o].status = "none"
      BY <3>1, <3>2 DEF Bill!BillInv, Bill!ListsAreTrue, Bill!Complete
    <3>4. due[o].lines = "none" /\ due[o] = [status |-> due[o].status, lines |-> due[o].lines]
      BY <3>1, <3>3 DEF Bill!BillInv, Bill!BillTypeOK
    <3> QED BY <3>3, <3>4 DEF Bill!Unplaced
  <2> QED BY <2>2, <2>3
<1> QED BY <1>1 DEF Bill!GoodbyeIsTrue, Bill!BillInv, Bill!ListsAreTrue

\* Whatever bills a night has: the bill page says goodbye only over orders that are
\* paid and served, however its answers cross, unless the venue took that back or
\* the round was placed with the page open (bill page:120-129).
THEOREM GoodbyeHolds == Spec => []GoodbyeIsTrue
<1>1. Init => Bill!BillInv
  BY BillStart DEF Init
<1>2. Bill!BillInv /\ [Next]_vars => Bill!BillInv'
  <2> SUFFICES ASSUME Bill!BillInv, [Next]_vars PROVE Bill!BillInv'
    OBVIOUS
  <2>1. Bill!BillNext \/ UNCHANGED Bill!billing
    BY DEF Next, Only, vars, billVars, Bill!billing
  <2> QED BY <2>1, BillStep
<1>3. Bill!BillInv => GoodbyeIsTrue
  BY BillSafe DEF GoodbyeIsTrue
<1> QED BY <1>1, <1>2, <1>3, PTL DEF Spec

-----------------------------------------------------------------------------
\* The orders the attendant serves.
\* The floor: what is served is billed, or was served blindly.
LEMMA FloorStart == Floor!FloorInit => Floor!FloorInv
  BY DEF Floor!FloorInit, Floor!FloorInv, Floor!FloorTypeOK, Floor!BilledUntilVoid,
     Floor!PlacedAsAWhole, Floor!TapsAreBlind, Floor!ServedIsBilled, Floor!Unplaced

\* What a status write changes: the line, and the order's status if it is not paid.
LEMMA FloorWritten ==
  ASSUME Floor!FloorTypeOK, NEW o \in Orders,
         NEW onto \in {"pending", "ready", "delivered", "cancelled"},
         running' = Floor!Written(o, onto), pad' = pad
  PROVE  /\ Floor!FloorTypeOK'
         /\ \A p \in Orders : p # o => running'[p] = running[p]
         /\ running'[o].line = onto /\ running'[o].billed = running[o].billed
<1> USE DEF Floor!FloorTypeOK
<1> DEFINE was   == running[o].status
           after == IF was # "paid" /\ onto = "delivered" THEN "fully_served" ELSE was
           outcome == [status |-> after, line |-> onto, billed |-> running[o].billed]
<1>1. /\ was \in {"none", "open", "fully_served", "paid"} /\ running[o].billed \in {0, 1}
      /\ running[o] = [status |-> was, line |-> running[o].line, billed |-> running[o].billed]
  OBVIOUS
<1>2. running' = [running EXCEPT ![o] = outcome]
  BY DEF Floor!Written
<1>3. outcome \in [status : {"none", "open", "fully_served", "paid"},
               line : {"none", "pending", "ready", "delivered", "cancelled"}, billed : {0, 1}]
  <2>1. after \in {"none", "open", "fully_served", "paid"}
    BY <1>1
  <2> HIDE DEF after
  <2> QED BY <1>1, <2>1
<1>4. outcome.line = onto /\ outcome.billed = running[o].billed
  OBVIOUS
<1> HIDE DEF outcome
<1>5. running'[o] = outcome /\ \A p \in Orders : p # o => running'[p] = running[p]
  BY <1>2
<1>6. Floor!FloorTypeOK'
  BY <1>2, <1>3
<1> QED BY <1>4, <1>5, <1>6

LEMMA FloorStep ==
  Floor!FloorInv /\ (Floor!FloorNext \/ UNCHANGED Floor!floorDesk) => Floor!FloorInv'
<1> SUFFICES ASSUME Floor!FloorInv, Floor!FloorNext \/ UNCHANGED Floor!floorDesk
             PROVE Floor!FloorInv'
  OBVIOUS
<1> USE DEF Floor!FloorInv, Floor!FloorTypeOK, Floor!BilledUntilVoid, Floor!TapsAreBlind,
      Floor!PlacedAsAWhole, Floor!ServedIsBilled
<1>1. ASSUME UNCHANGED <<running, patches, blind>>, DOMAIN pad' = DOMAIN pad
      PROVE Floor!FloorInv'
  BY <1>1
<1>2. ASSUME NEW o \in Orders, Floor!RoundPlaced(o) PROVE Floor!FloorInv'
  BY <1>2 DEF Floor!RoundPlaced, Floor!Unplaced
<1>3. ASSUME NEW o \in Orders, NEW onto \in {"pending", "ready", "delivered"},
             Floor!StationWrites(o, onto)
      PROVE Floor!FloorInv'
  <2>1. /\ running' = Floor!Written(o, onto) /\ UNCHANGED <<pad, patches>>
        /\ blind' = IF running[o].line = "cancelled" THEN blind \union {o} ELSE blind
        /\ running[o] # Floor!Unplaced
    BY <1>3 DEF Floor!StationWrites
  <2>2. Floor!FloorTypeOK' /\ \A p \in Orders : p # o => running'[p] = running[p]
    BY <2>1, FloorWritten
  <2>3. running'[o].line = onto /\ running'[o].billed = running[o].billed
    BY <2>1, FloorWritten
  <2>4. running[o].line # "none"
    BY <2>1 DEF Floor!PlacedAsAWhole
  <2>5. running[o].billed = 0 => o \in blind'
    BY <2>1, <2>4
  <2> QED BY <2>1, <2>2, <2>3, <2>5
<1>4. ASSUME NEW o \in Orders, Floor!LineVoided(o) PROVE Floor!FloorInv'
  BY <1>4 DEF Floor!LineVoided
<1>5. ASSUME NEW o \in Orders, Floor!OrderPaid(o) PROVE Floor!FloorInv'
  <2>1. /\ running' = [running EXCEPT ![o].status = "paid"] /\ running[o].billed > 0
        /\ running[o].status # "none" /\ UNCHANGED <<pad, patches, blind>>
    BY <1>5 DEF Floor!OrderPaid
  <2>2. running[o].line # "none"
    BY <2>1 DEF Floor!Unplaced
  <2>3. /\ Floor!FloorTypeOK' /\ \A p \in Orders : p # o => running'[p] = running[p]
        /\ running'[o].line = running[o].line /\ running'[o].billed = running[o].billed
    BY <2>1
  <2> QED BY <2>1, <2>2, <2>3
<1>6. ASSUME NEW o \in Orders, Floor!LineServed(o) PROVE Floor!FloorInv'
  <2>1. /\ running' = Floor!Written(o, "delivered") /\ UNCHANGED <<pad, blind>>
        /\ o \in patches /\ patches' = patches \ {o}
    BY <1>6 DEF Floor!LineServed
  <2>2. Floor!FloorTypeOK' /\ \A p \in Orders : p # o => running'[p] = running[p]
    BY <2>1, FloorWritten
  <2>3. running'[o].line = "delivered" /\ running'[o].billed = running[o].billed
    BY <2>1, FloorWritten
  <2> QED BY <2>1, <2>2, <2>3
<1>7. ASSUME NEW o \in Orders, Floor!ServeFails(o) PROVE Floor!FloorInv'
  BY <1>7 DEF Floor!ServeFails
<1>8. ASSUME NEW o \in Orders, Floor!MarkDelivered(o) PROVE Floor!FloorInv'
  BY <1>8 DEF Floor!MarkDelivered, Floor!ServedButton
<1>9. ASSUME NEW t, Floor!OpenTable(t) PROVE Floor!FloorInv'
  BY <1>1, <1>9 DEF Floor!OpenTable
<1>10. ASSUME Floor!CloseTable \/ Floor!LoadOrders PROVE Floor!FloorInv'
  BY <1>1, <1>10 DEF Floor!CloseTable, Floor!LoadOrders
<1>11. ASSUME NEW l, Floor!OrdersArrive(l) \/ Floor!OrdersFail(l) PROVE Floor!FloorInv'
  BY <1>1, <1>11 DEF Floor!OrdersArrive, Floor!OrdersFail
<1>12. ASSUME UNCHANGED Floor!floorDesk PROVE Floor!FloorInv'
  BY <1>1, <1>12 DEF Floor!floorDesk
<1> QED BY <1>2, <1>3, <1>4, <1>5, <1>6, <1>7, <1>8, <1>9, <1>10, <1>11, <1>12
           DEF Floor!FloorNext

\* For any orders: a served line that is not on the bill was tapped, on the floor or
\* at a station, on a list that was behind or before a void overtook it
\* (orders.py:256).
THEOREM ServedIsOnBill == Spec => []ServedIsBilled
<1>1. Init => Floor!FloorInv
  BY FloorStart DEF Init
<1>2. Floor!FloorInv /\ [Next]_vars => Floor!FloorInv'
  <2> SUFFICES ASSUME Floor!FloorInv, [Next]_vars PROVE Floor!FloorInv'
    OBVIOUS
  <2>1. Floor!FloorNext \/ UNCHANGED Floor!floorDesk
    BY DEF Next, Only, vars, floorVars, Floor!floorDesk
  <2> QED BY <2>1, FloorStep
<1>3. Floor!FloorInv => ServedIsBilled
  BY DEF Floor!FloorInv, ServedIsBilled
<1> QED BY <1>1, <1>2, <1>3, PTL DEF Spec

-----------------------------------------------------------------------------
\* The headcount on an order's card.
LEMMA PickerStart == Covers!PickerInit => Covers!PickerInv
<1> SUFFICES ASSUME Covers!PickerInit PROVE Covers!PickerInv
  OBVIOUS
<1>1. /\ covers = 0 /\ headcount = 0 /\ reads = {} /\ countsRaced = FALSE
      /\ save = [next |-> 0, previous |-> 0, at |-> "none"] /\ ~Covers!Busy
  BY DEF Covers!PickerInit, Covers!Busy, Covers!NoSave, Covers!Unset
<1>2. covers \in Nat /\ headcount \in Nat /\ reads \subseteq Nat
      /\ save \in [next : Nat, previous : Nat, at : {"none", "sent", "saved"}]
  BY <1>1
<1>3. countsRaced \in BOOLEAN
  BY <1>1
<1>4. Covers!PickerTypeOK
  BY <1>1, <1>2, <1>3, Zenon DEF Covers!PickerTypeOK
<1>5. Covers!InStep /\ Covers!NumbersFit
  BY <1>1 DEF Covers!InStep, Covers!NumbersFit, Covers!Unset
<1> QED BY <1>4, <1>5 DEF Covers!PickerInv

LEMMA SetKeeps ==
  ASSUME Covers!PickerInv, NEW n \in Nat, n # Covers!Unset => Covers!InRange(n), Covers!Set(n)
  PROVE  Covers!PickerInv'
<1>1. /\ ~Covers!Busy /\ save' = [next |-> n, previous |-> covers, at |-> "sent"] /\ covers' = n
      /\ UNCHANGED <<headcount, reads>>
  BY DEF Covers!Set
<1>2. save'.next = n /\ save'.previous = covers /\ save'.at = "sent" /\ Covers!Busy'
  BY <1>1 DEF Covers!Busy, Covers!NoSave
<1>3. covers' \in Nat /\ headcount' \in Nat /\ reads' \subseteq Nat
        /\ save' \in [next : Nat, previous : Nat, at : {"none", "sent", "saved"}]
  BY <1>1 DEF Covers!PickerInv, Covers!PickerTypeOK
<1>4. countsRaced' = (countsRaced \/ reads # {})
  BY DEF Covers!Set
<1>5. countsRaced' \in BOOLEAN
  BY <1>4, Zenon
<1>6. Covers!PickerTypeOK'
  BY <1>2, <1>3, <1>5 DEF Covers!PickerTypeOK
<1>7. Covers!InStep'
  <2>1. ~countsRaced' => covers = headcount /\ reads = {}
    BY <1>1, <1>4 DEF Covers!PickerInv, Covers!InStep
  <2>2. CASE countsRaced'
    BY <2>2 DEF Covers!InStep
  <2>3. CASE ~countsRaced'
    BY <2>1, <2>3, <1>1, <1>2 DEF Covers!InStep
  <2> QED BY <2>2, <2>3
<1>8. Covers!NumbersFit'
  BY <1>1, <1>2 DEF Covers!PickerInv, Covers!NumbersFit, Covers!InRange, Covers!Unset
<1> QED BY <1>6, <1>7, <1>8 DEF Covers!PickerInv

LEMMA PickerStep ==
  ASSUME Chips \subseteq 1 .. 200, Typed \subseteq Nat, Covers!PickerInv,
         Covers!PickerNext \/ UNCHANGED Covers!picker
  PROVE  Covers!PickerInv'
<1> USE DEF Covers!PickerInv
<1>1. ASSUME NEW n \in Chips, Covers!TapChip(n) PROVE Covers!PickerInv'
  <2>1. PICK m \in {Covers!Unset, n} : Covers!Set(m)
    BY <1>1 DEF Covers!TapChip
  <2>2. m \in Nat /\ (m # Covers!Unset => Covers!InRange(m))
    BY <2>1 DEF Covers!Unset, Covers!InRange
  <2> QED BY <2>1, <2>2, SetKeeps
<1>2. ASSUME UNCHANGED <<covers, save, headcount, reads, countsRaced>> PROVE Covers!PickerInv'
  BY <1>2 DEF Covers!PickerTypeOK, Covers!InStep, Covers!NumbersFit, Covers!Busy
<1>3. ASSUME NEW n \in Typed \union {Covers!Unset}, Covers!LeaveBox(n) PROVE Covers!PickerInv'
  <2>1. CASE Covers!Busy
    BY <1>2, <1>3, <2>1 DEF Covers!LeaveBox, Covers!picker
  <2>2. CASE ~Covers!Busy /\ (n = Covers!Unset \/ Covers!InRange(n))
    <3>1. n \in Nat
      BY DEF Covers!Unset
    <3>2. Covers!Set(n)
      BY <1>3, <2>2, Zenon DEF Covers!LeaveBox
    <3> QED BY <3>1, <3>2, <2>2, SetKeeps
  <2>3. CASE ~Covers!Busy /\ ~(n = Covers!Unset \/ Covers!InRange(n))
    BY <1>2, <1>3, <2>3 DEF Covers!LeaveBox
  <2> QED BY <2>1, <2>2, <2>3
<1>4. ASSUME Covers!OpenBox \/ UNCHANGED Covers!picker PROVE Covers!PickerInv'
  BY <1>2, <1>4 DEF Covers!OpenBox, Covers!picker
<1>5. ASSUME Covers!Saved PROVE Covers!PickerInv'
  <2>1. /\ save.at = "sent" /\ headcount' = save.next /\ save' = [save EXCEPT !.at = "saved"]
        /\ UNCHANGED <<covers, reads, countsRaced>>
    BY <1>5 DEF Covers!Saved
  <2>2. save'.next = save.next /\ save'.previous = save.previous /\ save'.at = "saved"
    BY <2>1 DEF Covers!PickerTypeOK
  <2>3. save' \in [next : Nat, previous : Nat, at : {"none", "sent", "saved"}] /\ headcount' \in Nat
    BY <2>1 DEF Covers!PickerTypeOK
  <2>4. Covers!Busy /\ Covers!Busy'
    BY <2>1, <2>2 DEF Covers!Busy, Covers!NoSave
  <2>5. Covers!PickerTypeOK'
    BY <2>1, <2>2, <2>3 DEF Covers!PickerTypeOK
  <2>6. Covers!InStep'
    <3>1. CASE countsRaced
      BY <3>1, <2>1 DEF Covers!InStep
    <3>2. CASE ~countsRaced
      <4>1. reads = {} /\ covers = save.next
        BY <3>2, <2>4 DEF Covers!InStep
      <4> QED BY <4>1, <2>1, <2>2, <2>4 DEF Covers!InStep
    <3> QED BY <3>1, <3>2
  <2>7. Covers!NumbersFit'
    BY <2>1, <2>2 DEF Covers!NumbersFit
  <2> QED BY <2>5, <2>6, <2>7
<1>6. ASSUME Covers!SaveAnswered PROVE Covers!PickerInv'
  <2>1. save.at = "saved" /\ save' = Covers!NoSave /\ UNCHANGED <<covers, headcount, reads,
          countsRaced>>
    BY <1>6 DEF Covers!SaveAnswered
  <2>2. Covers!Busy /\ ~Covers!Busy'
    BY <2>1 DEF Covers!Busy, Covers!NoSave
  <2>3. Covers!PickerTypeOK'
    BY <2>1, <2>2 DEF Covers!PickerTypeOK, Covers!NoSave, Covers!Unset
  <2>4. Covers!InStep'
    BY <2>1, <2>2 DEF Covers!InStep
  <2>5. Covers!NumbersFit'
    BY <2>1 DEF Covers!NumbersFit, Covers!NoSave, Covers!Unset
  <2> QED BY <2>3, <2>4, <2>5
<1>7. ASSUME Covers!SaveFails PROVE Covers!PickerInv'
  <2>1. /\ Covers!Busy /\ covers' = save.previous /\ save' = Covers!NoSave
             /\ UNCHANGED <<headcount, reads>>
        /\ countsRaced' = (countsRaced \/ save.at = "saved")
    BY <1>7 DEF Covers!SaveFails, Covers!RolledBack
  <2>2. ~Covers!Busy'
    BY <2>1 DEF Covers!Busy
  <2>3. save' \in [next : Nat, previous : Nat, at : {"none", "sent", "saved"}]
          /\ save'.next = Covers!Unset
    BY <2>1 DEF Covers!NoSave, Covers!Unset
  <2>4. countsRaced' \in BOOLEAN
    BY <2>1, Zenon
  <2>5. Covers!PickerTypeOK'
    BY <2>1, <2>2, <2>3, <2>4 DEF Covers!PickerTypeOK
  <2>6. Covers!InStep'
    <3>1. CASE countsRaced'
      BY <3>1 DEF Covers!InStep
    <3>2. CASE ~countsRaced'
      <4>1. save.at = "sent" /\ ~countsRaced
        BY <3>2, <2>1 DEF Covers!PickerTypeOK
      <4>2. reads = {} /\ save.previous = headcount
        BY <4>1, <2>1 DEF Covers!InStep
      <4> QED BY <4>2, <2>1, <2>2 DEF Covers!InStep
    <3> QED BY <3>1, <3>2
  <2>7. Covers!NumbersFit'
    BY <2>1, <2>3 DEF Covers!NumbersFit
  <2> QED BY <2>5, <2>6, <2>7
<1>8. ASSUME Covers!LoadOrders PROVE Covers!PickerInv'
  <2>1. /\ reads' = reads \union {headcount} /\ UNCHANGED <<covers, save, headcount>>
        /\ countsRaced' = (countsRaced \/ Covers!Busy \/ reads # {})
    BY <1>8 DEF Covers!LoadOrders
  <2>2. countsRaced' \in BOOLEAN /\ Covers!Busy' = Covers!Busy
    BY <2>1, Zenon DEF Covers!Busy
  <2>3. Covers!PickerTypeOK'
    BY <2>1, <2>2 DEF Covers!PickerTypeOK
  <2>4. Covers!InStep'
    <3>1. CASE countsRaced'
      BY <3>1 DEF Covers!InStep
    <3>2. CASE ~countsRaced'
      BY <3>2, <2>1, <2>2 DEF Covers!InStep
    <3> QED BY <3>1, <3>2
  <2>5. Covers!NumbersFit'
    BY <2>1 DEF Covers!NumbersFit
  <2> QED BY <2>3, <2>4, <2>5
<1>9. ASSUME NEW r \in reads, Covers!OrdersArrive(r) PROVE Covers!PickerInv'
  <2>1. /\ covers' = r /\ reads' = reads \ {r} /\ UNCHANGED <<save, headcount>>
        /\ countsRaced' = (countsRaced /\ (Covers!Busy \/ r # headcount \/ reads # {r}))
    BY <1>9 DEF Covers!OrdersArrive
  <2>2. r \in Nat /\ Covers!Busy' = Covers!Busy
    BY <2>1 DEF Covers!PickerTypeOK, Covers!Busy
  <2>3. countsRaced' \in BOOLEAN
    BY <2>1, Zenon DEF Covers!PickerTypeOK
  <2>4. Covers!PickerTypeOK'
    BY <2>1, <2>2, <2>3 DEF Covers!PickerTypeOK
  <2>5. Covers!InStep'
    <3>1. CASE countsRaced'
      BY <3>1 DEF Covers!InStep
    <3>2. CASE ~countsRaced'
      <4>1. ~Covers!Busy /\ r = headcount /\ reads = {r}
        <5>1. CASE countsRaced
          BY <5>1, <3>2, <2>1, Zenon
        <5>2. CASE ~countsRaced
          BY <5>2, <2>1 DEF Covers!InStep
        <5> QED BY <5>1, <5>2
      <4>2. covers' = headcount' /\ reads' = {} /\ ~Covers!Busy'
        BY <4>1, <2>1, <2>2
      <4> QED BY <4>2 DEF Covers!InStep
    <3> QED BY <3>1, <3>2
  <2>6. Covers!NumbersFit'
    BY <2>1 DEF Covers!NumbersFit
  <2> QED BY <2>4, <2>5, <2>6
<1> QED BY <1>1, <1>2, <1>3, <1>4, <1>5, <1>6, <1>7, <1>8, <1>9 DEF Covers!PickerNext

LEMMA PickerSafe == Covers!PickerInv => Covers!ShownIsSaved
  BY DEF Covers!PickerInv, Covers!InStep, Covers!NumbersFit, Covers!ShownIsSaved, Covers!Busy

\* For any chips and numbers: with nothing under way the card shows the headcount the
\* venue has, unless a list crossed a PATCH or an answer was lost (CoversPicker.tsx:43-60).
THEOREM CountShownIsSaved == Spec => []ShownIsSaved
<1>1. Init => Covers!PickerInv
  BY PickerStart, CountsAreNumbers DEF Init
<1>2. Covers!PickerInv /\ [Next]_vars => Covers!PickerInv'
  <2> SUFFICES ASSUME Covers!PickerInv, [Next]_vars PROVE Covers!PickerInv'
    OBVIOUS
  <2>1. Covers!PickerNext \/ UNCHANGED Covers!picker
    BY DEF Next, Only, vars, coversVars, Covers!picker
  <2> QED BY <2>1, PickerStep, CountsAreNumbers
<1>3. Covers!PickerInv => ShownIsSaved
  BY PickerSafe, CountsAreNumbers DEF ShownIsSaved
<1> QED BY <1>1, <1>2, <1>3, PTL DEF Spec

-----------------------------------------------------------------------------
\* The guests' calls on the attendant's screen.
\* No call is none of the calls, and the screen counts as FiniteSets does.
LEMMA NoCallIsNone == Summons!NoCall \notin Calls
  BY CallsAreNamed DEF Summons!NoCall
LEMMA CountsAlike == \A S : Summons!Cardinality(S) = Cardinality(S)
  BY DEF Summons!Cardinality, Cardinality

LEMMA CallsStart == Summons!NoCall \notin Calls /\ Summons!CallsInit => Summons!CallsInv
  BY DEF Summons!CallsInit, Summons!CallsInv, Summons!CallsTypeOK, Summons!RangAndHeard,
     Summons!ListIsFresh, Summons!Waiting, Summons!Stages

LEMMA FreshList ==
  ASSUME MaxAlertLists \in Nat \ {0}, Summons!CallsTypeOK, Summons!ListIsFresh, Summons!Reloads,
         DOMAIN alert' = Calls,
         alert' \in [Calls -> Summons!Stages], floor'.list = floor.list
  PROVE  Summons!ListIsFresh'
<1> SUFFICES ASSUME ~behind' PROVE alertLists' = {alert'}
  BY DEF Summons!ListIsFresh
<1>1. ~behind /\ alertLists = {}
  BY DEF Summons!Reloads
<1>2. Summons!Snapshot = alert'
  BY DEF Summons!Snapshot
<1>3. Cardinality(alertLists) < MaxAlertLists
  BY <1>1, FS_EmptySet
<1> QED BY <1>1, <1>2, <1>3, CountsAlike DEF Summons!Reloads, Summons!Asked

LEMMA CallsStep ==
  ASSUME MaxAlertLists \in Nat \ {0}, Summons!CallsInv,
         Summons!CallsNext \/ UNCHANGED Summons!callDesk
  PROVE  Summons!CallsInv'
<1> USE DEF Summons!CallsInv
<1>1. ASSUME NEW c \in Calls, Summons!TakesScreen(c)
      PROVE  /\ floor'.summons = c /\ floor'.list = floor.list /\ DOMAIN floor' = DOMAIN floor
             /\ let \subseteq let'
                  /\ (Summons!Screen \in {Summons!NoCall, c} \/ Summons!Screen \in let')
  BY <1>1 DEF Summons!TakesScreen, Summons!Summoned, Summons!CallsTypeOK, Summons!Screen
<1>2. ASSUME NEW c \in Calls, Summons!NewAlert(c) PROVE Summons!CallsInv'
  <2>1. /\ alert[c] = "none" /\ alert' = [alert EXCEPT ![c] = "pending"] /\ acks' = acks
        /\ IF c \in Mine THEN Summons!TakesScreen(c) ELSE UNCHANGED <<floor, let>>
    BY <1>2 DEF Summons!NewAlert
  <2>2. alert' \in [Calls -> Summons!Stages]
    BY <2>1 DEF Summons!CallsTypeOK, Summons!Stages
  <2>3. DOMAIN floor' = DOMAIN floor /\ floor'.list = floor.list
    BY <1>1, <2>1
  <2>4. Summons!CallsTypeOK'
    BY <2>1, <2>2, <2>3 DEF Summons!CallsTypeOK
  <2>5. Summons!RangAndHeard'
    <3>1. CASE c \in Mine
      BY <3>1, <1>1, <2>1, <2>2 DEF Summons!RangAndHeard, Summons!Waiting, Summons!Screen,
         Summons!CallsTypeOK
    <3>2. CASE c \notin Mine
      BY <3>2, <2>1, <2>2 DEF Summons!RangAndHeard, Summons!Waiting, Summons!Screen,
         Summons!CallsTypeOK
    <3> QED BY <3>1, <3>2
  <2>6. Summons!ListIsFresh'
    BY <1>2, <2>2, <2>3, FreshList DEF Summons!NewAlert
  <2> QED BY <2>4, <2>5, <2>6
<1>3. ASSUME NEW c \in Calls, Summons!AlertEscalated(c) PROVE Summons!CallsInv'
  <2>1. /\ alert' = [alert EXCEPT ![c] = "escalated"] /\ acks' = acks /\ Summons!TakesScreen(c)
    BY <1>3 DEF Summons!AlertEscalated
  <2>2. alert' \in [Calls -> Summons!Stages]
    BY <2>1 DEF Summons!CallsTypeOK, Summons!Stages
  <2>3. DOMAIN floor' = DOMAIN floor /\ floor'.list = floor.list
    BY <1>1, <2>1
  <2>4. Summons!CallsTypeOK'
    BY <2>1, <2>2, <2>3 DEF Summons!CallsTypeOK
  <2>5. Summons!RangAndHeard'
    BY <1>1, <2>1, <2>2 DEF Summons!RangAndHeard, Summons!Waiting, Summons!Screen,
       Summons!CallsTypeOK
  <2>6. Summons!ListIsFresh'
    BY <1>3, <2>2, <2>3, FreshList DEF Summons!AlertEscalated
  <2> QED BY <2>4, <2>5, <2>6
<1>4. ASSUME NEW c \in Calls, Summons!AcknowledgedElsewhere(c) PROVE Summons!CallsInv'
  <2>1. alert' = [alert EXCEPT ![c] = "theirs"] /\ UNCHANGED <<floor, acks, let>>
    BY <1>4 DEF Summons!AcknowledgedElsewhere
  <2>2. alert' \in [Calls -> Summons!Stages]
    BY <2>1 DEF Summons!CallsTypeOK, Summons!Stages
  <2>3. Summons!CallsTypeOK'
    BY <2>1, <2>2 DEF Summons!CallsTypeOK
  <2>4. Summons!RangAndHeard'
    BY <2>1, <2>2 DEF Summons!RangAndHeard, Summons!Waiting, Summons!Screen, Summons!CallsTypeOK
  <2>5. Summons!ListIsFresh'
    BY <1>4, <2>1, <2>2, FreshList DEF Summons!AcknowledgedElsewhere
  <2> QED BY <2>3, <2>4, <2>5
<1>5. ASSUME UNCHANGED <<alertLists, alert, behind, acks, let>>, DOMAIN floor' = DOMAIN floor,
             floor'.summons = floor.summons, floor'.list = floor.list
      PROVE  Summons!CallsInv'
  BY <1>5 DEF Summons!CallsTypeOK, Summons!RangAndHeard, Summons!ListIsFresh, Summons!Waiting,
     Summons!Screen
<1>6. ASSUME NEW b, Summons!StationReady(b) PROVE Summons!CallsInv'
  <2>1. UNCHANGED <<alertLists, alert, behind, acks, let>> /\ floor' = [floor EXCEPT !.buzz = b]
    BY <1>6 DEF Summons!StationReady
  <2> QED BY <1>5, <2>1 DEF Summons!CallsTypeOK
<1>7. ASSUME Summons!DismissBuzz \/ Summons!UnlockSound PROVE Summons!CallsInv'
  <2>1. /\ UNCHANGED <<alertLists, alert, behind, acks, let>>
        /\ floor' = [floor EXCEPT !.buzz = Summons!NoCall]
             \/ floor' = [floor EXCEPT !.soundOn = TRUE]
    BY <1>7 DEF Summons!DismissBuzz, Summons!UnlockSound, Summons!Page
  <2> QED BY <1>5, <2>1 DEF Summons!CallsTypeOK
<1>8. ASSUME Summons!OnMyWay PROVE Summons!CallsInv'
  <2>1. /\ floor' = [floor EXCEPT !.summons = Summons!NoCall] /\ UNCHANGED <<alertLists, alert,
             behind, let>>
    BY <1>8 DEF Summons!OnMyWay, Summons!Page
  <2> DEFINE ack == [call |-> Summons!Screen, to |-> "mine", summons |-> TRUE]
  <2>9. acks' = acks \union {ack}
    BY <1>8 DEF Summons!OnMyWay
  <2>0. ack.to = "mine" /\ ack.call = Summons!Screen /\ ack.summons
    OBVIOUS
  <2> HIDE DEF ack
  <2>2. DOMAIN floor' = DOMAIN floor /\ floor'.list = floor.list /\ floor'.summons = Summons!NoCall
    BY <2>1 DEF Summons!CallsTypeOK
  <2>3. Summons!CallsTypeOK'
    BY <2>0, <2>9, <2>1, <2>2 DEF Summons!CallsTypeOK
  <2>4. \E a \in acks' : a.summons /\ a.call = Summons!Screen
    BY <2>0, <2>9
  <2>5. acks \subseteq acks'
    BY <2>9
  <2>6. Summons!RangAndHeard'
    BY <2>1, <2>4, <2>5 DEF Summons!RangAndHeard, Summons!Waiting
  <2>7. Summons!ListIsFresh'
    BY <2>1, <2>2 DEF Summons!ListIsFresh
  <2> QED BY <2>3, <2>6, <2>7
<1>9. ASSUME Summons!NotMe PROVE Summons!CallsInv'
  <2>1. /\ floor' = [floor EXCEPT !.summons = Summons!NoCall] /\ UNCHANGED <<alertLists, alert,
             behind, acks>>
        /\ let' = let \union {Summons!Screen}
    BY <1>9 DEF Summons!NotMe, Summons!Page
  <2>2. DOMAIN floor' = DOMAIN floor /\ floor'.list = floor.list /\ floor'.summons = Summons!NoCall
    BY <2>1 DEF Summons!CallsTypeOK
  <2> QED BY <2>1, <2>2 DEF Summons!CallsTypeOK, Summons!RangAndHeard, Summons!ListIsFresh,
             Summons!Waiting
<1>10. ASSUME NEW c \in Calls, Summons!AckAlert(c) \/ Summons!ResolveAlert(c)
       PROVE Summons!CallsInv'
  <2>1. PICK to \in {"mine", "resolved"} :
             acks' = acks \union {[call |-> c, to |-> to, summons |-> FALSE]}
    BY <1>10 DEF Summons!AckAlert, Summons!ResolveAlert
  <2>2. UNCHANGED <<alertLists, alert, behind, floor, let>>
    BY <1>10 DEF Summons!AckAlert, Summons!ResolveAlert, Summons!Page
  <2>3. Summons!CallsTypeOK'
    BY <2>1, <2>2 DEF Summons!CallsTypeOK
  <2>4. acks \subseteq acks'
    BY <2>1
  <2>5. Summons!RangAndHeard'
    BY <2>2, <2>4 DEF Summons!RangAndHeard, Summons!Waiting, Summons!Screen
  <2>6. Summons!ListIsFresh'
    BY <2>2 DEF Summons!ListIsFresh
  <2> QED BY <2>3, <2>5, <2>6
<1>11. ASSUME NEW a \in acks, Summons!AckServed(a) PROVE Summons!CallsInv'
  <2>1. /\ acks' = acks \ {a} /\ UNCHANGED <<floor, let>> /\ Summons!Reloads
        /\ alert' = [alert EXCEPT ![a.call] = IF a.to = "resolved"
             \/ Summons!Waiting(a.call) THEN a.to ELSE @]
    BY <1>11 DEF Summons!AckServed
  <2>2. a.to \in {"mine", "resolved"}
    BY DEF Summons!CallsTypeOK
  <2>3. alert' \in [Calls -> Summons!Stages]
    BY <2>1, <2>2 DEF Summons!CallsTypeOK, Summons!Stages
  <2>4. \A c \in Calls : Summons!Waiting(c)' => c # a.call /\ alert'[c] = alert[c]
    BY <2>1, <2>2 DEF Summons!Waiting, Summons!CallsTypeOK
  <2>5. Summons!CallsTypeOK'
    BY <2>1, <2>3 DEF Summons!CallsTypeOK
  <2>6. Summons!RangAndHeard'
    BY <2>1, <2>4 DEF Summons!RangAndHeard, Summons!Waiting, Summons!Screen
  <2>7. Summons!ListIsFresh'
    BY <2>1, <2>3, FreshList
  <2> QED BY <2>5, <2>6, <2>7
<1>12. ASSUME NEW a \in acks, Summons!AckFails(a) PROVE Summons!CallsInv'
  <2>1. /\ acks' = acks \ {a} /\ UNCHANGED <<alertLists, alert, behind, floor>>
        /\ let' = IF a.summons THEN let \union {a.call} ELSE let
    BY <1>12 DEF Summons!AckFails, Summons!Page
  <2>2. Summons!CallsTypeOK' /\ Summons!ListIsFresh'
    BY <2>1 DEF Summons!CallsTypeOK, Summons!ListIsFresh
  <2>3. Summons!RangAndHeard'
    BY <2>1 DEF Summons!RangAndHeard, Summons!Waiting, Summons!Screen
  <2> QED BY <2>2, <2>3
<1>13. ASSUME NEW l \in alertLists, Summons!AlertsArrive(l) PROVE Summons!CallsInv'
  <2>1. /\ alertLists' = alertLists \ {l} /\ floor' = [floor EXCEPT !.list = l]
             /\ UNCHANGED <<acks, alert, let>>
        /\ behind' = (behind /\ (l # alert \/ alertLists # {l}))
    BY <1>13 DEF Summons!AlertsArrive
  <2>2. DOMAIN floor' = DOMAIN floor /\ floor'.list = l /\ floor'.summons = floor.summons
    BY <2>1 DEF Summons!CallsTypeOK
  <2>3. Summons!CallsTypeOK'
    BY <2>1, <2>2 DEF Summons!CallsTypeOK
  <2>4. Summons!RangAndHeard'
    BY <2>1, <2>2 DEF Summons!RangAndHeard, Summons!Waiting, Summons!Screen
  <2>5. ASSUME ~behind' PROVE alertLists' = {} /\ floor'.list = alert'
    <3>1. alertLists = {l} /\ l = alert
      BY <2>1, <2>5 DEF Summons!ListIsFresh
    <3> QED BY <3>1, <2>1, <2>2
  <2> QED BY <2>3, <2>4, <2>5 DEF Summons!ListIsFresh
<1>14. ASSUME NEW l \in alertLists, Summons!AlertsLost(l) PROVE Summons!CallsInv'
  <2>1. behind' = TRUE /\ UNCHANGED <<floor, acks, alert, let>>
    BY <1>14 DEF Summons!AlertsLost
  <2>2. Summons!ListIsFresh'
    BY <2>1 DEF Summons!ListIsFresh
  <2> QED BY <2>1, <2>2 DEF Summons!CallsTypeOK, Summons!RangAndHeard, Summons!Waiting,
             Summons!Screen
<1>15. ASSUME Summons!LoadAlerts PROVE Summons!CallsInv'
  BY <1>15 DEF Summons!LoadAlerts, Summons!CallsTypeOK, Summons!RangAndHeard,
     Summons!ListIsFresh, Summons!Waiting, Summons!Screen
<1>16. ASSUME UNCHANGED Summons!callDesk PROVE Summons!CallsInv'
  BY <1>5, <1>16 DEF Summons!callDesk
<1> QED BY <1>2, <1>3, <1>4, <1>6, <1>7, <1>8, <1>9, <1>10, <1>11, <1>12, <1>13, <1>14, <1>15,
           <1>16 DEF Summons!CallsNext

LEMMA CallsSafe == Summons!CallsInv => Summons!NobodyWaitsUnseen
<1> SUFFICES ASSUME Summons!CallsInv, NEW c \in Calls, Summons!Waiting(c), c \in Mine
                      \/ alert[c] = "escalated",
                    alertLists = {}, acks = {}
             PROVE  Summons!Screen = c \/ c \in Summons!OpenAlerts \/ (behind /\ c \in let)
  BY DEF Summons!NobodyWaitsUnseen
<1>1. Summons!Screen = c \/ c \in let
  BY DEF Summons!CallsInv, Summons!RangAndHeard
<1>2. ~behind => c \in Summons!OpenAlerts
  BY DEF Summons!CallsInv, Summons!ListIsFresh, Summons!OpenAlerts, Summons!Waiting
<1> QED BY <1>1, <1>2

\* For any calls and lists: a call that rang here is on this screen until somebody
\* answers it (staff page:159-185).
THEOREM CallStaysSeen == Spec => []NobodyWaitsUnseen
<1>1. Init => Summons!CallsInv
  BY CallsStart, NoCallIsNone, ListsAndSheets DEF Init
<1>2. Summons!CallsInv /\ [Next]_vars => Summons!CallsInv'
  <2> SUFFICES ASSUME Summons!CallsInv, [Next]_vars PROVE Summons!CallsInv'
    OBVIOUS
  <2>1. Summons!CallsNext \/ UNCHANGED Summons!callDesk
    BY DEF Next, Only, vars, summonsVars, Summons!callDesk
  <2> QED BY <2>1, CallsStep, NoCallIsNone, ListsAndSheets
<1>3. Summons!CallsInv => NobodyWaitsUnseen
  BY CallsSafe, NoCallIsNone, ListsAndSheets DEF NobodyWaitsUnseen
<1> QED BY <1>1, <1>2, <1>3, PTL DEF Spec

-----------------------------------------------------------------------------
\* The sheet an attendant takes an order on.
LEMMA SheetStart == MaxSheets \in Nat /\ Sheet!SheetInit => Sheet!SheetInv
<1> SUFFICES ASSUME MaxSheets \in Nat, Sheet!SheetInit PROVE Sheet!SheetInv
  OBVIOUS
<1>1. /\ sheet = Sheet!NoSheet /\ sends = {} /\ kept = {} /\ told = {}
           /\ rounds = [k \in Sheet!Keys |-> Sheet!Unsent]
      /\ lostKeyed = FALSE
  BY DEF Sheet!SheetInit
<1>2. ~sheet.on /\ sheet.key = 0
  BY <1>1 DEF Sheet!NoSheet
<1>3. Sheet!SheetTypeOK
  BY <1>1, <1>2 DEF Sheet!SheetTypeOK
<1>4. Sheet!KeysAreOpened /\ Sheet!OneAttempt /\ Sheet!OneRound
  BY <1>1, <1>2 DEF Sheet!KeysAreOpened, Sheet!OneAttempt, Sheet!OneRound
<1>5. Sheet!KeyedBeside /\ Sheet!KeyedIsKept
  BY <1>1, <1>2 DEF Sheet!KeyedBeside, Sheet!KeyedIsKept
<1> QED BY <1>3, <1>4, <1>5 DEF Sheet!SheetInv

\* Only the sheet on screen changes: it is closed, or stays the one it is.
LEMMA RoundOnScreen ==
  ASSUME Sheet!SheetInv, UNCHANGED <<sends, kept, rounds, told, torn>>,
         DOMAIN sheet' = DOMAIN sheet, sheet'.key = sheet.key,
         sheet'.on => sheet.on /\ sheet'.sending = sheet.sending,
         sheet'.on /\ ~between' => ~between /\ (sheet'.basket = sheet.basket \/ sends = {}),
         lostKeyed' => lostKeyed, between => between'
  PROVE  Sheet!SheetInv'
<1> USE DEF Sheet!SheetInv
<1>1. Sheet!SheetTypeOK'
  BY DEF Sheet!SheetTypeOK
<1>2. Sheet!KeysAreOpened'
  BY DEF Sheet!KeysAreOpened
<1>3. Sheet!OneAttempt'
  BY DEF Sheet!OneAttempt
<1>4. Sheet!OneRound'
  BY DEF Sheet!OneRound
<1>5. Sheet!KeyedBeside'
  BY DEF Sheet!KeyedBeside
<1>6. Sheet!KeyedIsKept'
  BY DEF Sheet!KeyedIsKept
<1> QED BY <1>1, <1>2, <1>3, <1>4, <1>5, <1>6

\* place_order: who asks for a key that stands for a round gets that round.
LEMMA PlacedKeeps ==
  ASSUME Sheet!SheetInv, NEW r, r.key \in 1 .. sheet.key, Sheet!Placed(r)
  PROVE  /\ DOMAIN rounds' = Sheet!Keys
         /\ \A k \in Sheet!Keys : k > sheet.key => rounds'[k] = Sheet!Unsent
         /\ \A k \in Sheet!Keys : rounds'[k] = rounds[k]
              \/ (k = r.key /\ rounds[k] = Sheet!Unsent /\ rounds'[k] = {r})
  BY DEF Sheet!SheetInv, Sheet!SheetTypeOK, Sheet!KeysAreOpened, Sheet!Placed

\* An attempt is over: the attendant is told, or it can be sent again.
LEMMA RoundOver ==
  ASSUME Sheet!SheetInv, NEW s \in sends, sends' = sends \ {s}, UNCHANGED <<rounds, between>>,
         told' \in {told, told \union {s.round}}, kept' \subseteq told',
         DOMAIN sheet' = DOMAIN sheet, sheet'.key = sheet.key,
         told' # told => ~sheet'.on, torn \subseteq torn',
         sheet'.on => /\ sheet.on /\ sheet'.basket = sheet.basket
                      /\ sheet'.sending = sheet.sending \/ sheet.key = s.round.key,
         s.said = "ok" => told' = told \union {s.round} \/ s.round.key \in torn',
         lostKeyed' => lostKeyed \/ between
  PROVE  Sheet!SheetInv'
<1> USE DEF Sheet!SheetInv
<1>1. Sheet!SheetTypeOK'
  BY DEF Sheet!SheetTypeOK
<1>2. Sheet!KeysAreOpened'
  BY DEF Sheet!KeysAreOpened
<1>3. Sheet!OneAttempt'
  BY DEF Sheet!OneAttempt
<1>4. Sheet!OneRound'
  BY DEF Sheet!OneRound
<1>5. Sheet!KeyedBeside'
  BY DEF Sheet!KeyedBeside
<1>6. Sheet!KeyedIsKept'
  BY DEF Sheet!KeyedIsKept
<1> QED BY <1>1, <1>2, <1>3, <1>4, <1>5, <1>6

LEMMA SheetStep ==
  MaxSheets \in Nat /\ Sheet!SheetInv /\ (Sheet!SheetNext \/ UNCHANGED Sheet!orderSheet) =>
    Sheet!SheetInv'
<1> SUFFICES ASSUME MaxSheets \in Nat, Sheet!SheetInv, Sheet!SheetNext \/ UNCHANGED Sheet!orderSheet
             PROVE Sheet!SheetInv'
  OBVIOUS
<1> USE DEF Sheet!SheetInv
<1>1. ASSUME Sheet!OpenSheet PROVE Sheet!SheetInv'
  <2>1. /\ sheet' = [Sheet!NoSheet EXCEPT !.on = TRUE, !.key = sheet.key + 1]
        /\ between' = FALSE /\ lostKeyed' = FALSE /\ UNCHANGED <<sends, kept, rounds, told, torn>>
    BY <1>1 DEF Sheet!OpenSheet, Sheet!NextKey, Sheet!Opened, Sheet!Server
  <2>0. sheet.key < MaxSheets
    BY <1>1 DEF Sheet!OpenSheet, Sheet!Opened
  <2>2. DOMAIN sheet' = DOMAIN Sheet!NoSheet /\ sheet'.key = sheet.key + 1
    BY <2>1 DEF Sheet!NoSheet
  <2>3. sheet'.basket = {} /\ ~sheet'.sending
    BY <2>1 DEF Sheet!NoSheet
  <2>4. sheet.key \in Nat /\ sheet.key + 1 \in 0 .. MaxSheets
    BY <2>0 DEF Sheet!SheetTypeOK
  <2>5. Sheet!SheetTypeOK'
    BY <2>1, <2>2, <2>4 DEF Sheet!SheetTypeOK
  <2>6. Sheet!KeysAreOpened'
    BY <2>1, <2>2, <2>4 DEF Sheet!KeysAreOpened, Sheet!Keys
  <2>7. (\A s \in sends : s.round.key # sheet'.key) /\ (\A r \in told : r.key # sheet'.key)
    BY <2>2, <2>4 DEF Sheet!KeysAreOpened
  <2>8. Sheet!OneAttempt'
    BY <2>1, <2>7 DEF Sheet!OneAttempt
  <2>9. Sheet!OneRound'
    BY <2>1 DEF Sheet!OneRound
  <2>10. Sheet!KeyedBeside' /\ Sheet!KeyedIsKept'
    BY <2>1, <2>3, <2>7 DEF Sheet!KeyedBeside, Sheet!KeyedIsKept
  <2> QED BY <2>5, <2>6, <2>8, <2>9, <2>10
<1>2. ASSUME Sheet!Load \/ Sheet!Back PROVE Sheet!SheetInv'
  <2>1. /\ sheet' = [sheet EXCEPT !.loaded = TRUE]
             \/ sheet' = [sheet EXCEPT !.table = Sheet!NoTable]
        /\ UNCHANGED <<sends, kept, rounds, told, torn, lostKeyed, between>>
    BY <1>2 DEF Sheet!Load, Sheet!Back, Sheet!Server
  <2>2. /\ DOMAIN sheet' = DOMAIN sheet /\ sheet'.key = sheet.key /\ sheet'.on = sheet.on
        /\ sheet'.sending = sheet.sending /\ sheet'.basket = sheet.basket
    BY <2>1 DEF Sheet!SheetTypeOK, Sheet!NoSheet
  <2> QED BY <2>1, <2>2, RoundOnScreen
<1>3. ASSUME NEW v, Sheet!ChooseTable(v) \/ Sheet!ChooseCategory(v) PROVE Sheet!SheetInv'
  <2>1. /\ sheet' = [sheet EXCEPT !.table = v] \/ sheet' = [sheet EXCEPT !.category = v]
        /\ UNCHANGED <<sends, kept, rounds, told, torn, lostKeyed, between>>
    BY <1>3 DEF Sheet!ChooseTable, Sheet!ChooseCategory, Sheet!Server
  <2>2. /\ DOMAIN sheet' = DOMAIN sheet /\ sheet'.key = sheet.key /\ sheet'.on = sheet.on
        /\ sheet'.sending = sheet.sending /\ sheet'.basket = sheet.basket
    BY <2>1 DEF Sheet!SheetTypeOK, Sheet!NoSheet
  <2> QED BY <2>1, <2>2, RoundOnScreen
<1>4. ASSUME Sheet!CloseSheet PROVE Sheet!SheetInv'
  <2>1. /\ sheet' = [Sheet!NoSheet EXCEPT !.key = sheet.key]
        /\ UNCHANGED <<sends, kept, rounds, told, torn, lostKeyed, between>>
    BY <1>4 DEF Sheet!CloseSheet, Sheet!Opened, Sheet!Server
  <2>2. DOMAIN sheet' = DOMAIN sheet /\ sheet'.key = sheet.key /\ ~sheet'.on
    BY <2>1 DEF Sheet!SheetTypeOK, Sheet!NoSheet
  <2> QED BY <2>1, <2>2, RoundOnScreen
<1>5. ASSUME NEW d, Sheet!Bump(d) PROVE Sheet!SheetInv'
  <2>1. PICK b : sheet' = [sheet EXCEPT !.basket = b]
    BY <1>5 DEF Sheet!Bump
  <2>2. /\ between' = (between \/ sends # {})
        /\ UNCHANGED <<sends, kept, rounds, told, torn, lostKeyed>>
    BY <1>5 DEF Sheet!Bump, Sheet!Server
  <2>3. /\ DOMAIN sheet' = DOMAIN sheet /\ sheet'.key = sheet.key /\ sheet'.on = sheet.on
        /\ sheet'.sending = sheet.sending
    BY <2>1 DEF Sheet!SheetTypeOK, Sheet!NoSheet
  <2> QED BY <2>2, <2>3, RoundOnScreen
<1>6. ASSUME Sheet!Send PROVE Sheet!SheetInv'
  <2> DEFINE r == Sheet!Round(sheet.key, sheet.table, sheet.basket)
             new == [round |-> r, said |-> "none"]
  <2>1. /\ sends' = sends \union {new} /\ sheet' = [sheet EXCEPT !.sending = TRUE]
        /\ sheet.on /\ ~sheet.sending /\ UNCHANGED <<kept, rounds, told, torn, lostKeyed, between>>
    BY <1>6 DEF Sheet!Send, Sheet!SendButton, Sheet!MenuOpen
  <2>2. /\ DOMAIN sheet' = DOMAIN sheet /\ sheet'.key = sheet.key /\ sheet'.on = sheet.on
        /\ sheet'.sending /\ sheet'.basket = sheet.basket
    BY <2>1 DEF Sheet!SheetTypeOK, Sheet!NoSheet
  <2>3. r.key = sheet.key /\ r.basket = sheet.basket
    BY DEF Sheet!Round
  <2>4. new = [round |-> new.round, said |-> new.said] /\ new.round = r /\ new.said = "none"
    OBVIOUS
  <2> HIDE DEF r, new
  <2>5. Sheet!SheetTypeOK'
    BY <2>1, <2>2, <2>4 DEF Sheet!SheetTypeOK
  <2>6. (\A s \in sends : s.round.key # sheet.key) /\ (\A q \in told : q.key # sheet.key)
    BY <2>1 DEF Sheet!OneAttempt
  <2>7. Sheet!KeysAreOpened'
    BY <2>1, <2>2, <2>3, <2>4 DEF Sheet!KeysAreOpened, Sheet!SheetTypeOK
  <2>8. Sheet!OneAttempt'
    BY <2>1, <2>2, <2>3, <2>4, <2>6 DEF Sheet!OneAttempt
  <2>9. Sheet!OneRound'
    BY <2>1 DEF Sheet!OneRound
  <2>10. Sheet!KeyedBeside'
    BY <2>1, <2>2, <2>3, <2>4 DEF Sheet!KeyedBeside
  <2>11. Sheet!KeyedIsKept'
    BY <2>1 DEF Sheet!KeyedIsKept
  <2> QED BY <2>5, <2>7, <2>8, <2>9, <2>10, <2>11
<1>7. ASSUME NEW s \in sends, Sheet!SendServed(s) PROVE Sheet!SheetInv'
  <2>1. PICK said \in {"ok", "refused"} :
          /\ sends' = (sends \ {s}) \union {[s EXCEPT !.said = said]}
          /\ IF said = "ok" THEN Sheet!Placed(s.round) ELSE UNCHANGED rounds
    BY <1>7 DEF Sheet!SendServed
  <2> DEFINE new == [s EXCEPT !.said = said]
  <2>2. s.said = "none" /\ UNCHANGED <<sheet, kept, told, torn, lostKeyed, between>>
    BY <1>7 DEF Sheet!SendServed
  <2>3. new = [round |-> new.round, said |-> new.said] /\ new.round = s.round /\ new.said = said
    BY DEF Sheet!SheetTypeOK
  <2>4. sends' = (sends \ {s}) \union {new}
    BY <2>1
  <2> HIDE DEF new
  <2>5. s.round.key \in 1 .. sheet.key
    BY DEF Sheet!KeysAreOpened
  <2>6. DOMAIN rounds' = Sheet!Keys /\ \A k \in Sheet!Keys : k > sheet.key =>
          rounds'[k] = Sheet!Unsent
    BY <2>1, <2>5, PlacedKeeps DEF Sheet!SheetTypeOK, Sheet!KeysAreOpened
  <2>7. \A k \in Sheet!Keys :
          rounds'[k] = rounds[k] \/ (said = "ok" /\ k = s.round.key /\ rounds'[k] = {s.round})
    BY <2>1, <2>5, PlacedKeeps
  <2>8. Sheet!SheetTypeOK'
    BY <2>2, <2>3, <2>4, <2>6 DEF Sheet!SheetTypeOK
  <2>9. Sheet!KeysAreOpened'
    BY <2>2, <2>3, <2>4, <2>5, <2>6 DEF Sheet!KeysAreOpened
  <2>10. Sheet!OneAttempt'
    BY <2>2, <2>3, <2>4 DEF Sheet!OneAttempt
  <2>11. Sheet!OneRound'
    BY <2>2, <2>3, <2>4, <2>7 DEF Sheet!OneRound
  <2>12. Sheet!KeyedBeside' /\ Sheet!KeyedIsKept'
    BY <2>2, <2>3, <2>4 DEF Sheet!KeyedBeside, Sheet!KeyedIsKept
  <2> QED BY <2>8, <2>9, <2>10, <2>11, <2>12
<1>8. ASSUME NEW s \in sends, Sheet!SentToBar(s) \/ Sheet!SavedForLater(s) PROVE Sheet!SheetInv'
  <2>1. /\ sends' = sends \ {s} /\ told' = told \union {s.round}
             /\ sheet' = [Sheet!NoSheet EXCEPT !.key = sheet.key]
        /\ kept' \in {kept, kept \union {s.round}} /\ Sheet!TakesAway({s.round})
             /\ UNCHANGED <<rounds, torn, between>>
    BY <1>8 DEF Sheet!SentToBar, Sheet!SavedForLater, Sheet!Closed, Sheet!Opened
  <2>2. DOMAIN sheet' = DOMAIN sheet /\ sheet'.key = sheet.key /\ ~sheet'.on
    BY <2>1 DEF Sheet!SheetTypeOK, Sheet!NoSheet
  <2>3. lostKeyed' => lostKeyed \/ between
    BY <2>1 DEF Sheet!TakesAway, Sheet!KeyedBeside
  <2>4. kept' \subseteq told'
    BY <2>1 DEF Sheet!SheetTypeOK
  <2> QED BY <2>1, <2>2, <2>3, <2>4, RoundOver
<1>9. ASSUME NEW s \in sends, Sheet!SendRefused(s) \/ Sheet!NotSaved(s) PROVE Sheet!SheetInv'
  <2>1. /\ sends' = sends \ {s} /\ sheet' = Sheet!Reopened(s) /\ Sheet!TakesAway({})
             /\ torn \subseteq torn'
        /\ s.said = "refused" \/ s.round.key \in torn'
        /\ UNCHANGED <<rounds, kept, told, between>>
    BY <1>9 DEF Sheet!SendRefused, Sheet!NotSaved
  <2>2. /\ DOMAIN sheet' = DOMAIN sheet /\ sheet'.key = sheet.key /\ sheet'.on = sheet.on
        /\ sheet'.basket = sheet.basket
        /\ sheet'.sending = sheet.sending \/ sheet.key = s.round.key
    BY <2>1 DEF Sheet!SheetTypeOK, Sheet!NoSheet, Sheet!Reopened
  <2>3. lostKeyed' => lostKeyed
    BY <2>1, <2>2 DEF Sheet!TakesAway
  <2>4. kept \subseteq told
    BY DEF Sheet!SheetTypeOK
  <2> QED BY <2>1, <2>2, <2>3, <2>4, RoundOver
<1>10. ASSUME NEW r \in kept, Sheet!Replay(r) PROVE Sheet!SheetInv'
  <2>1. kept' = kept \ {r} /\ Sheet!Placed(r) /\ UNCHANGED <<sheet, sends, told, torn, lostKeyed,
          between>>
    BY <1>10 DEF Sheet!Replay
  <2>2. r \in told /\ r.key \in 1 .. sheet.key
    BY DEF Sheet!SheetTypeOK, Sheet!KeysAreOpened
  <2>3. Sheet!SheetTypeOK' /\ Sheet!KeysAreOpened'
    BY <2>1, <2>2, PlacedKeeps DEF Sheet!SheetTypeOK, Sheet!KeysAreOpened
  <2>4. Sheet!OneRound'
    BY <2>1, <2>2, PlacedKeeps DEF Sheet!OneRound
  <2>5. Sheet!OneAttempt' /\ Sheet!KeyedBeside' /\ Sheet!KeyedIsKept'
    BY <2>1 DEF Sheet!OneAttempt, Sheet!KeyedBeside, Sheet!KeyedIsKept
  <2> QED BY <2>3, <2>4, <2>5
<1>11. ASSUME UNCHANGED Sheet!orderSheet PROVE Sheet!SheetInv'
  BY <1>11, RoundOnScreen DEF Sheet!orderSheet
<1> QED BY <1>1, <1>2, <1>3, <1>4, <1>5, <1>6, <1>7, <1>8, <1>9, <1>10, <1>11
           DEF Sheet!SheetNext

LEMMA SheetSafe == MaxSheets \in Nat /\ Sheet!SheetInv => Sheet!SheetIsTrue
<1> SUFFICES ASSUME MaxSheets \in Nat, Sheet!SheetInv PROVE Sheet!ToldIsBilled
  BY DEF Sheet!SheetInv, Sheet!SheetIsTrue
<1> SUFFICES ASSUME NEW r \in told, r.key \notin torn, rounds[r.key] # Sheet!Unsent
             PROVE  rounds[r.key] = {r}
  BY DEF Sheet!ToldIsBilled
<1>1. r.key \in Sheet!Keys
  BY DEF Sheet!SheetInv, Sheet!SheetTypeOK, Sheet!KeysAreOpened, Sheet!Keys
<1> QED BY <1>1 DEF Sheet!SheetInv, Sheet!OneRound, Sheet!OneAttempt

\* For any number of sheets and requests: what the attendant was told is sent is what
\* the table is billed for (TakeOrderSheet.tsx:76, 127-157).
THEOREM SheetHolds == Spec => []SheetIsTrue
<1>1. Init => Sheet!SheetInv
  BY SheetStart, ListsAndSheets DEF Init
<1>2. Sheet!SheetInv /\ [Next]_vars => Sheet!SheetInv'
  <2> SUFFICES ASSUME Sheet!SheetInv, [Next]_vars PROVE Sheet!SheetInv'
    OBVIOUS
  <2>1. Sheet!SheetNext \/ UNCHANGED Sheet!orderSheet
    BY DEF Next, Only, vars, sheetVars, Sheet!orderSheet
  <2> QED BY <2>1, SheetStep, ListsAndSheets
<1>3. Sheet!SheetInv => SheetIsTrue
  BY SheetSafe, ListsAndSheets DEF SheetIsTrue
<1> QED BY <1>1, <1>2, <1>3, PTL DEF Spec

-----------------------------------------------------------------------------
\* The guard's screen.
\* The door: a valid answer is about a pass that was valid when it was shown, and
\* one post at a time answers for the guest in front.
LEMMA DoorStart == Door!DoorInit => Door!DoorInv
  BY DEF Door!DoorInit, Door!DoorInv, Door!DoorTypeOK, Door!AnswersAreVouched, Door!OnePost,
     Door!VerdictIsForGuest, Door!ResultScreen, Door!Config, Door!Blank, Door!Nobody

LEMMA DoorStep == Door!DoorInv /\ (Door!DoorNext \/ UNCHANGED Door!atDoor) => Door!DoorInv'
<1> SUFFICES ASSUME Door!DoorInv, Door!DoorNext \/ UNCHANGED Door!atDoor PROVE Door!DoorInv'
  OBVIOUS
<1> USE DEF Door!DoorInv, Door!DoorTypeOK, Door!AnswersAreVouched, Door!OnePost,
      Door!VerdictIsForGuest, Door!ResultScreen, Door!Config, Door!Nobody, Door!history
<1>0. DOMAIN Door!Config = {"valid", "used", "expired", "invalid"}
  OBVIOUS
<1>1. ASSUME UNCHANGED <<scans, passes, front, vouched, lapsed, doubled, lost>>,
             door' \in [scanning : BOOLEAN, typed : Guests \union {Door!Nobody},
                        verdict : DOMAIN Door!Config \union {"none"}],
             door'.verdict \in {door.verdict, "none"}
      PROVE  Door!DoorInv'
  <2>1. Door!DoorTypeOK'
    BY <1>1
  <2>2. Door!AnswersAreVouched' /\ Door!OnePost'
    BY <1>1
  <2>3. Door!VerdictIsForGuest'
    BY <1>0, <1>1
  <2> QED BY <2>1, <2>2, <2>3
<1>2. ASSUME Door!StartCamera \/ Door!StopCamera \/ Door!ScanNext PROVE Door!DoorInv'
  BY <1>1, <1>2 DEF Door!StartCamera, Door!StopCamera, Door!ScanNext
<1>3. ASSUME NEW g \in Guests, Door!TypeCode(g) PROVE Door!DoorInv'
  BY <1>1, <1>3 DEF Door!TypeCode
<1>4. ASSUME NEW g \in Guests, Door!ProcessToken(g), door'.verdict = door.verdict,
             door' \in [scanning : BOOLEAN, typed : Guests \union {Door!Nobody},
                        verdict : DOMAIN Door!Config \union {"none"}]
      PROVE  Door!DoorInv'
  <2> DEFINE k == CHOOSE n \in 1 .. MaxPosts : \A s \in scans : s.id # n
  <2>0. scans' = scans \union
          {[id |-> n, guest |-> g, answer |-> "none", marks |-> FALSE] : n \in {k}}
    BY <1>4 DEF Door!ProcessToken
  <2> HIDE DEF k
  <2>a. PICK new : new = [id |-> k, guest |-> g, answer |-> "none", marks |-> FALSE]
    OBVIOUS
  <2>b. scans' = scans \union {new}
    BY <2>0, <2>a
  <2>1. /\ new.guest = g /\ new.answer = "none" /\ new.marks = FALSE
        /\ DOMAIN new = {"id", "guest", "answer", "marks"}
    BY <2>a
  <2>c. g \in Door!Presented(g) <=> passes[g] = "valid"
    BY DEF Door!Presented
  <2>2. Door!DoorTypeOK'
    BY <1>4, <2>1, <2>b DEF Door!ProcessToken
  <2>d. passes' = passes /\ scans' # {}
    BY <1>4, <2>b DEF Door!ProcessToken
  <2>3. CASE scans = {}
    <3>1. scans' = {new} /\ front' = g /\ vouched' = Door!Presented(g) /\ lapsed' = {}
          /\ doubled' = FALSE
      BY <1>4, <2>3, <2>b DEF Door!ProcessToken
    <3>2. Door!AnswersAreVouched'
      BY <2>1, <2>c, <2>d, <3>1
    <3>3. Door!OnePost'
      BY <2>1, <2>c, <2>d, <3>1 DEF Door!Presented
    <3>4. Door!VerdictIsForGuest'
      BY <2>d
    <3> QED BY <2>2, <3>2, <3>3, <3>4
  <2>4. CASE scans # {}
    <3>1. vouched' = vouched \union Door!Presented(g) /\ doubled' = TRUE
      BY <1>4, <2>4 DEF Door!ProcessToken
    <3>2. Door!AnswersAreVouched'
      BY <2>1, <2>b, <2>c, <2>d, <3>1
    <3>3. Door!OnePost' /\ Door!VerdictIsForGuest'
      BY <2>d, <3>1
    <3> QED BY <2>2, <3>2, <3>3
  <2> QED BY <2>3, <2>4
<1>5. ASSUME NEW g \in Guests, Door!Decoded(g) PROVE Door!DoorInv'
  BY <1>4, <1>5 DEF Door!Decoded
<1>6. ASSUME Door!CheckTyped PROVE Door!DoorInv'
  BY <1>4, <1>6 DEF Door!CheckTyped, Door!CheckButton
<1>7. ASSUME NEW g \in Guests, Door!PassLapses(g) PROVE Door!DoorInv'
  <2>1. PICK status \in {"expired", "used"} : passes' = [passes EXCEPT ![g] = status]
    BY <1>7 DEF Door!PassLapses
  <2>2. /\ passes[g] = "valid" /\ lapsed' = lapsed \union {g}
        /\ UNCHANGED <<door, scans, front, vouched, doubled, lost>>
    BY <1>7 DEF Door!PassLapses
  <2>3. Door!DoorTypeOK'
    BY <2>1, <2>2
  <2>4. Door!AnswersAreVouched'
    BY <2>1, <2>2
  <2>5. Door!OnePost'
    BY <2>1, <2>2
  <2>6. Door!VerdictIsForGuest'
    BY <2>1, <2>2
  <2> QED BY <2>3, <2>4, <2>5, <2>6
<1>8. ASSUME NEW s \in scans, Door!ScanRead(s) PROVE Door!DoorInv'
  <2> PICK t : /\ t = [s EXCEPT !.answer = passes[s.guest], !.marks = (passes[s.guest] = "valid")]
               /\ scans' = (scans \ {s}) \union {t}
    BY <1>8 DEF Door!ScanRead, Door!Verdict
  <2>1. /\ t.guest = s.guest /\ t.answer = passes[s.guest]
        /\ t.marks = (passes[s.guest] = "valid") /\ s.answer = "none"
        /\ DOMAIN t = {"id", "guest", "answer", "marks"} /\ s.guest \in Guests
    BY <1>8 DEF Door!ScanRead
  <2>2. passes[s.guest] \in {"valid", "used", "expired"}
    BY <2>1
  <2>u. UNCHANGED <<door, passes, front, vouched, lapsed, doubled, lost>>
    BY <1>8 DEF Door!ScanRead
  <2>3. Door!DoorTypeOK'
    BY <2>u, <2>1, <2>2
  <2>4. Door!AnswersAreVouched'
    BY <2>u, <2>1, <2>2
  <2>5. Door!OnePost'
    <3> SUFFICES ASSUME ~doubled PROVE Door!OnePost'
      BY <2>u
    <3>1. scans' = {t}
      OBVIOUS
    <3>2. s.guest = front
      OBVIOUS
    <3>3. front \in vouched /\ front \notin lapsed => passes[s.guest] = "valid"
      BY <2>1, <3>2
    <3> QED BY <2>u, <2>1, <3>1, <3>2, <3>3
  <2>6. Door!VerdictIsForGuest'
    BY <2>u
  <2> QED BY <2>3, <2>4, <2>5, <2>6
<1>9. ASSUME NEW s \in scans, Door!ScanMarks(s) PROVE Door!DoorInv'
  <2> PICK t : t = [s EXCEPT !.marks = FALSE] /\ scans' = (scans \ {s}) \union {t}
    BY <1>9 DEF Door!ScanMarks
  <2>1. /\ t.guest = s.guest /\ t.answer = s.answer /\ t.marks = FALSE
        /\ DOMAIN t = {"id", "guest", "answer", "marks"} /\ s.guest \in Guests
        /\ s.answer = "valid" /\ s.marks
    BY <1>9 DEF Door!ScanMarks
  <2>2. /\ passes' = [passes EXCEPT ![s.guest] = "used"]
        /\ UNCHANGED <<door, front, vouched, lapsed, doubled, lost>>
    BY <1>9 DEF Door!ScanMarks
  <2>3. Door!DoorTypeOK'
    BY <2>1, <2>2
  <2>4. Door!AnswersAreVouched'
    BY <2>1, <2>2
  <2>5. Door!OnePost'
    <3> SUFFICES ASSUME ~doubled PROVE Door!OnePost'
      BY <2>2
    <3>1. scans' = {t} /\ s.guest = front
      OBVIOUS
    <3> QED BY <2>1, <2>2, <3>1
  <2>6. Door!VerdictIsForGuest'
    BY <2>1, <2>2
  <2> QED BY <2>3, <2>4, <2>5, <2>6
<1>10. ASSUME NEW s \in scans, Door!Answered(s) PROVE Door!DoorInv'
  <2>1. /\ s.answer # "none" /\ ~s.marks /\ scans' = scans \ {s}
        /\ UNCHANGED <<passes, front, vouched, lapsed, doubled, lost>>
        /\ door' = [door EXCEPT !.verdict = s.answer]
    BY <1>10 DEF Door!Answered
  <2>2. door'.verdict = s.answer
    BY <2>1
  <2>3. Door!DoorTypeOK'
    BY <2>1, <1>0
  <2>4. Door!AnswersAreVouched' /\ Door!OnePost'
    BY <2>1
  <2>5. Door!VerdictIsForGuest'
    BY <2>1, <2>2
  <2> QED BY <2>3, <2>4, <2>5
<1>11. ASSUME NEW s \in scans, Door!AnswerLost(s) PROVE Door!DoorInv'
  <2>1. /\ scans' = scans \ {s} /\ door' = [door EXCEPT !.verdict = "invalid"] /\ lost' = TRUE
        /\ passes' \in {passes, IF s.marks THEN [passes EXCEPT ![s.guest] = "used"] ELSE passes}
        /\ UNCHANGED <<front, vouched, lapsed, doubled>>
    BY <1>11 DEF Door!AnswerLost
  <2>2. door'.verdict = "invalid"
    BY <2>1
  <2>3. Door!DoorTypeOK'
    BY <2>1, <1>0
  <2>4. Door!AnswersAreVouched'
    BY <2>1
  <2>5. Door!OnePost'
    <3>1. ~doubled => scans' = {}
      BY <2>1
    <3> QED BY <2>1, <3>1
  <2>6. Door!VerdictIsForGuest'
    BY <2>1, <2>2
  <2> QED BY <2>3, <2>4, <2>5, <2>6
<1>12. ASSUME UNCHANGED Door!atDoor PROVE Door!DoorInv'
  BY <1>12, <1>1 DEF Door!atDoor
<1> QED BY <1>2, <1>3, <1>5, <1>6, <1>7, <1>8, <1>9, <1>10, <1>11, <1>12 DEF Door!DoorNext

\* For any guests, passes that lapse and scans: ALLOW is for a pass that was shown
\* valid and is spent now, that of the guest in front if one scan was sent, and a
\* refusal for one that was not valid or lapsed before the venue looked (security
\* page:67-82).
THEOREM VerdictHolds == Spec => []VerdictIsForGuest
<1>1. Init => Door!DoorInv
  BY DoorStart DEF Init
<1>2. Door!DoorInv /\ [Next]_vars => Door!DoorInv'
  <2> SUFFICES ASSUME Door!DoorInv, [Next]_vars PROVE Door!DoorInv'
    OBVIOUS
  <2>1. Door!DoorNext \/ UNCHANGED Door!atDoor
    BY DEF Next, Only, vars, doorVars, Door!atDoor
  <2> QED BY <2>1, DoorStep
<1>3. Door!DoorInv => VerdictIsForGuest
  BY DEF Door!DoorInv, VerdictIsForGuest
<1> QED BY <1>1, <1>2, <1>3, PTL DEF Spec
=============================================================================
