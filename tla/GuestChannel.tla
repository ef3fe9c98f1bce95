---------------------------- MODULE GuestChannel ----------------------------
(***************************************************************************)
(* The guest's own channel: the sockets the table page and the bill page   *)
(* open for one session, and the one place per session a worker keeps for  *)
(* them.  The table page opens its socket once, the bill page reconnects.  *)
(* The worker hears of a closed socket when it hears of it, and then gives *)
(* up the session's place, whoever has it by then.                         *)
(***************************************************************************)
EXTENDS Naturals, FiniteSets

CONSTANTS MaxSockets, MaxCalls

Sockets == 1 .. MaxSockets

VARIABLES
  view,     \* the phone: the page on screen, its socket, the call-staff sheet
  socket,   \* per socket: where it is between phone and worker
  customer, \* the worker's _customer[session], 0 if nobody
  calls,    \* the guest's calls that reached the venue, not yet answered
  crossed   \* a socket was accepted while the worker still had another

channel == <<view, socket, customer, calls, crossed>>

Unused   == {n \in Sockets : socket[n] = "unused"}
NextSocket == CHOOSE n \in Unused : TRUE
\* Open at the worker's end, whatever the phone has done meanwhile.
Accepted == {n \in Sockets : socket[n] \in {"open", "closed"}}

\* The phone's end of the socket it has now is closed; nobody else's is open.
Closes(n) == [m \in Sockets |->
                IF m # n THEN socket[m]
                ELSE IF socket[m] = "open" THEN "closed"
                ELSE IF socket[m] = "dialled" THEN "gone" ELSE socket[m]]

\* A page mounts: the page before it closes its socket, a new one is dialled.
Mount(page) ==
  /\ Unused # {}
  /\ socket' = [Closes(view.socket) EXCEPT ![NextSocket] = "dialled"]
  /\ view' = [page |-> page, socket |-> NextSocket, sheet |-> FALSE, status |-> "idle"]

MountTable ==
  /\ view.page \in {"none", "bill"}
  /\ Mount("table")
  /\ UNCHANGED <<customer, calls, crossed>>

MountBill ==
  /\ view.page = "table" /\ ~view.sheet
  /\ Mount("bill")
  /\ UNCHANGED <<customer, calls, crossed>>

\* The bill's hook dials again, with a delay that doubles, as long as the page
\* is there; the table page does not.
Reconnect ==
  /\ view.page = "bill" /\ socket[view.socket] \in {"closed", "gone"} /\ Unused # {}
  /\ socket' = [socket EXCEPT ![NextSocket] = "dialled"]
  /\ view' = [view EXCEPT !.socket = NextSocket]
  /\ UNCHANGED <<customer, calls, crossed>>

\* The network drops a socket: the phone hears of it, the worker later.
SocketDrops ==
  /\ view.socket # 0 /\ socket[view.socket] \in {"dialled", "open"}
  /\ socket' = Closes(view.socket)
  /\ UNCHANGED <<view, customer, calls, crossed>>

\* Mutant: the place is left to whoever has it.
PlaceKept(n) == customer

\* connect_customer: the newest socket has the session's place.
PlaceTaken(n) == n

ConnectCustomer(n) ==
  /\ socket[n] = "dialled"
  /\ socket' = [socket EXCEPT ![n] = "open"]
  /\ customer' = PlaceTaken(n)
  /\ crossed' = (crossed \/ Accepted # {})
  /\ UNCHANGED <<view, calls>>

\* The place is given up without a look at whose it is.
PlaceAfter(n) == 0

DisconnectCustomer(n) ==
  /\ socket[n] = "closed"
  /\ socket' = [socket EXCEPT ![n] = "gone"]
  /\ customer' = PlaceAfter(n)
  /\ UNCHANGED <<view, calls, crossed>>

-----------------------------------------------------------------------------
\* Calling somebody: three reasons behind one button, and a banner when there
\* is something to say.
CallStaffSheet ==
  IF view.page = "table" /\ view.sheet
  THEN {"call_attendant", "request_payment", "order_more"} ELSE {}
ComingBanner == view.page = "table" /\ view.status \notin {"idle", "sent"}

OpenSheet ==
  /\ view.page = "table" /\ ~view.sheet
  /\ view' = [view EXCEPT !.sheet = TRUE]
  /\ UNCHANGED <<socket, customer, calls, crossed>>

CloseSheet ==
  /\ view.sheet
  /\ view' = [view EXCEPT !.sheet = FALSE]
  /\ UNCHANGED <<socket, customer, calls, crossed>>

\* Accepted, queued or refused (five a minute): the page says "sent".
SendAlert ==
  /\ CallStaffSheet # {}
  /\ view' = [view EXCEPT !.sheet = FALSE, !.status = "sent"]
  /\ calls' \in {calls, calls + 1} \intersect (0 .. MaxCalls)
  /\ UNCHANGED <<socket, customer, crossed>>

Listening(n) == n # 0 /\ n = view.socket /\ socket[n] = "open"

\* Somebody acknowledges: the message goes to the session's place.  A send to a
\* dead socket that raises gives up the place as well.
SendToCustomer ==
  /\ calls > 0
  /\ calls' = calls - 1
  /\ view' = IF Listening(customer) /\ view.page = "table"
             THEN [view EXCEPT !.status = "coming"] ELSE view
  /\ customer' \in IF customer # 0 /\ socket[customer] = "closed" THEN {customer, 0} ELSE {customer}
  /\ UNCHANGED <<socket, crossed>>

ChannelInit ==
  /\ view = [page |-> "none", socket |-> 0, sheet |-> FALSE, status |-> "idle"]
  /\ socket = [n \in Sockets |-> "unused"]
  /\ customer = 0 /\ calls = 0 /\ crossed = FALSE

ChannelNext ==
  \/ MountTable \/ MountBill \/ Reconnect \/ SocketDrops
  \/ \E n \in Sockets : ConnectCustomer(n) \/ DisconnectCustomer(n)
  \/ OpenSheet \/ CloseSheet \/ SendAlert \/ SendToCustomer

ChannelSpec == ChannelInit /\ [][ChannelNext]_channel

-----------------------------------------------------------------------------
\* An open socket nobody sends to means a guest who waits for nothing.  It takes
\* two sockets of one session that the worker had at once: whoever stays on one
\* page with one socket is heard.  And the place is never that of a socket the
\* worker knows to be gone.
DeafNeedsCrossing ==
  /\ view.socket # 0 /\ socket[view.socket] = "open" /\ ~crossed => customer = view.socket
  /\ customer # 0 => customer \in Accepted

\* What it follows from.
ChannelTypeOK ==
  /\ view \in [page : {"none", "table", "bill"}, socket : Sockets \union {0},
              sheet : BOOLEAN, status : {"idle", "sent", "coming"}]
  /\ socket \in [Sockets -> {"unused", "dialled", "open", "closed", "gone"}]
  /\ customer \in Sockets \union {0}
  /\ crossed \in BOOLEAN

\* A page that goes closes its socket, and the worker has one at a time unless
\* a socket was accepted before the last one was given up.
ChannelInv ==
  /\ \A n \in Sockets : socket[n] \in {"dialled", "open"} => n = view.socket
  /\ ~crossed => \A m, n \in Accepted : m = n
  /\ DeafNeedsCrossing
=============================================================================
