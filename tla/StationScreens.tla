--------------------------- MODULE StationScreens ---------------------------
(***************************************************************************)
(* The bar's and the kitchen's screen.  A tap goes through the outbox's    *)
(* submit, which sends it at once or queues it; no button waits for the    *)
(* answer, the server takes any status, and the reload that follows each   *)
(* tap is answered when it is answered.                                    *)
(***************************************************************************)
EXTENDS Naturals, Sequences, FiniteSets, SequencesExt

CONSTANTS
  Screens,  \* the devices that show one station's tickets
  MaxTaps   \* taps on one ticket line

Steps == <<"pending", "preparing", "ready", "delivered">>
Moves == 2 .. Len(Steps)

VARIABLES
  shows,   \* per screen: the step of the line as it is listed
  calls,   \* taps on their way: the screen and the step asked for
  queue,   \* per screen: taps in its outbox, oldest first
  step,    \* the line's step at the venue
  stamped, \* accepted_at and ready_at, as the steps that have set them
  taps,    \* how many there have been
  hurried  \* a tap was made behind the line, or with another one under way

stations == <<shows, calls, queue, step, stamped, taps, hurried>>

\* Mutant: a ticket offers every step.
AnyTicket(s) == Moves

\* What a screen offers for the line: the next step, and nothing once it is
\* served.  The bar lists what a line is still to be done on, the kitchen counts
\* what nobody has taken yet.
BarTicket(s)     == IF shows[s] < Len(Steps) THEN {shows[s] + 1} ELSE {}
KitchenTicket(s) == IF shows[s] < Len(Steps) THEN {shows[s] + 1} ELSE {}
ActiveOrders     == {s \in Screens : BarTicket(s) # {}}
PendingCount(s)  == IF shows[s] = 1 THEN 1 ELSE 0

Outstanding == calls # {} \/ \E s \in Screens : queue[s] # <<>>

\* submit: the call is made whatever the queue holds, unless the browser says
\* that it is offline.
Mark(s, m) ==
  /\ taps < MaxTaps
  /\ taps' = taps + 1
  /\ hurried' = (hurried \/ Outstanding \/ shows[s] # step)
  /\ \/ calls' = calls \union {[tap |-> taps + 1, screen |-> s, to |-> m]} /\ UNCHANGED queue
     \/ queue' = [queue EXCEPT ![s] = Append(@, m)] /\ UNCHANGED calls
  /\ UNCHANGED <<shows, step, stamped>>

MarkPreparing(s) == 2 \in BarTicket(s) /\ Mark(s, 2)
MarkReady(s)     == 3 \in BarTicket(s) /\ Mark(s, 3)
MarkDelivered(s) == 4 \in BarTicket(s) /\ Mark(s, 4)

\* update_item_status: whatever is asked for; the stamps of the first move stay.
Apply(m) ==
  /\ step' = m
  /\ stamped' = stamped \union ({m} \intersect {2, 3})

Served(c) ==
  /\ c \in calls
  /\ calls' = calls \ {c}
  /\ Apply(c.to)
  /\ UNCHANGED <<shows, queue, taps, hurried>>

\* The call fails: the tap joins the queue.
Fails(c) ==
  /\ c \in calls
  /\ calls' = calls \ {c}
  /\ queue' = [queue EXCEPT ![c.screen] = Append(@, c.to)]
  /\ UNCHANGED <<shows, step, stamped, taps, hurried>>

\* The outbox sends its oldest.
Flushed(s) ==
  /\ queue[s] # <<>>
  /\ queue' = [queue EXCEPT ![s] = Tail(@)]
  /\ Apply(Head(queue[s]))
  /\ UNCHANGED <<shows, calls, taps, hurried>>

\* The reload after a tap or an event.
LoadOrders(s) ==
  /\ shows' = [shows EXCEPT ![s] = step]
  /\ UNCHANGED <<calls, queue, step, stamped, taps, hurried>>

StationInit ==
  /\ shows = [s \in Screens |-> 1] /\ step = 1
  /\ calls = {} /\ queue = [s \in Screens |-> <<>>]
  /\ stamped = {} /\ taps = 0 /\ hurried = FALSE

StationNext ==
  \/ \E s \in Screens :
       \/ MarkPreparing(s) \/ MarkReady(s) \/ MarkDelivered(s)
       \/ Flushed(s) \/ LoadOrders(s)
  \/ \E c \in calls : Served(c) \/ Fails(c)

StationSpec == StationInit /\ [][StationNext]_stations

-----------------------------------------------------------------------------
\* A line goes backwards, at the bar and on the guest's tracker, only by taps
\* that overtook each other or that were made on a list that was behind: the
\* hazard of a queue that a new tap does not wait for (useOffline.tsx:85).
BackwardsNeedsHurry == [][step' < step => hurried]_stations

\* Why: while nobody hurries there is one tap at a time, and what it asks for is
\* the step after the line's.
StationTypeOK ==
  /\ shows \in [Screens -> 1 .. 4] /\ step \in 1 .. 4
  /\ queue \in [Screens -> Seq(Moves)]
  /\ \A c \in calls : c \in [tap : Nat, screen : Screens, to : Moves]
  /\ taps \in Nat
OneTap ==
  ~hurried =>
    /\ \A c, d \in calls : c = d
    /\ \A c \in calls : c.to = step + 1 /\ \A s \in Screens : queue[s] = <<>>
    /\ \A s \in Screens : queue[s] # <<>> =>
         /\ queue[s] = <<step + 1>>
         /\ \A t \in Screens : queue[t] # <<>> => t = s
StationInv == StationTypeOK /\ OneTap
=============================================================================
