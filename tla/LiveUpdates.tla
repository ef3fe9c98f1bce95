---------------------------- MODULE LiveUpdates ----------------------------
(***************************************************************************)
(* How a change reaches the staff's screens: the handler that stores it    *)
(* and announces it, the ConnectionManager of each worker process with its *)
(* Redis link (ws_manager.py), the staff channel with its ticket           *)
(* (websocket.py, venueChannel.ts, ws.tsx), and the reload every event     *)
(* causes.  What is stored is a version number; an announcement says only  *)
(* that there is something to reload.  A screen is one mount of a page.    *)
(***************************************************************************)
EXTENDS Naturals, FiniteSets

CONSTANTS
  Workers, Screens,   \* the server's processes, the staff's open pages
  None,
  MaxVersion,         \* how many changes are made
  MaxFaults           \* how often Redis or a link to it fails, a socket is
                      \* lost, a handler or a dispatch ends half way, or a
                      \* reload fails

ASSUME LiveIds == None \notin Workers /\ None \notin Nat
ASSUME LiveBounds == {MaxVersion, MaxFaults} \subseteq Nat

VARIABLES
  version,   \* what is committed
  task,      \* per worker: "idle", "stored" or "announced"
  redis,     \* whether Redis answers
  linked,    \* per worker: manager._redis is set
  listening, \* per worker: its listener is subscribed
  air,       \* per worker: how much is published to it and not dispatched
  socket,    \* per screen: the worker its socket is on
  ticket,    \* per screen: "none", "fresh" or "stale"
  due,       \* screens with a reload the server has not answered
  replies,   \* per screen: answers on their way
  view,      \* per screen: the version it shows, None before the first
  faults,    \* how many there have been
  missed,    \* history: screens that a change may have passed by since the
             \* server last answered them, or whose reload failed: HasReason
  raced      \* history: screens whose last answer was given while another was
             \* on its way, or while an announced change was not stored

manager == <<linked, listening, air>>
screens == <<socket, ticket, due, replies, view, raced>>
vars    == <<version, task, redis, manager, screens, faults, missed>>

-----------------------------------------------------------------------------
Init ==
  /\ version = 0
  /\ task = [w \in Workers |-> "idle"]
  /\ redis = TRUE
  /\ linked = [w \in Workers |-> TRUE] /\ listening = [w \in Workers |-> TRUE]
  /\ air = [w \in Workers |-> 0]
  /\ socket = [s \in Screens |-> None]
  /\ ticket = [s \in Screens |-> "none"]
  /\ due = Screens
  /\ replies = [s \in Screens |-> {}]
  /\ view = [s \in Screens |-> None]
  /\ faults = 0
  /\ missed = {} /\ raced = {}

On(w)    == {s \in Screens : socket[s] = w}
Early(w) == task[w] = "announced"

Faults(n) == faults + n <= MaxFaults /\ faults' = faults + n
Fault     == Faults(1)

\* Redis is down, or one link to it fails while Redis itself is up.
LinkFaults == IF redis THEN 1 ELSE 0

Stored == version + 1

\* Mutant: the link survives the subscription.
StaysLinked(w) == linked

Unlinked(w) == [linked EXCEPT ![w] = FALSE]

\* Mutant: the event plays its sound and the list stays as it is.
NotReloaded(told) == due

\* _dispatch on one worker; every event makes the screens it is told to reload
\* (INVALIDATES).  A socket that comes or goes while it sends, the set it walks
\* over changing under it, makes it raise, and the rest are not told.
Dispatched(told) == due \union told

RaiseFaults(w, told) == IF told = On(w) THEN 0 ELSE 1

\* _publish through Redis: every subscribed worker hears it, the publisher too.
ThroughRedis(w) ==
  /\ linked[w] /\ redis
  /\ air' = [v \in Workers |-> IF listening[v] THEN air[v] + 1 ELSE air[v]]
  /\ missed' = missed \union (Screens \ UNION {On(v) : v \in {u \in Workers : listening[u]}})
  /\ UNCHANGED <<linked, due, faults>>

\* Without a link, or when publishing fails, this worker's sockets only; and
\* the link counts as gone.
Locally(w, told) ==
  /\ Faults((IF linked[w] THEN LinkFaults ELSE 0) + RaiseFaults(w, told))
  /\ linked' = Unlinked(w)
  /\ due' = Dispatched(told)
  /\ missed' = missed \union (Screens \ told)
  /\ UNCHANGED air

Broadcast(w, told) ==
  /\ (told = On(w) /\ ThroughRedis(w)) \/ Locally(w, told)
  /\ UNCHANGED <<redis, listening, socket, ticket, replies, view, raced>>

-----------------------------------------------------------------------------
\* The handlers: MaxVersion changes are begun and not given up.

MayBegin(w) ==
  task[w] = "idle" /\ version + Cardinality({v \in Workers : Early(v)}) < MaxVersion

\* All but the sweeper store first and announce then ...
Store(w) ==
  /\ MayBegin(w)
  /\ version' = Stored
  /\ task' = [task EXCEPT ![w] = "stored"]
  /\ UNCHANGED <<redis, manager, screens, faults, missed>>

Announce(w) ==
  /\ task[w] = "stored"
  /\ task' = [task EXCEPT ![w] = "idle"]
  /\ \E told \in SUBSET On(w) : Broadcast(w, told)
  /\ UNCHANGED version

\* ... escalate_stale_alerts the other way round; if the announcement raises it
\* stores nothing.
AnnounceFirst(w) ==
  /\ MayBegin(w)
  /\ \E told \in SUBSET On(w) :
       /\ Broadcast(w, told)
       /\ task' = IF told = On(w) THEN [task EXCEPT ![w] = "announced"] ELSE task
  /\ UNCHANGED version

StoreLast(w) ==
  /\ Early(w)
  /\ version' = Stored
  /\ task' = [task EXCEPT ![w] = "idle"]
  /\ UNCHANGED <<redis, manager, screens, faults, missed>>

\* A worker's death, or an exception between the two, ends a handler half way:
\* what it stored is not announced, or what it announced is not stored.
Dies(w) ==
  /\ task[w] # "idle"
  /\ Fault
  /\ task' = [task EXCEPT ![w] = "idle"]
  /\ missed' = IF task[w] = "stored" THEN Screens ELSE missed
  /\ UNCHANGED <<version, redis, manager, screens>>

-----------------------------------------------------------------------------
\* Redis and the listeners.

\* The listener logs a dispatch that raises, and goes on with the next message.
Listened(w) ==
  /\ air[w] > 0
  /\ air' = [air EXCEPT ![w] = @ - 1]
  /\ \E told \in SUBSET On(w) :
       /\ Faults(RaiseFaults(w, told))
       /\ due' = Dispatched(told)
       /\ missed' = missed \union (On(w) \ told)
  /\ UNCHANGED <<version, task, redis, linked, listening, socket, ticket, replies,
                 view, raced>>

RedisGoes ==
  /\ redis /\ redis' = FALSE
  /\ Fault
  /\ UNCHANGED <<version, task, manager, screens, missed>>

RedisReturns ==
  /\ ~redis /\ redis' = TRUE
  /\ UNCHANGED <<version, task, manager, screens, faults, missed>>

\* The subscription breaks, and what it had not delivered is lost.
ListenerBreaks(w) ==
  /\ listening[w] /\ Faults(LinkFaults)
  /\ listening' = [listening EXCEPT ![w] = FALSE]
  /\ linked' = Unlinked(w)
  /\ air' = [air EXCEPT ![w] = 0]
  /\ missed' = IF air[w] > 0 THEN missed \union On(w) ELSE missed
  /\ UNCHANGED <<version, task, redis, screens>>

\* Mutant: the subscription is back, the publisher's link is not set.
OnlyListens(w) == linked

Relinked(w) == [linked EXCEPT ![w] = TRUE]

\* _listen_forever tries again, for ever.
ListenerReturns(w) ==
  /\ ~listening[w] /\ redis
  /\ listening' = [listening EXCEPT ![w] = TRUE]
  /\ linked' = Relinked(w)
  /\ UNCHANGED <<version, task, redis, air, screens, faults, missed>>

-----------------------------------------------------------------------------
\* The screens.

\* useVenueChannel fetches one ticket when the page is mounted ...
TicketFetched(s) ==
  /\ ticket[s] = "none"
  /\ ticket' = [ticket EXCEPT ![s] = "fresh"]
  /\ UNCHANGED <<version, task, redis, manager, socket, due, replies, view, raced, faults, missed>>

\* ... which is good for thirty seconds ...
TicketExpires(s) ==
  /\ ticket[s] = "fresh"
  /\ ticket' = [ticket EXCEPT ![s] = "stale"]
  /\ UNCHANGED <<version, task, redis, manager, socket, due, replies, view, raced, faults, missed>>

\* ... and useReconnectingWS opens the same URL again and again; the server
\* closes a connection with an expired ticket before it has accepted it.
Admitted(s) == ticket[s] = "fresh"

Connect(s) ==
  /\ socket[s] = None /\ Admitted(s)
  /\ \E w \in Workers : socket' = [socket EXCEPT ![s] = w]
  /\ UNCHANGED <<version, task, redis, manager, ticket, due, replies, view, raced, faults, missed>>

Drop(s) ==
  /\ socket[s] # None
  /\ Fault
  /\ socket' = [socket EXCEPT ![s] = None]
  /\ missed' = IF air[socket[s]] > 0 THEN missed \union {s} ELSE missed
  /\ UNCHANGED <<version, task, redis, manager, ticket, due, replies, view, raced>>

\* The server answers a reload with what is committed; requests it has not
\* answered yet count as one.
Served(s) ==
  /\ s \in due
  /\ due' = due \ {s}
  /\ replies' = [replies EXCEPT ![s] = @ \union {version}]
  /\ raced' = IF replies[s] # {} \/ \E w \in Workers : Early(w)
              THEN raced \union {s} ELSE raced \ {s}
  /\ missed' = missed \ {s}
  /\ UNCHANGED <<version, task, redis, manager, socket, ticket, view, faults>>

\* A fetch that fails is swallowed: the screen keeps what it shows, and nothing
\* asks again before the next event.
ReloadFails(s) ==
  /\ s \in due
  /\ Fault
  /\ due' = due \ {s}
  /\ missed' = missed \union {s}
  /\ UNCHANGED <<version, task, redis, manager, socket, ticket, replies, view, raced>>

AnswerLost(s) ==
  \E v \in replies[s] :
    /\ Fault
    /\ replies' = [replies EXCEPT ![s] = @ \ {v}]
    /\ missed' = missed \union {s}
    /\ UNCHANGED <<version, task, redis, manager, socket, ticket, due, view, raced>>

\* The screen shows the answers in whatever order they arrive.
Shows(s) ==
  \E v \in replies[s] :
    /\ view' = [view EXCEPT ![s] = v]
    /\ replies' = [replies EXCEPT ![s] = @ \ {v}]
    /\ UNCHANGED <<version, task, redis, manager, socket, ticket, due, raced, faults, missed>>

-----------------------------------------------------------------------------
Handle(w) == Announce(w) \/ StoreLast(w)

Next ==
  \/ RedisGoes \/ RedisReturns
  \/ \E w \in Workers :
       \/ Store(w) \/ AnnounceFirst(w) \/ Handle(w) \/ Dies(w)
       \/ Listened(w) \/ ListenerBreaks(w) \/ ListenerReturns(w)
  \/ \E s \in Screens :
       \/ TicketFetched(s) \/ TicketExpires(s) \/ Connect(s) \/ Drop(s)
       \/ Served(s) \/ ReloadFails(s) \/ AnswerLost(s) \/ Shows(s)

Spec == Init /\ [][Next]_vars

\* Redis comes back, listeners read and subscribe again, handlers end, reloads
\* are answered or fail.  Nothing is said of connecting within a ticket's life,
\* nor of asking again.
Fairness ==
  /\ WF_vars(RedisReturns)
  /\ \A w \in Workers : /\ WF_vars(Listened(w)) /\ WF_vars(ListenerReturns(w))
                        /\ WF_vars(Handle(w))
  /\ \A s \in Screens : WF_vars(Served(s)) /\ WF_vars(Shows(s))

FairSpec == Spec /\ Fairness

-----------------------------------------------------------------------------
TypeOK ==
  /\ version \in 0 .. MaxVersion
  /\ task \in [Workers -> {"idle", "stored", "announced"}]
  /\ redis \in BOOLEAN
  /\ linked \in [Workers -> BOOLEAN] /\ listening \in [Workers -> BOOLEAN]
  /\ air \in [Workers -> Nat]
  /\ socket \in [Screens -> Workers \union {None}]
  /\ ticket \in [Screens -> {"none", "fresh", "stale"}]
  /\ due \subseteq Screens
  /\ replies \in [Screens -> SUBSET (0 .. MaxVersion)]
  /\ view \in [Screens -> 0 .. MaxVersion \union {None}]
  /\ faults \in Nat
  /\ missed \subseteq Screens /\ raced \subseteq Screens

\* A worker publishes through Redis only while its own listener is up, so that
\* what it publishes comes back to its own screens; and only a listener that is
\* up has anything to read (_listen_forever owns both).
LinksInv ==
  \A w \in Workers : ~listening[w] => ~linked[w] /\ air[w] = 0

\* Why a screen may show something old for good: since the server last answered
\* it, it was off the channel when a change was announced, Redis, the handler or
\* the dispatch failed on the way, or a reload or its answer was lost; or one
\* answer overtook another, or the sweeper announced what was not stored.
HasReason(s) == s \in missed \union raced

\* Something is on its way that will make the screen reload, or show.
Pending(s) ==
  \/ s \in due \/ replies[s] # {}
  \/ socket[s] # None /\ air[socket[s]] > 0
  \/ \E w \in Workers : task[w] = "stored"

\* "Nothing was broken. Something was merely not mentioned" (venueChannel.ts):
\* a screen that shows less than is stored is about to hear of it, or there is
\* one of those reasons.  In particular no change is announced too early for
\* the reload it causes to see it, except by the sweeper.
StaleHasReason ==
  \A s \in Screens :
    view[s] # None /\ view[s] # version => Pending(s) \/ HasReason(s)

\* When no more changes are made every screen ends up with the last of them, or
\* has a reason not to.
ScreensCatchUp ==
  \A s \in Screens : <>[](view[s] = version \/ HasReason(s))

\* "A Redis restart mid-service self-heals" (ws_manager.py): a worker whose
\* subscription broke publishes through Redis again.
LinkHeals ==
  \A w \in Workers : ~listening[w] ~> linked[w]

\* Screens and workers catch up (ws_manager.py:49-120, venueChannel.ts:95-140).
AllCatchUp == ScreensCatchUp /\ LinkHeals
=============================================================================
