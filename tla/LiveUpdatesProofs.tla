-------------------------- MODULE LiveUpdatesProofs --------------------------
(***************************************************************************)
(* For any number of workers, screens, changes and failures: a worker has  *)
(* its publishing link only while its listener is up, and a screen is left *)
(* behind only for one of the reasons of HasReason.                        *)
(***************************************************************************)
EXTENDS LiveUpdates, TLAPS

Shape ==
  /\ version \in Nat
  /\ task \in [Workers -> {"idle", "stored", "announced"}]
  /\ linked \in [Workers -> BOOLEAN] /\ listening \in [Workers -> BOOLEAN]
  /\ air \in [Workers -> Nat]
  /\ socket \in [Screens -> Workers \union {None}]
  /\ replies \in [Screens -> SUBSET Nat]
  /\ view \in [Screens -> Nat \union {None}]

OnAir(s)    == socket[s] # None /\ air[socket[s]] > 0
Unsaid      == \E w \in Workers : task[w] = "stored"
Covered(s)  == s \in missed \/ s \in raced \/ s \in due \/ OnAir(s) \/ Unsaid

\* What a screen with nothing on its way and no reason looks like.  That no
\* change is announced and not stored is what makes StoreLast keep it.
CaughtUp(s) ==
  /\ replies[s] \subseteq {version}
  /\ replies[s] = {} => view[s] \in {version, None}
  /\ \A w \in Workers : task[w] # "announced"

NobodyForgotten == \A s \in Screens : Covered(s) \/ CaughtUp(s)

LiveInv == Shape /\ LinksInv /\ NobodyForgotten

-----------------------------------------------------------------------------
LEMMA InitLive == Init => LiveInv
BY LiveIds DEF Init, LiveInv, Shape, LinksInv, NobodyForgotten, Covered, CaughtUp, OnAir, Unsaid

\* A broadcast reaches, or misses, every screen: none is forgotten after it.
LEMMA BroadcastCovers ==
  ASSUME LiveInv, NEW w \in Workers, NEW told \in SUBSET On(w), Broadcast(w, told)
  PROVE  /\ linked' \in [Workers -> BOOLEAN] /\ air' \in [Workers -> Nat]
         /\ LinksInv'
         /\ \A s \in Screens : s \in missed' \/ s \in due' \/ OnAir(s)'
<1>1. CASE ThroughRedis(w)
  <2>1. \A s \in Screens : s \in missed' \/ OnAir(s)'
    <3> SUFFICES ASSUME NEW s \in Screens, s \notin missed'
                 PROVE  OnAir(s)'
        OBVIOUS
    <3>1. PICK v \in Workers : listening[v] /\ s \in On(v)
          BY <1>1 DEF ThroughRedis
    <3>2. socket[s] = v /\ socket' = socket
          BY <3>1 DEF On, Broadcast
    <3>3. v # None /\ air'[v] = air[v] + 1 /\ air[v] \in Nat
          BY <1>1, <3>1, LiveIds DEF ThroughRedis, LiveInv, Shape
    <3>4. QED
          BY <3>2, <3>3 DEF OnAir
  <2>2. air' \in [Workers -> Nat] /\ linked' = linked
        BY <1>1 DEF ThroughRedis, LiveInv, Shape
  <2>3. LinksInv'
        BY <1>1, <2>2 DEF ThroughRedis, Broadcast, LiveInv, LinksInv, Shape
  <2>4. QED
        BY <2>1, <2>2, <2>3 DEF LiveInv, Shape
<1>2. CASE Locally(w, told)
  <2>1. \A s \in Screens : s \in missed' \/ s \in due'
        BY <1>2 DEF Locally, Dispatched, On
  <2>2. linked' \in [Workers -> BOOLEAN] /\ air' = air /\ listening' = listening
        BY <1>2 DEF Locally, Unlinked, Broadcast, LiveInv, Shape
  <2>3. \A v \in Workers : linked'[v] => linked[v]
        BY <1>2 DEF Locally, Unlinked, LiveInv, Shape
  <2>4. LinksInv'
        BY <2>2, <2>3 DEF LiveInv, LinksInv
  <2>5. QED
        BY <2>1, <2>2, <2>4 DEF LiveInv, Shape
<1>3. QED
      BY <1>1, <1>2 DEF Broadcast

LEMMA AnnouncingKeeps ==
  ASSUME LiveInv, NEW w \in Workers, Announce(w) \/ AnnounceFirst(w)
  PROVE  LiveInv'
<1>0. PICK told \in SUBSET On(w) : Broadcast(w, told)
      BY DEF Announce, AnnounceFirst
<1>1. version' = version
      BY DEF Announce, AnnounceFirst
<1>2. task' \in [Workers -> {"idle", "stored", "announced"}]
      BY DEF Announce, AnnounceFirst, LiveInv, Shape
<1>3. UNCHANGED <<listening, socket, replies, view>>
      BY <1>0 DEF Broadcast
<1>4. /\ linked' \in [Workers -> BOOLEAN] /\ air' \in [Workers -> Nat] /\ LinksInv'
      /\ \A s \in Screens : s \in missed' \/ s \in due' \/ OnAir(s)'
      BY <1>0, BroadcastCovers
<1>5. Shape'
      BY <1>1, <1>2, <1>3, <1>4 DEF LiveInv, Shape
<1>6. NobodyForgotten'
      BY <1>4 DEF NobodyForgotten, Covered
<1>7. QED
      BY <1>4, <1>5, <1>6 DEF LiveInv

LEMMA StoringKeeps ==
  ASSUME LiveInv, NEW w \in Workers, Store(w) \/ StoreLast(w) \/ Dies(w)
  PROVE  LiveInv'
<1>1. UNCHANGED <<linked, listening, air, socket, due, replies, view, raced>>
      BY DEF Store, StoreLast, Dies, manager, screens
<1>2. version' \in Nat /\ task' \in [Workers -> {"idle", "stored", "announced"}]
      BY DEF Store, StoreLast, Dies, Stored, LiveInv, Shape
<1>3. Shape' /\ LinksInv'
      BY <1>1, <1>2 DEF LiveInv, Shape, LinksInv
<1>4. ASSUME NEW s \in Screens
      PROVE  Covered(s)' \/ CaughtUp(s)'
  <2>1. CASE Store(w)
    <3>1. task'[w] = "stored"
          BY <2>1 DEF Store, LiveInv, Shape
    <3>2. QED
          BY <3>1 DEF Covered, Unsaid
  <2>2. CASE task[w] = "announced" /\ (StoreLast(w) \/ Dies(w))
    <3>1. Covered(s)
          BY <2>2 DEF LiveInv, NobodyForgotten, CaughtUp
    <3>2. \A v \in Workers : task[v] = "stored" => task'[v] = "stored"
          BY <2>2 DEF StoreLast, Dies, LiveInv, Shape
    <3>3. missed' = missed
          BY <2>2 DEF StoreLast, Dies
    <3>4. QED
          BY <1>1, <3>1, <3>2, <3>3 DEF Covered, OnAir, Unsaid
  <2>3. CASE task[w] # "announced" /\ Dies(w)
    <3>1. task[w] = "stored"
          BY <2>3 DEF Dies, LiveInv, Shape
    <3>2. s \in missed'
          BY <2>3, <3>1 DEF Dies
    <3>3. QED
          BY <3>2 DEF Covered
  <2>4. QED
        BY <2>1, <2>2, <2>3 DEF StoreLast, Early
<1>5. QED
      BY <1>3, <1>4 DEF LiveInv, NobodyForgotten

LEMMA ListeningKeeps ==
  ASSUME LiveInv, NEW w \in Workers, Listened(w) \/ ListenerBreaks(w) \/ ListenerReturns(w)
  PROVE  LiveInv'
<1>1. UNCHANGED <<version, task, socket, replies, view, raced>>
      BY DEF Listened, ListenerBreaks, ListenerReturns, screens
<1>2. Shape'
  <2>1. air' \in [Workers -> Nat]
    <3>1. Listened(w) => air[w] - 1 \in Nat
          BY DEF Listened, LiveInv, Shape
    <3>2. CASE Listened(w)
          BY <3>1, <3>2 DEF Listened, LiveInv, Shape
    <3>3. CASE ~Listened(w)
          BY <3>3 DEF ListenerBreaks, ListenerReturns, LiveInv, Shape
    <3>4. QED
          BY <3>2, <3>3
  <2>2. linked' \in [Workers -> BOOLEAN] /\ listening' \in [Workers -> BOOLEAN]
    <3>1. CASE Listened(w)
          BY <3>1 DEF Listened, LiveInv, Shape
    <3>2. CASE ListenerBreaks(w)
          BY <3>2 DEF ListenerBreaks, Unlinked, LiveInv, Shape
    <3>3. CASE ListenerReturns(w)
          BY <3>3 DEF ListenerReturns, Relinked, LiveInv, Shape
    <3>4. QED
          BY <3>1, <3>2, <3>3
  <2>3. QED
        BY <1>1, <2>1, <2>2 DEF LiveInv, Shape
<1>3. LinksInv'
  <2>1. CASE Listened(w)
        BY <2>1 DEF Listened, LiveInv, Shape, LinksInv
  <2>2. CASE ListenerBreaks(w)
        BY <2>2 DEF ListenerBreaks, Unlinked, LiveInv, Shape, LinksInv
  <2>3. CASE ListenerReturns(w)
        BY <2>3 DEF ListenerReturns, Relinked, LiveInv, Shape, LinksInv
  <2>4. QED
        BY <2>1, <2>2, <2>3
<1>4. \A s \in Screens : CaughtUp(s) => CaughtUp(s)'
      BY <1>1 DEF CaughtUp
<1>5. ASSUME NEW s \in Screens, Covered(s)
      PROVE  Covered(s)'
  <2>1. missed \subseteq missed' /\ due \subseteq due'
        BY DEF Listened, ListenerBreaks, ListenerReturns, Dispatched, screens
  <2>2. CASE OnAir(s) /\ socket[s] = w
    <3>1. s \in On(w)
          BY <2>2 DEF On
    <3>2. s \in missed' \/ s \in due' \/ air' = air
          BY <2>2, <3>1 DEF Listened, ListenerBreaks, ListenerReturns, Dispatched, OnAir
    <3>3. QED
          BY <1>1, <2>2, <3>2 DEF Covered, OnAir
  <2>3. CASE OnAir(s) /\ socket[s] # w
    <3>1. socket[s] \in Workers
          BY <2>3 DEF OnAir, LiveInv, Shape
    <3>2. air'[socket[s]] = air[socket[s]]
          BY <2>3, <3>1 DEF Listened, ListenerBreaks, ListenerReturns, LiveInv, Shape
    <3>3. QED
          BY <1>1, <2>3, <3>2 DEF Covered, OnAir
  <2>4. CASE ~OnAir(s)
        BY <1>1, <1>5, <2>1, <2>4 DEF Covered, Unsaid
  <2>5. QED
        BY <2>2, <2>3, <2>4
<1>6. QED
      BY <1>2, <1>3, <1>4, <1>5 DEF LiveInv, NobodyForgotten

LEMMA SocketsKeep ==
  ASSUME LiveInv, NEW s \in Screens,
         TicketFetched(s) \/ TicketExpires(s) \/ Connect(s) \/ Drop(s)
  PROVE  LiveInv'
<1>1. UNCHANGED <<version, task, linked, listening, air, due, replies, view, raced>>
      BY DEF TicketFetched, TicketExpires, Connect, Drop, manager
<1>2. socket' \in [Screens -> Workers \union {None}]
      BY DEF TicketFetched, TicketExpires, Connect, Drop, LiveInv, Shape
<1>3. Shape' /\ LinksInv'
      BY <1>1, <1>2 DEF LiveInv, Shape, LinksInv
<1>4. \A t \in Screens : CaughtUp(t) => CaughtUp(t)'
      BY <1>1 DEF CaughtUp
<1>5. missed \subseteq missed'
      BY DEF TicketFetched, TicketExpires, Connect, Drop
<1>6. ASSUME NEW t \in Screens, OnAir(t)
      PROVE  OnAir(t)' \/ t \in missed'
  <2>1. CASE socket'[t] = socket[t]
        BY <1>1, <1>6, <2>1 DEF OnAir
  <2>2. CASE socket'[t] # socket[t]
        BY <1>6, <2>2 DEF OnAir, TicketFetched, TicketExpires, Connect, Drop, LiveInv, Shape
  <2>3. QED
        BY <2>1, <2>2
<1>7. \A t \in Screens : Covered(t) => Covered(t)'
      BY <1>1, <1>5, <1>6 DEF Covered, Unsaid
<1>8. QED
      BY <1>3, <1>4, <1>7 DEF LiveInv, NobodyForgotten

\* A reload that fails, or an answer that is lost, is a reason for its screen.
LEMMA FailingKeeps ==
  ASSUME LiveInv, NEW s \in Screens, ReloadFails(s) \/ AnswerLost(s)
  PROVE  LiveInv'
<1>1. UNCHANGED <<version, task, linked, listening, air, socket, view, raced>>
      BY DEF ReloadFails, AnswerLost, manager
<1>2. Shape'
      BY <1>1 DEF ReloadFails, AnswerLost, LiveInv, Shape
<1>3. LinksInv'
      BY <1>1 DEF LiveInv, LinksInv
<1>4. missed' = missed \union {s}
      BY DEF ReloadFails, AnswerLost
<1>5. ASSUME NEW t \in Screens, t # s
      PROVE  Covered(t)' \/ CaughtUp(t)'
  <2>1. replies'[t] = replies[t] /\ (t \in due' <=> t \in due)
        BY <1>5 DEF ReloadFails, AnswerLost, LiveInv, Shape
  <2>2. CaughtUp(t) => CaughtUp(t)'
        BY <1>1, <2>1 DEF CaughtUp
  <2>3. Covered(t) => Covered(t)'
        BY <1>1, <1>4, <2>1 DEF Covered, OnAir, Unsaid
  <2>4. QED
        BY <2>2, <2>3 DEF LiveInv, NobodyForgotten
<1>6. QED
      BY <1>2, <1>3, <1>4, <1>5 DEF LiveInv, NobodyForgotten, Covered

LEMMA AnsweringKeeps ==
  ASSUME LiveInv, NEW s \in Screens, Served(s) \/ Shows(s)
  PROVE  LiveInv'
<1>1. UNCHANGED <<version, task, linked, listening, air, socket>>
      BY DEF Served, Shows, manager
<1>2. Shape'
      BY <1>1 DEF Served, Shows, LiveInv, Shape
<1>3. LinksInv'
      BY <1>1 DEF LiveInv, LinksInv
<1>4. ASSUME NEW t \in Screens, t # s
      PROVE  Covered(t)' \/ CaughtUp(t)'
  <2>1. replies'[t] = replies[t] /\ view'[t] = view[t]
        BY <1>4 DEF Served, Shows, LiveInv, Shape
  <2>2. (t \in missed' <=> t \in missed) /\ (t \in raced' <=> t \in raced) /\ (t \in due' <=> t \in due)
        BY <1>4 DEF Served, Shows
  <2>3. CaughtUp(t) => CaughtUp(t)'
        BY <1>1, <2>1 DEF CaughtUp
  <2>4. Covered(t) => Covered(t)'
        BY <1>1, <2>2 DEF Covered, OnAir, Unsaid
  <2>5. QED
        BY <2>3, <2>4 DEF LiveInv, NobodyForgotten
<1>5. Covered(s)' \/ CaughtUp(s)'
  <2>1. CASE Served(s)
    <3>1. CASE replies[s] # {} \/ \E w \in Workers : Early(w)
          BY <2>1, <3>1 DEF Served, Covered
    <3>2. CASE replies[s] = {} /\ \A w \in Workers : ~Early(w)
      <4>1. replies'[s] = {version}
            BY <2>1, <3>2 DEF Served, LiveInv, Shape
      <4>2. CaughtUp(s)'
            BY <1>1, <3>2, <4>1 DEF CaughtUp, Early
      <4>3. QED
            BY <4>2
    <3>3. QED
          BY <3>1, <3>2
  <2>2. CASE Shows(s)
    <3>1. UNCHANGED <<missed, raced, due>>
          BY <2>2 DEF Shows
    <3>2. CASE Covered(s)
          BY <1>1, <3>1, <3>2 DEF Covered, OnAir, Unsaid
    <3>3. CASE CaughtUp(s)
      <4>1. PICK v \in replies[s] : view' = [view EXCEPT ![s] = v]
                                    /\ replies' = [replies EXCEPT ![s] = @ \ {v}]
            BY <2>2 DEF Shows
      <4>2. v = version
            BY <3>3, <4>1 DEF CaughtUp
      <4>3. view'[s] = version /\ replies'[s] = replies[s] \ {version}
            BY <4>1, <4>2 DEF LiveInv, Shape
      <4>4. CaughtUp(s)'
            BY <1>1, <3>3, <4>3 DEF CaughtUp
      <4>5. QED
            BY <4>4
    <3>4. QED
          BY <3>2, <3>3 DEF LiveInv, NobodyForgotten
  <2>3. QED
        BY <2>1, <2>2
<1>6. QED
      BY <1>2, <1>3, <1>4, <1>5 DEF LiveInv, NobodyForgotten

LEMMA StepKeeps == LiveInv /\ [Next]_vars => LiveInv'
<1> SUFFICES ASSUME LiveInv, [Next]_vars
             PROVE  LiveInv'
    OBVIOUS
<1>1. CASE RedisGoes \/ RedisReturns \/ UNCHANGED vars
  <2>1. UNCHANGED <<version, task, linked, listening, air, socket, due, replies, view, raced, missed>>
        BY <1>1 DEF RedisGoes, RedisReturns, vars, manager, screens
  <2>2. QED
        BY <2>1 DEF LiveInv, Shape, LinksInv, NobodyForgotten, Covered, CaughtUp, OnAir, Unsaid
<1>2. ASSUME NEW w \in Workers, Store(w) \/ AnnounceFirst(w) \/ Handle(w) \/ Dies(w)
      PROVE  LiveInv'
      BY <1>2, AnnouncingKeeps, StoringKeeps DEF Handle
<1>3. ASSUME NEW w \in Workers, Listened(w) \/ ListenerBreaks(w) \/ ListenerReturns(w)
      PROVE  LiveInv'
      BY <1>3, ListeningKeeps
<1>4. ASSUME NEW s \in Screens,
             \/ TicketFetched(s) \/ TicketExpires(s) \/ Connect(s) \/ Drop(s)
             \/ Served(s) \/ ReloadFails(s) \/ AnswerLost(s) \/ Shows(s)
      PROVE  LiveInv'
      BY <1>4, SocketsKeep, FailingKeeps, AnsweringKeeps
<1>5. QED
      BY <1>1, <1>2, <1>3, <1>4 DEF Next

LEMMA LiveInvariant == Spec => []LiveInv
BY InitLive, StepKeeps, PTL DEF Spec

-----------------------------------------------------------------------------
\* A worker publishes through Redis only while its listener is up
\* (_listen_forever, _publish), so what it publishes comes back to its screens.
THEOREM LinkedOnlyWhileListening == Spec => []LinksInv
<1>1. LiveInv => LinksInv
      BY DEF LiveInv
<1>2. QED
      BY <1>1, LiveInvariant, PTL

\* However many workers, screens, changes and failures: a screen that shows less
\* than is stored will hear of it, or has one of the reasons of HasReason.  It
\* is about every handler announcing what it has stored, and only then, and
\* about every event causing a reload (venueChannel.ts).
THEOREM ScreensBehindHaveReason == Spec => []StaleHasReason
<1>1. LiveInv => StaleHasReason
  <2> SUFFICES ASSUME LiveInv, NEW s \in Screens, view[s] # None, view[s] # version
               PROVE  Pending(s) \/ HasReason(s)
      BY DEF StaleHasReason
  <2>1. CASE Covered(s)
        BY <2>1 DEF Covered, OnAir, Unsaid, Pending, HasReason
  <2>2. CASE CaughtUp(s)
        BY <2>2 DEF CaughtUp, Pending
  <2>3. QED
        BY <2>1, <2>2 DEF LiveInv, NobodyForgotten
<1>2. QED
      BY <1>1, LiveInvariant, PTL
=============================================================================
