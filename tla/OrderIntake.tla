---------------------------- MODULE OrderIntake ----------------------------
(***************************************************************************)
(* How a round gets from a screen to the bill: the tabs of a device with   *)
(* their shared IndexedDB outbox (offline.ts, useOffline.tsx), a network   *)
(* that loses answers and delays requests, and place_order with the        *)
(* client_request_id that is to make replays harmless.                     *)
(*                                                                         *)
(* A tab calls the server from two places, independent of each other:      *)
(* "submit" (the tap itself) and "flush" (the replay of the outbox).  A    *)
(* handler of the server is up to four steps, any other worker's steps in  *)
(* between: it looks the key up, looks for an order to join, commits, and, *)
(* for a round keyed in by staff, commits a second time to say whose it is.*)
(*                                                                         *)
(* Orders here stay open; what their status does is Settlement's business. *)
(***************************************************************************)
EXTENDS Handlers, Naturals, Sequences, FiniteSets

CONSTANTS
  Rounds,       \* POSTs of a round; each is its own client_request_id
  Taps,         \* PATCHes of a line's status
  Refusable,    \* requests the server rejects on their merits (404, 400)
  SessionOf,    \* per round: the guest session it carries, None if by staff
  LineOf,       \* per tap: the line it moves
  Lines, Sessions, Orders, Tabs,
  MaxLosses,    \* how many calls may fail on the network
  MaxDeaths,    \* how many handlers may die on the way
  MaxLimited    \* how many calls may meet a rate limit or an expired token

Requests == Rounds \union Taps
Clients  == Tabs \X {"submit", "flush"}
Answers  == {"ok", "refused", "limited", "failed"}

ASSUME IntakeIds ==
  /\ None \notin Requests /\ None \notin Sessions /\ None \notin Orders
  /\ None \notin Clients /\ None \notin Lines
  /\ Rounds \intersect Taps = {} /\ IsFiniteSet(Requests)
ASSUME IntakeRequests ==
  /\ Refusable \subseteq Requests
  /\ SessionOf \in [Rounds -> Sessions \union {None}]
  /\ LineOf \in [Taps -> Lines]
ASSUME IntakeBounds ==
  MaxLosses \in Nat /\ MaxDeaths \in Nat /\ MaxLimited \in Nat

VARIABLES
  \* The device.
  call,     \* per client: the request it is waiting for an answer to
  answer,   \* per client: "none" while it waits
  outbox,   \* the requests stored in IndexedDB
  queuedAt, \* per request: the place enqueue gave it, 0 before
  todo,     \* per tab: the rest of the listing its flush works through
  tapped,   \* per line: the latest tap
  \* The network.
  wire,     \* requests on their way to the server, with who waits for them
  losses, limited,
  spurned,  \* the requests so turned away, unjudged (history)
  \* The server.
  key,      \* orders.client_request_id
  session,  \* orders.session_token, None before the order exists
  exists,   \* the orders placed
  owned,    \* the orders assigned to a member of staff, with their audit row
  applied,  \* per request: how often the server has carried it out
  shown,    \* per line: the tap its status comes from
  task,     \* per worker: what it is handling, for whom, and where it is
  deaths

device  == <<call, answer, outbox, queuedAt, todo, tapped>>
network == <<wire, losses, limited, spurned>>
tables  == <<key, session, exists, owned, applied, shown>>
server  == <<tables, task, deaths>>
vars    == <<device, network, server>>

-----------------------------------------------------------------------------
NoTask == [req |-> None, client |-> None, at |-> "idle", order |-> None]

Init ==
  /\ call = [c \in Clients |-> None]
  /\ answer = [c \in Clients |-> "none"]
  /\ outbox = {} /\ queuedAt = [r \in Requests |-> 0]
  /\ todo = [t \in Tabs |-> <<>>]
  /\ tapped = [l \in Lines |-> None]
  /\ wire = {} /\ losses = 0 /\ limited = 0 /\ spurned = {}
  /\ key = [o \in Orders |-> None]
  /\ session = [o \in Orders |-> None]
  /\ exists = {} /\ owned = {}
  /\ applied = [r \in Requests |-> 0]
  /\ shown = [l \in Lines |-> None]
  /\ task = [w \in Workers |-> NoTask]
  /\ deaths = 0

-----------------------------------------------------------------------------
\* The device.

Free(c)    == call[c] = None
Fresh(r)   == queuedAt[r] = 0 /\ applied[r] = 0 /\ r \notin outbox
              /\ \A c \in Clients : call[c] # r
              /\ \A m \in wire : m.req # r
              /\ \A w \in Workers : task[w].req # r

Dial(c, r) ==
  /\ call' = [call EXCEPT ![c] = r]
  /\ answer' = [answer EXCEPT ![c] = "none"]
  /\ wire' = wire \union {[req |-> r, client |-> c]}

HangUp(c)  ==
  /\ call' = [call EXCEPT ![c] = None]
  /\ answer' = [answer EXCEPT ![c] = "none"]

\* enqueue: the newest place in the queue.
Enqueue(r) ==
  /\ outbox' = outbox \union {r}
  /\ queuedAt' = [queuedAt EXCEPT ![r] =
                    1 + Cardinality({q \in Requests : queuedAt[q] > 0})]

Remembers(r) ==
  tapped' = IF r \in Taps THEN [tapped EXCEPT ![LineOf[r]] = r] ELSE tapped

\* submit, for a request the user makes now, when the browser says offline ...
SubmitOffline(t, r) ==
  /\ Free(<<t, "submit">>) /\ Fresh(r)
  /\ Enqueue(r)
  /\ Remembers(r)
  /\ UNCHANGED <<call, answer, todo, network, server>>

\* ... and when it says online: whatever is queued, the call is made at once.
SubmitOnline(t, r) ==
  /\ Free(<<t, "submit">>) /\ Fresh(r)
  /\ Dial(<<t, "submit">>, r)
  /\ Remembers(r)
  /\ UNCHANGED <<outbox, queuedAt, todo, losses, limited, spurned, server>>

\* The queue as listPending returns it: oldest first.
Pending(q) ==
  /\ q \in [1 .. Cardinality(outbox) -> outbox]
  /\ \A i, j \in DOMAIN q : i < j => queuedAt[q[i]] < queuedAt[q[j]]

\* flush: one at a time in a tab; it lists the outbox and sends the first.
FlushStart(t) ==
  /\ Free(<<t, "flush">>) /\ todo[t] = <<>> /\ outbox # {}
  /\ \E q \in [1 .. Cardinality(outbox) -> outbox] :
       /\ Pending(q)
       /\ Dial(<<t, "flush">>, q[1])
       /\ todo' = [todo EXCEPT ![t] = Tail(q)]
  /\ UNCHANGED <<outbox, queuedAt, tapped, losses, limited, spurned, server>>

\* The loop goes on with the listing it made, whatever the outbox is by now.
FlushNext(t) ==
  /\ Free(<<t, "flush">>) /\ todo[t] # <<>>
  /\ Dial(<<t, "flush">>, Head(todo[t]))
  /\ todo' = [todo EXCEPT ![t] = Tail(@)]
  /\ UNCHANGED <<outbox, queuedAt, tapped, losses, limited, spurned, server>>

\* Mutants: a failed call counts as final too; a success does not.
AlwaysFinal(a) == TRUE
NeverEnough(a) == a \in {"refused", "limited"}

\* Mutant: only a success is final.
OnlyOk(a) == a = "ok"

\* res.ok or any 4xx is final, a 429, a 401 and a 403 among them; a 5xx is not.
Final(a) == a \in {"ok", "refused", "limited"}

SubmitAnswered(t) ==
  LET c == <<t, "submit">>
      r == call[c]
  IN  /\ answer[c] # "none"
      /\ HangUp(c)
      /\ IF Final(answer[c]) THEN UNCHANGED <<outbox, queuedAt>> ELSE Enqueue(r)
      /\ UNCHANGED <<todo, tapped, network, server>>

\* What the loop still has to send: a request that failed ends it.
Rest(t, a) == IF Final(a) THEN todo[t] ELSE <<>>

\* bumpAttempts stores the item again, also if another tab has removed it.
FlushAnswered(t) ==
  LET c == <<t, "flush">>
      r == call[c]
  IN  /\ answer[c] # "none"
      /\ HangUp(c)
      /\ outbox' = IF Final(answer[c]) THEN outbox \ {r} ELSE outbox \union {r}
      /\ todo' = [todo EXCEPT ![t] = Rest(t, answer[c])]
      /\ UNCHANGED <<queuedAt, tapped, network, server>>

-----------------------------------------------------------------------------
\* The network.  A call that fails leaves the request lost, late, or handled
\* with nobody listening: fetch rejects and the client sees a failed call.

Abandoned(c) ==
  task' = [w \in Workers |-> IF task[w].client = c
                             THEN [task[w] EXCEPT !.client = None] ELSE task[w]]

NetworkFails(c) ==
  /\ ~Free(c) /\ answer[c] = "none"
  /\ losses < MaxLosses
  /\ losses' = losses + 1
  /\ answer' = [answer EXCEPT ![c] = "failed"]
  /\ \/ wire' = {m \in wire : m.client # c}
     \/ wire' = {m \in wire : m.client # c}
                \union {[req |-> m.req, client |-> None] :
                          m \in {n \in wire : n.client = c}}
  /\ Abandoned(c)
  /\ UNCHANGED <<call, outbox, queuedAt, todo, tapped, limited, spurned, tables, deaths>>

\* The answer to whoever still waits for it.
Reply(c, a) ==
  answer' = IF c = None THEN answer ELSE [answer EXCEPT ![c] = a]

ByStaff(r)  == r \in Rounds /\ SessionOf[r] = None

\* Ahead of the handler: a rejection on the merits, or an answer that says
\* nothing of the request: a guest's round meets the rate limit (429), what staff
\* send carries a token that has expired (401; send, unlike the api client, does
\* not refresh it) or no longer has the role (403).
TurnedAway(m) ==
  /\ m \in wire
  /\ wire' = wire \ {m}
  /\ \/ /\ m.req \in Refusable
        /\ Reply(m.client, "refused")
        /\ UNCHANGED <<limited, spurned>>
     \/ /\ limited < MaxLimited
        /\ limited' = limited + 1
        /\ spurned' = spurned \union {m.req}
        /\ Reply(m.client, "limited")
  /\ UNCHANGED <<call, outbox, queuedAt, todo, tapped, losses, server>>

-----------------------------------------------------------------------------
\* The server.

Keyed(r)    == {o \in exists : key[o] = r}
Stay(w, f)  == task' = [task EXCEPT ![w] = f]
Done(w)     == Stay(w, NoTask)

\* The order a replayed key has produced already.
Seen(r) == Keyed(r)

\* place_order looks its key up first; what it finds is the answer.
Arrive(w, m) ==
  LET at(stage, o) == [req |-> m.req, client |-> m.client, at |-> stage, order |-> o]
  IN  /\ task[w] = NoTask
      /\ m \in wire /\ m.req \notin Refusable
      /\ wire' = wire \ {m}
      /\ IF m.req \in Rounds /\ Seen(m.req) # {}
         THEN \E o \in Seen(m.req) : Stay(w, at("placed", o))
         ELSE Stay(w, at("looking", None))
      /\ UNCHANGED <<device, losses, limited, spurned, tables, deaths>>

\* Later, another SELECT: an open order of the same session to join.
Look(w) ==
  LET r == task[w].req
      joinable == {o \in exists : session[o] = SessionOf[r]}
  IN  /\ task[w].at = "looking" /\ r \in Rounds
      /\ IF ~ByStaff(r) /\ joinable # {}
         THEN \E o \in joinable : Stay(w, [task[w] EXCEPT !.at = "joining", !.order = o])
         ELSE Stay(w, [task[w] EXCEPT !.at = "opening"])
      /\ UNCHANGED <<device, network, tables, deaths>>

\* Mutant: orders.client_request_id without its unique index.
KeyIsNew(r) == TRUE

KeyInserts(r) == Keyed(r) = {}

\* A new order with its key and its lines.
OpenCommit(w) ==
  LET r == task[w].req
  IN  /\ task[w].at = "opening" /\ KeyInserts(r)
      /\ \E o \in Orders \ exists :
           /\ exists' = exists \union {o}
           /\ key' = [key EXCEPT ![o] = r]
           /\ session' = [session EXCEPT ![o] = SessionOf[r]]
           /\ Stay(w, [task[w] EXCEPT !.at = "placed", !.order = o])
      /\ applied' = [applied EXCEPT ![r] = @ + 1]
      /\ UNCHANGED <<device, network, owned, shown, deaths>>

\* Somebody else has inserted the key: a unique violation, a 500.
OpenRefused(w) ==
  /\ task[w].at = "opening" /\ ~KeyInserts(task[w].req)
  /\ Reply(task[w].client, "failed")
  /\ Done(w)
  /\ UNCHANGED <<call, outbox, queuedAt, todo, tapped, network, tables, deaths>>

\* The lines go on the order; the key only if the order had none, and every
\* order that can be joined was opened with one.
JoinCommit(w) ==
  LET r == task[w].req
  IN  /\ task[w].at = "joining"
      /\ applied' = [applied EXCEPT ![r] = @ + 1]
      /\ Stay(w, [task[w] EXCEPT !.at = "placed"])
      /\ UNCHANGED <<device, network, key, session, exists, owned, shown, deaths>>

\* Mutant: the answer goes out and nobody owns the order.
NobodyClaims(r) == FALSE

\* place_staff_order has a second commit to make before it answers.
Claims(r) == ByStaff(r)

\* The end of the handler: the answer, after the claim of a staff round.
Finish(w) ==
  /\ task[w].at = "placed"
  /\ owned' = IF Claims(task[w].req) THEN owned \union {task[w].order} ELSE owned
  /\ Reply(task[w].client, "ok")
  /\ Done(w)
  /\ UNCHANGED <<call, outbox, queuedAt, todo, tapped, network, key, session,
                 exists, applied, shown, deaths>>

\* update_item_status: the last one to commit is the one that shows.
TapCommit(w) ==
  LET r == task[w].req
  IN  /\ task[w].at = "looking" /\ r \in Taps
      /\ shown' = [shown EXCEPT ![LineOf[r]] = r]
      /\ applied' = [applied EXCEPT ![r] = @ + 1]
      /\ Reply(task[w].client, "ok")
      /\ Done(w)
      /\ UNCHANGED <<call, outbox, queuedAt, todo, tapped, network, key, session,
                     exists, owned, deaths>>

\* The worker dies or its transaction is aborted; the proxy answers with a 5xx.
Dies(w) ==
  /\ task[w] # NoTask
  /\ deaths < MaxDeaths
  /\ deaths' = deaths + 1
  /\ Reply(task[w].client, "failed")
  /\ Done(w)
  /\ UNCHANGED <<call, outbox, queuedAt, todo, tapped, network, tables>>

-----------------------------------------------------------------------------
Handle(w) == \/ Look(w) \/ OpenCommit(w) \/ OpenRefused(w) \/ JoinCommit(w)
             \/ Finish(w) \/ TapCommit(w)

Device(t) == \/ FlushStart(t) \/ FlushNext(t)
             \/ SubmitAnswered(t) \/ FlushAnswered(t)

Delivered(r) ==
  \E m \in wire : m.req = r /\ (TurnedAway(m) \/ \E w \in Workers : Arrive(w, m))

Next ==
  \/ \E t \in Tabs :
       \/ Device(t)
       \/ \E r \in Requests : SubmitOffline(t, r) \/ SubmitOnline(t, r)
  \/ \E c \in Clients : NetworkFails(c)
  \/ \E r \in Requests : Delivered(r)
  \/ \E w \in Workers : Handle(w) \/ Dies(w)

Spec == Init /\ [][Next]_vars

\* The 20 s timer flushes again and again, callbacks run, handlers that have
\* started end, and what is on the wire arrives or is turned away.
Fairness ==
  /\ \A t \in Tabs : /\ WF_vars(FlushStart(t)) /\ WF_vars(FlushNext(t))
                     /\ WF_vars(SubmitAnswered(t)) /\ WF_vars(FlushAnswered(t))
  /\ \A w \in Workers : WF_vars(Handle(w))
  /\ \A r \in Requests : SF_vars(Delivered(r))

FairSpec == Spec /\ Fairness

-----------------------------------------------------------------------------
Message == [req : Requests, client : Clients \union {None}]
Stages  == {"idle", "looking", "opening", "joining", "placed"}
Task    == [req : Requests \union {None}, client : Clients \union {None},
            at : Stages, order : Orders \union {None}]

\* The columns, the outbox and the calls hold what they are for.
TypeOK ==
  /\ call \in [Clients -> Requests \union {None}]
  /\ answer \in [Clients -> Answers \union {"none"}]
  /\ outbox \subseteq Requests
  /\ queuedAt \in [Requests -> Nat]
  /\ todo \in [Tabs -> Seq(Requests)]
  /\ tapped \in [Lines -> Taps \union {None}]
  /\ wire \subseteq Message
  /\ losses \in Nat /\ limited \in Nat /\ spurned \subseteq Requests
  /\ key \in [Orders -> Rounds \union {None}]
  /\ session \in [Orders -> Sessions \union {None}]
  /\ exists \subseteq Orders /\ owned \subseteq exists
  /\ applied \in [Requests -> Nat]
  /\ shown \in [Lines -> Taps \union {None}]
  /\ task \in [Workers -> Task]
  /\ deaths \in Nat

\* An answer reaches the client that waits for this very request, and one
\* handler or message at most has a client to answer.
AnswersTheCall ==
  /\ \A m \in wire : m.client # None =>
       /\ call[m.client] = m.req /\ answer[m.client] = "none"
       /\ \A w \in Workers : task[w].client # m.client
  /\ \A w \in Workers : task[w].client # None =>
       /\ call[task[w].client] = task[w].req /\ answer[task[w].client] = "none"
       /\ \A v \in Workers \ {w} : task[v].client # task[w].client
  /\ \A c \in Clients : answer[c] # "none" => call[c] # None

\* What a handler knows at each stage.
StagesInv ==
  \A w \in Workers :
    LET h == task[w]
    IN  /\ h.at = "idle" => h = NoTask
        /\ h.at = "looking" => h.req \in Requests
        /\ h.at \in {"opening", "joining", "placed"} => h.req \in Rounds
        /\ h.at = "joining" => ~ByStaff(h.req)
        /\ h.at \in {"joining", "placed"} => h.order \in exists
        /\ h.at = "placed" /\ ByStaff(h.req) => key[h.order] = h.req

\* No two orders have one key, and a staff round has been billed if, and only
\* if, an order has its key.
KeysInv ==
  /\ \A o, p \in exists : key[o] = key[p] => o = p
  /\ \A r \in Rounds :
       ByStaff(r) => applied[r] = IF Keyed(r) = {} THEN 0 ELSE 1

\* A confirmed staff round has its order, and the order its owner.
ConfirmedInv ==
  \A c \in Clients : answer[c] = "ok" /\ ByStaff(call[c]) =>
    Keyed(call[c]) # {} /\ Keyed(call[c]) \subseteq owned

IntakeInv == AnswersTheCall /\ StagesInv /\ KeysInv /\ ConfirmedInv

\* "Return what that key already produced rather than charging the guest twice"
\* (order_service.py:32-33): however often a round is replayed, from whichever
\* tab, and whatever the network did to the answers, it is billed once.
BilledAtMostOnce == \A r \in Rounds : applied[r] <= 1

\* ... which the code achieves for the rounds keyed in by staff: each opens an
\* order of its own, whose key is unique.
StaffBilledOnce == \A r \in Rounds : ByStaff(r) => applied[r] <= 1

\* A guest's round, whose key may be dropped, is billed again from a device with
\* one tab only after a call or a handler has failed: a tab sends nothing again
\* that it has had an answer to.  (Two tabs may send what is queued at once.)
TwiceNeedsFailure ==
  \A r \in Rounds : applied[r] > 1 => losses + deaths > 0

\* A final answer about the request has been sent, or it has been carried out.
Judged(r) == applied[r] > 0 \/ r \in Refusable \/ r \in spurned

\* "A request is removed from the outbox only after the server has actually
\* accepted it" (offline.ts:18-19).  That much is not so: what leaves otherwise
\* the server has rejected on its merits, or turned away unjudged, and a round
\* keyed in by staff whose token has expired is dropped like any other 4xx.  But
\* nothing leaves for what became of another request.
LeavesWhenJudged ==
  [][\A r \in outbox \ outbox' : Judged(r)]_vars

\* "The queue is drained strictly in sequence" (offline.ts:116-118): while a
\* flush sends a request, whatever was queued before it and is still in the
\* outbox has been carried out, rejected or turned away, also when two tabs flush
\* at once.  (It may still be there: a tab whose call fails stores its request
\* again, also if the answer to the other tab has made that one remove it.)
DrainedInOrder ==
  \A t \in Tabs : \A r \in Requests :
    call[<<t, "flush">>] = r =>
      \A q \in outbox : queuedAt[q] < queuedAt[r] => Judged(q)

\* A round keyed in by staff that the server has confirmed belongs to somebody
\* and has its audit row, also if the first try died between the two commits of
\* place_staff_order and a replay was what got confirmed.
ConfirmedIsOwned ==
  \A c \in Clients :
    answer[c] = "ok" /\ ByStaff(call[c]) => Keyed(call[c]) \subseteq owned

\* "None of it should quietly lose the request" (offline.ts:6-7): what is in the
\* outbox gets carried out or rejected, unless this very request is turned away.
QueuedIsServed == \A r \in Requests \ Refusable : r \in outbox ~> Judged(r)

\* Once the network behaves, the outbox ends up empty and stays empty.
OutboxDrains == <>[](outbox = {})

\* The outbox keeps faith with the user: what leaves it has been judged, and it
\* is drained in the order it was filled (offline.ts:18-19, 116-118).
QueueKeepsFaith == LeavesWhenJudged /\ []DrainedInOrder

\* ... and it comes to an end (offline.ts:6-7).
EverythingIsServed == QueuedIsServed /\ OutboxDrains

\* When everything has been sent, the line shows what was tapped last.
Quiet == /\ outbox = {} /\ wire = {}
         /\ \A c \in Clients : Free(c)
         /\ \A w \in Workers : task[w] = NoTask
LatestTapShows ==
  Quiet => \A l \in Lines : shown[l] = tapped[l] \/ tapped[l] \in Refusable

-----------------------------------------------------------------------------
\* What the proofs of the queue need.

Tapping(t) == call[<<t, "submit">>]
Sending(t) == call[<<t, "flush">>]
Listed(t)  == {todo[t][i] : i \in DOMAIN todo[t]}
Placed     == {r \in Requests : queuedAt[r] > 0}
OneTab     == \A t, u \in Tabs : t = u

\* An answer says what has become of the request.
JudgedInv ==
  /\ \A r \in Rounds : Keyed(r) # {} => applied[r] > 0
  /\ \A w \in Workers : task[w].at = "placed" => applied[task[w].req] > 0
  /\ \A c \in Clients :
       /\ answer[c] = "ok" => applied[call[c]] > 0
       /\ answer[c] = "refused" => call[c] \in Refusable
       /\ answer[c] = "limited" => call[c] \in spurned

\* Places are given in turn, once to a request, and to nothing before it is queued.
PlacesInv ==
  /\ \A r \in Requests : queuedAt[r] <= Cardinality(Placed)
  /\ outbox \subseteq Placed
  /\ \A t \in Tabs :
       /\ Listed(t) \subseteq Placed
       /\ Sending(t) # None => Sending(t) \in Placed
       /\ Tapping(t) # None => /\ Tapping(t) \notin Placed
                               /\ \A u \in Tabs \ {t} : Tapping(u) # Tapping(t)

\* A listing is in order; what another tab has removed from the outbox meanwhile
\* has been judged, and so has whatever is before an item and no longer listed.
ListingInv ==
  \A t \in Tabs :
    /\ \A i, j \in DOMAIN todo[t] : i < j => queuedAt[todo[t][i]] < queuedAt[todo[t][j]]
    /\ Sending(t) # None =>
         /\ Sending(t) \in outbox \/ Judged(Sending(t))
         /\ \A r \in Listed(t) : queuedAt[Sending(t)] < queuedAt[r]
    /\ \A r \in Listed(t) :
         /\ r \in outbox \/ Judged(r)
         /\ \A q \in outbox : queuedAt[q] < queuedAt[r] =>
              Judged(q) \/ q \in Listed(t) \/ q = Sending(t)

DrainInv == JudgedInv /\ PlacesInv /\ ListingInv /\ DrainedInOrder

\* While nothing has failed, a request is in one place: on its way, in the
\* outbox, or answered; and what is not answered has not been carried out.
Calm == losses + deaths = 0
InOnePlace ==
  /\ \A m \in wire : m.client # None /\ applied[m.req] = 0
  /\ \A w \in Workers :
       task[w] # NoTask =>
         /\ task[w].client # None
         /\ task[w].at # "placed" => applied[task[w].req] = 0
  /\ \A c \in Clients : answer[c] # "failed"
  /\ \A t \in Tabs :
       /\ Tapping(t) \notin outbox /\ Sending(t) \notin Listed(t)
       /\ \A i, j \in DOMAIN todo[t] : i # j => todo[t][i] # todo[t][j]
       /\ Listed(t) \subseteq outbox
       /\ Sending(t) # None => Sending(t) \in outbox
  /\ \A r \in outbox : (\A t \in Tabs : Sending(t) # r) => applied[r] = 0
  /\ \A r \in Rounds : applied[r] <= 1

OnceInv == Calm => InOnePlace
=============================================================================
