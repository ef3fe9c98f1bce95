------------------------------- MODULE Alerts -------------------------------
(***************************************************************************)
(* A guest's call for staff (alert_service.py): raised at a table, answered*)
(* by attendants, and escalated by the sweeper that every worker process   *)
(* runs (main.py).  Handlers and sweeps hold no lock on the row: each reads*)
(* it, and writes the fields it has set.  How an announcement travels, and *)
(* how old a screen may be, is LiveUpdates; here a screen may offer any    *)
(* alert to any attendant once it is raised.                               *)
(***************************************************************************)
EXTENDS Naturals, FiniteSets

CONSTANTS
  Workers,      \* the processes, each with handlers and one sweeper
  Calls,        \* the alerts guests raise, each once
  Attendants,
  None,
  MaxDeaths     \* how many handlers or sweeps may fail on the way

ASSUME CallIds == None \notin Attendants \union Calls
ASSUME DeathBound == MaxDeaths \in Nat

Statuses == {"pending", "acknowledged", "resolved"}
Row      == [owned : BOOLEAN,  \* assigned_to is set, to its table's attendant
             status : Statuses, level : 0 .. 2, by : Attendants \union {None}]

ASSUME RowIds == None \notin Row

VARIABLES
  rows,     \* the alerts table, None for one not raised yet
  age,      \* per alert: 0 below 45 s, 1 from then on, 2 from 120 s on
  task,     \* per worker: its handler
  sweep,    \* per worker: its sweeper's transaction
  told,     \* per alert: who is coming, as the guest last heard
  deaths,
  \* History.
  crossed,  \* alerts that two handlers or sweeps were at work on together
  again,    \* alerts answered by somebody who read that they were not pending
  rung      \* per alert, and level above 0: how often it was announced, up to
            \* twice and until it is crossed

vars == <<rows, age, task, sweep, told, deaths, crossed, again, rung>>

-----------------------------------------------------------------------------
Work(op, a, s, stage, saw) == [op |-> op, alert |-> a, by |-> s, stage |-> stage, saw |-> saw]
Idle   == Work("none", None, None, "idle", None)
Asleep == [todo |-> {}, raised |-> {}, target |-> [a \in Calls |-> 0]]

Init ==
  /\ rows = [a \in Calls |-> None]
  /\ age = [a \in Calls |-> 0]
  /\ task = [w \in Workers |-> Idle]
  /\ sweep = [w \in Workers |-> Asleep]
  /\ told = [a \in Calls |-> None]
  /\ deaths = 0
  /\ crossed = {} /\ again = {}
  /\ rung = [a \in Calls |-> [l \in 1 .. 2 |-> 0]]

Raised(a)  == rows[a] # None
InSweep(w, a) == a \in sweep[w].todo \union sweep[w].raised
Busy(w, a) == task[w].alert = a \/ InSweep(w, a)
Met(S)     == {a \in S : \E v \in Workers : Busy(v, a)}

Handling(w, f) == task' = [task EXCEPT ![w] = f]
AtStage(w, op, stage) == task[w].op = op /\ task[w].stage = stage
Rings(a, l)    == rung' = IF a \in crossed \/ rung[a][l] = 2 THEN rung
                          ELSE [rung EXCEPT ![a][l] = @ + 1]

\* The clock: 45 and 120 seconds since created_at, which nobody reads once the
\* alert is answered.
Ages(a) ==
  /\ Raised(a) /\ rows[a].status = "pending" /\ age[a] < 2
  /\ age' = [age EXCEPT ![a] = @ + 1]
  /\ UNCHANGED <<rows, task, sweep, told, deaths, crossed, again, rung>>

-----------------------------------------------------------------------------
\* create_alert: the alert is committed; then, if its table is nobody's, opened
\* to the floor by a second commit; then announced.

Raise(w, a, owned) ==
  /\ task[w] = Idle /\ ~Raised(a)
  /\ rows' = [rows EXCEPT ![a] = [owned |-> owned, status |-> "pending", level |-> 0, by |-> None]]
  /\ Handling(w, Work("raise", a, None, "stored", None))
  /\ UNCHANGED <<age, sweep, told, deaths, crossed, again, rung>>

Unowned(a) == ~rows[a].owned

OpenToFloor(w) ==
  /\ AtStage(w, "raise", "stored") /\ Unowned(task[w].alert)
  /\ rows' = [rows EXCEPT ![task[w].alert].level = 1]
  /\ Handling(w, [task[w] EXCEPT !.stage = "opened"])
  /\ UNCHANGED <<age, sweep, told, deaths, crossed, again, rung>>

Announce(w) ==
  LET a == task[w].alert
  IN  /\ AtStage(w, "raise", IF Unowned(a) THEN "opened" ELSE "stored")
      /\ IF Unowned(a) THEN Rings(a, 1) ELSE UNCHANGED rung
      /\ Handling(w, Idle)
      /\ UNCHANGED <<rows, age, sweep, told, deaths, crossed, again>>

-----------------------------------------------------------------------------
\* acknowledge_alert and resolve_alert.  A screen closes only what it has shown
\* as answered.

\* Mutant: whoever answers last has the alert.
Claimable(row) == TRUE

Unanswered(row) == row.status = "pending"

AckRead(w, s, a) ==
  /\ task[w] = Idle /\ Raised(a)
  /\ Handling(w, Work("ack", a, s, IF Unanswered(rows[a]) THEN "claiming" ELSE "claimed", None))
  /\ again' = IF rows[a].status = "pending" \/ a \in crossed THEN again ELSE again \union {a}
  /\ crossed' = crossed \union Met({a})
  /\ UNCHANGED <<rows, age, sweep, told, deaths, rung>>

\* Mutant: who it was is not stored.
Unclaimed(row, s) == [row EXCEPT !.status = "acknowledged"]

Claimed(row, s) == [row EXCEPT !.status = "acknowledged", !.by = s]

AckCommit(w) ==
  /\ AtStage(w, "ack", "claiming")
  /\ rows' = [rows EXCEPT ![task[w].alert] = Claimed(@, task[w].by)]
  /\ Handling(w, [task[w] EXCEPT !.stage = "claimed"])
  /\ UNCHANGED <<age, sweep, told, deaths, crossed, again, rung>>

\* Whether it was pending or not, the staff hear that this attendant has it,
\* and so does the guest, if the message finds the guest's page.
AckTells(w) ==
  /\ AtStage(w, "ack", "claimed")
  /\ told' \in {told, [told EXCEPT ![task[w].alert] = task[w].by]}
  /\ Handling(w, Idle)
  /\ UNCHANGED <<rows, age, sweep, deaths, crossed, again, rung>>

ResolveRead(w, a) ==
  /\ task[w] = Idle /\ Raised(a) /\ rows[a].by # None
  /\ Handling(w, Work("resolve", a, None, "closing", rows[a].status))
  /\ crossed' = crossed \union Met({a})
  /\ UNCHANGED <<rows, age, sweep, told, deaths, again, rung>>

\* The UPDATE holds the status only if it is not the one the handler has read.
ResolveCommit(w) ==
  /\ AtStage(w, "resolve", "closing")
  /\ rows' = IF task[w].saw = "resolved" THEN rows
             ELSE [rows EXCEPT ![task[w].alert].status = "resolved"]
  /\ Handling(w, Idle)
  /\ UNCHANGED <<age, sweep, told, deaths, crossed, again, rung>>

-----------------------------------------------------------------------------
\* escalate_stale_alerts, by every worker's sweeper.

Stale(a) == Raised(a) /\ rows[a].status = "pending" /\ rows[a].level < age[a]

SweepRead(w) ==
  LET stale == {a \in Calls : Stale(a)}
  IN  /\ sweep[w] = Asleep /\ stale # {}
      /\ sweep' = [sweep EXCEPT ![w] =
                     [todo |-> stale, raised |-> {},
                      target |-> [a \in Calls |-> IF a \in stale THEN age[a] ELSE 0]]]
      /\ crossed' = crossed \union Met(stale)
      /\ UNCHANGED <<rows, age, task, told, deaths, again, rung>>

\* Announced one by one, with nothing stored yet.
SweepAnnounces(w) ==
  \E a \in sweep[w].todo :
    /\ Rings(a, sweep[w].target[a])
    /\ sweep' = [sweep EXCEPT ![w].todo = @ \ {a}, ![w].raised = @ \union {a}]
    /\ UNCHANGED <<rows, age, task, told, deaths, crossed, again>>

\* Mutant: the levels are never stored.
Unstored(w) == rows

Escalated(w) ==
  [a \in Calls |-> IF a \in sweep[w].raised THEN [rows[a] EXCEPT !.level = sweep[w].target[a]]
                                            ELSE rows[a]]

\* One commit for all of them, whatever has become of the alerts.
SweepCommit(w) ==
  /\ sweep[w] # Asleep /\ sweep[w].todo = {}
  /\ rows' = Escalated(w)
  /\ sweep' = [sweep EXCEPT ![w] = Asleep]
  /\ UNCHANGED <<age, task, told, deaths, crossed, again, rung>>

\* A handler fails or dies where it is, with what it has committed; a sweep
\* that fails stores nothing, and the loop goes on.
Dies(w) ==
  /\ deaths < MaxDeaths /\ deaths' = deaths + 1
  /\ \/ task[w] # Idle /\ Handling(w, Idle) /\ UNCHANGED sweep
     \/ sweep[w] # Asleep /\ sweep' = [sweep EXCEPT ![w] = Asleep] /\ UNCHANGED task
  /\ UNCHANGED <<rows, age, told, crossed, again, rung>>

-----------------------------------------------------------------------------
Handle(w) == OpenToFloor(w) \/ Announce(w) \/ AckCommit(w) \/ AckTells(w) \/ ResolveCommit(w)
Sweep(w)  == SweepRead(w) \/ SweepAnnounces(w) \/ SweepCommit(w)

Next ==
  \/ \E a \in Calls : Ages(a)
  \/ \E w \in Workers :
       \/ Handle(w) \/ Sweep(w) \/ Dies(w)
       \/ \E a \in Calls : \/ \E owned \in BOOLEAN : Raise(w, a, owned)
                           \/ \E s \in Attendants : AckRead(w, s, a)
                           \/ ResolveRead(w, a)

Spec == Init /\ [][Next]_vars

\* Time passes, and each worker's sweeper wakes every 10 s; guests and
\* attendants owe nobody anything.
Fairness == /\ \A a \in Calls : WF_vars(Ages(a))
            /\ \A w \in Workers : WF_vars(Sweep(w))

FairSpec == Spec /\ Fairness

-----------------------------------------------------------------------------
Handler == [op : {"none", "raise", "ack", "resolve"}, alert : Calls \union {None},
            by : Attendants \union {None}, saw : Statuses \union {None},
            stage : {"idle", "stored", "opened", "claiming", "claimed", "closing"}]
Sweeper == [todo : SUBSET Calls, raised : SUBSET Calls, target : [Calls -> 0 .. 2]]

TypeOK ==
  /\ rows \in [Calls -> Row \union {None}]
  /\ age \in [Calls -> 0 .. 2]
  /\ task \in [Workers -> Handler]
  /\ sweep \in [Workers -> Sweeper]
  /\ told \in [Calls -> Attendants \union {None}]
  /\ deaths \in Nat
  /\ crossed \subseteq Calls /\ again \subseteq Calls
  /\ rung \in [Calls -> [1 .. 2 -> 0 .. 2]]

Step(status) == CASE status = "pending" -> 0 [] status = "acknowledged" -> 1 [] OTHER -> 2

\* "An alert never escalates backwards" (test_alerts.py:71), nor is one
\* that is answered or closed open again, nor does it change hands, unless two
\* handlers or sweepers were at work on it together.
NeverBackwards ==
  [][\A a \in Calls : Raised(a) =>
       \/ /\ rows'[a].level >= rows[a].level
          /\ Step(rows'[a].status) >= Step(rows[a].status)
          /\ rows[a].by # None => rows'[a].by = rows[a].by
       \/ a \in crossed]_vars

\* "Stored so the sweeper never re-raises the same alert" (models/alert.py): a
\* level is announced once, by the handler that opened the alert to the floor
\* or by a sweeper, unless two of them met or one failed before it had stored
\* what it announced.
RungOnce ==
  \A a \in Calls, l \in 1 .. 2 : rung[a][l] > 1 => a \in crossed \/ deaths > 0

\* "The guest is told who is coming" (alert_service.py): whoever the guest last
\* heard of is the one who has the alert, unless somebody answered what was
\* answered already, or two answered together.
ToldWhoComes ==
  \A a \in Calls : told[a] # None => rows[a].by = told[a] \/ a \in again \union crossed

\* What is announced of a call is news, and true (alert_service.py:109-169,
\* 206-233).
NewsIsTrue == RungOnce /\ ToldWhoComes

\* What they follow from.  A handler or a sweep is at work on what is raised, at
\* a stage of its own.
HandlersInv ==
  \A w \in Workers :
    /\ \/ task[w] = Idle
       \/ task[w].op = "raise" /\ task[w].stage \in {"stored", "opened"}
       \/ task[w].op = "ack" /\ task[w].stage \in {"claiming", "claimed"}
                            /\ task[w].by \in Attendants
       \/ task[w].op = "resolve" /\ task[w].stage = "closing"
    /\ task[w] # Idle => task[w].alert \in Calls /\ Raised(task[w].alert)
    /\ sweep[w].todo \intersect sweep[w].raised = {}
    /\ \A a \in Calls : InSweep(w, a) => Raised(a) /\ sweep[w].target[a] > 0

\* An alert that was never crossed has one at work on it, if any, ...
OneAtATime ==
  \A a \in Calls \ crossed, v, w \in Workers :
    /\ task[v].alert = a /\ task[w].alert = a => v = w
    /\ InSweep(v, a) /\ InSweep(w, a) => v = w
    /\ ~(task[v].alert = a /\ InSweep(w, a))

\* ... which knows its row as it is.
KnowsRow ==
  \A a \in Calls \ crossed, w \in Workers :
    /\ task[w].alert = a /\ task[w].op = "raise" =>
         /\ rows[a].status = "pending" /\ rung[a][1] = 0 /\ rung[a][2] = 0
         /\ rows[a].level = IF task[w].stage = "stored" THEN 0 ELSE 1
    /\ task[w].alert = a /\ task[w].stage = "claiming" => rows[a].status = "pending"
    /\ task[w].alert = a /\ task[w].stage = "claimed" =>
         rows[a].by = task[w].by \/ a \in again
    /\ task[w].alert = a /\ task[w].op = "resolve" => rows[a].status = task[w].saw
    /\ InSweep(w, a) => rows[a].status = "pending" /\ rows[a].level < sweep[w].target[a]

PendingIsFree ==
  \A a \in Calls : Raised(a) /\ rows[a].status = "pending" => rows[a].by = None

\* Nothing is announced of a call that has not come.
SilentBefore ==
  \A a \in Calls : ~Raised(a) => told[a] = None /\ rung[a][1] = 0 /\ rung[a][2] = 0

\* A level that was announced is stored, or about to be.
RungIsKept ==
  deaths = 0 => \A a \in Calls \ crossed, l \in 1 .. 2 :
    /\ rung[a][l] <= 1
    /\ rung[a][l] = 1 => \/ rows[a].level >= l
                         \/ \E w \in Workers : a \in sweep[w].raised /\ sweep[w].target[a] = l

AlertsInv == /\ HandlersInv /\ OneAtATime /\ KnowsRow /\ PendingIsFree
             /\ SilentBefore /\ RungIsKept /\ ToldWhoComes

AtOwnerOrAnswered(a) == Raised(a) /\ (rows[a].level = 2 \/ ~Unanswered(rows[a]))

\* "Still unanswered after ESCALATE_TO_OWNER_SECONDS, it reaches the owner": an
\* alert nobody answers gets to level 2 and stays there, whichever sweeps fail
\* or write over each other on the way.
ReachesOwner ==
  \A a \in Calls : Raised(a) ~> []AtOwnerOrAnswered(a)
=============================================================================
