---------------------------- MODULE AlertsProofs ----------------------------
(***************************************************************************)
(* Proofs about Alerts, for any number of calls, attendants and workers:   *)
(* when an alert goes backwards, rings twice or names the wrong person.    *)
(*                                                                         *)
(* The invariant is TypeOK /\ AlertsInv: an alert that was never crossed   *)
(* has one handler or one sweep at work on it (OneAtATime), which          *)
(* therefore knows its row (KnowsRow), so that what it commits goes        *)
(* forwards and what it announces is not announced yet (RungIsKept).       *)
(***************************************************************************)
EXTENDS Alerts, TLAPS

IInv == TypeOK /\ AlertsInv

USE DEF Statuses

LEMMA InitHolds == Init => IInv
<1> SUFFICES ASSUME Init PROVE IInv
  OBVIOUS
<1>1. TypeOK
  BY CallIds, DeathBound DEF Init, TypeOK, Work, Idle, Asleep, Handler, Sweeper
<1>2. HandlersInv /\ OneAtATime /\ KnowsRow
  BY CallIds DEF Init, Work, Idle, Asleep, InSweep, HandlersInv, OneAtATime, KnowsRow
<1>3. PendingIsFree /\ SilentBefore /\ RungIsKept /\ ToldWhoComes
  BY DEF Init, Raised, PendingIsFree, SilentBefore, RungIsKept, ToldWhoComes
<1> QED BY <1>1, <1>2, <1>3 DEF IInv, AlertsInv

\* What each step does to the handler that takes it.
LEMMA TaskStep ==
  ASSUME IInv, NEW w \in Workers, NEW h, Handling(w, h)
  PROVE  task'[w] = h /\ \A v \in Workers \ {w} : task'[v] = task[v]
BY DEF IInv, TypeOK, Handling

\* A row is a record, and None is none.
LEMMA RowsAreRows ==
  ASSUME IInv, NEW a \in Calls
  PROVE  /\ Raised(a) <=> rows[a] \in Row
         /\ rows[a] \in Row \union {None}
BY RowIds DEF IInv, TypeOK, Raised

\* A handler that is at a stage has an alert.
LEMMA HandlerHasAlert ==
  ASSUME IInv, NEW w \in Workers
  PROVE  /\ task[w] \in Handler /\ sweep[w] \in Sweeper
         /\ task[w] = Idle \/ (task[w].alert \in Calls /\ Raised(task[w].alert))
         /\ Idle.alert \notin Calls /\ Idle.op = "none" /\ Idle.stage = "idle"
BY CallIds DEF IInv, TypeOK, AlertsInv, HandlersInv, Work, Idle, Handler

-----------------------------------------------------------------------------
\* The clock.
LEMMA AgesStep ==
  ASSUME IInv, NEW a \in Calls, Ages(a)
  PROVE  IInv'
<1>1. age' \in [Calls -> 0 .. 2]
  BY DEF IInv, TypeOK, Ages
<1>2. UNCHANGED <<rows, task, sweep, told, deaths, crossed, again, rung>>
  BY DEF Ages
<1>3. TypeOK'
  BY <1>1, <1>2 DEF IInv, TypeOK
<1>4. AlertsInv'
  BY <1>2 DEF IInv, AlertsInv, HandlersInv, OneAtATime, KnowsRow, PendingIsFree, SilentBefore,
              RungIsKept, ToldWhoComes, InSweep, Raised
<1> QED BY <1>3, <1>4 DEF IInv

\* create_alert's first commit: nobody has been at work on this alert.
LEMMA RaiseStep ==
  ASSUME IInv, NEW w \in Workers, NEW a \in Calls, NEW owned \in BOOLEAN, Raise(w, a, owned)
  PROVE  IInv'
<1> DEFINE row == [owned |-> owned, status |-> "pending", level |-> 0, by |-> None]
           h   == Work("raise", a, None, "stored", None)
<1>1. /\ task[w] = Idle /\ ~Raised(a)
      /\ rows' = [rows EXCEPT ![a] = row] /\ Handling(w, h)
      /\ UNCHANGED <<age, sweep, told, deaths, crossed, again, rung>>
  BY DEF Raise
<1>2. /\ task'[w] = h /\ \A v \in Workers \ {w} : task'[v] = task[v]
      /\ rows'[a] = row /\ \A b \in Calls \ {a} : rows'[b] = rows[b]
  <2>1. task'[w] = h /\ \A v \in Workers \ {w} : task'[v] = task[v]
    BY <1>1 DEF IInv, TypeOK, Handling
  <2>2. rows'[a] = row /\ \A b \in Calls \ {a} : rows'[b] = rows[b]
    BY <1>1 DEF IInv, TypeOK
  <2> QED BY <2>1, <2>2
<1>3. /\ h.op = "raise" /\ h.alert = a /\ h.stage = "stored" /\ h \in Handler /\ h # Idle
      /\ row \in Row /\ row # None
      /\ row.status = "pending" /\ row.level = 0 /\ row.by = None
  <2>1. h.op = "raise" /\ h.alert = a /\ h.stage = "stored" /\ h \in Handler /\ h # Idle
    BY DEF Work, Idle, Handler
  <2>2. /\ row \in Row /\ row # None
        /\ row.status = "pending" /\ row.level = 0 /\ row.by = None
    BY RowIds DEF Row
  <2> QED BY <2>1, <2>2
<1>4. \A v \in Workers : task[v].alert # a /\ ~InSweep(v, a)
  BY <1>1, HandlerHasAlert DEF IInv, AlertsInv, HandlersInv
<1> HIDE DEF row, h
<1>5. TypeOK'
  BY <1>1, <1>3 DEF IInv, TypeOK, Handling
<1>6. HandlersInv'
  BY <1>1, <1>2, <1>3 DEF IInv, AlertsInv, HandlersInv, Raised, InSweep
<1>7. OneAtATime'
  BY <1>1, <1>2, <1>3, <1>4, HandlerHasAlert DEF IInv, AlertsInv, OneAtATime, InSweep
<1>8. KnowsRow'
  BY <1>1, <1>2, <1>3, <1>4 DEF IInv, AlertsInv, KnowsRow, InSweep, SilentBefore, Raised
<1>9. PendingIsFree' /\ SilentBefore' /\ ToldWhoComes'
  BY <1>1, <1>2, <1>3 DEF IInv, AlertsInv, PendingIsFree, SilentBefore, ToldWhoComes, Raised
<1>10. RungIsKept'
  BY <1>1, <1>2, <1>3 DEF IInv, AlertsInv, RungIsKept, SilentBefore
<1> QED BY <1>5, <1>6, <1>7, <1>8, <1>9, <1>10 DEF IInv, AlertsInv

\* Its second commit, while nobody else is at work on the alert.
LEMMA OpenToFloorStep ==
  ASSUME IInv, NEW w \in Workers, OpenToFloor(w)
  PROVE  IInv'
<1>a. PICK a \in Calls : a = task[w].alert /\ Raised(a) /\ task[w].op = "raise" /\ task[w].stage = "stored"
  BY HandlerHasAlert DEF OpenToFloor, AtStage
<1>1. PICK r, h :
        /\ a = task[w].alert /\ Raised(a) /\ task[w].op = "raise" /\ task[w].stage = "stored"
        /\ r = [rows[a] EXCEPT !.level = 1] /\ h = [task[w] EXCEPT !.stage = "opened"]
        /\ rows' = [rows EXCEPT ![a] = r] /\ Handling(w, h)
  BY <1>a DEF OpenToFloor, AtStage
<1>2. UNCHANGED <<age, sweep, told, deaths, crossed, again, rung>>
  BY DEF OpenToFloor
<1>3. /\ task'[w] = h /\ \A v \in Workers \ {w} : task'[v] = task[v]
      /\ rows'[a] = r /\ \A b \in Calls \ {a} : rows'[b] = rows[b]
  <2>1. task'[w] = h /\ \A v \in Workers \ {w} : task'[v] = task[v]
    BY <1>1, TaskStep
  <2>2. rows'[a] = r /\ \A b \in Calls \ {a} : rows'[b] = rows[b]
    BY <1>1 DEF IInv, TypeOK
  <2> QED BY <2>1, <2>2
<1>4. rows[a] \in Row /\ task[w] \in Handler
  BY <1>1, RowsAreRows, HandlerHasAlert
<1>5. /\ h.op = "raise" /\ h.alert = a /\ h.stage = "opened" /\ h \in Handler /\ h # Idle
      /\ r \in Row /\ r # None /\ r.status = rows[a].status /\ r.level = 1 /\ r.by = rows[a].by
  BY <1>1, <1>4, RowIds, HandlerHasAlert DEF Row, Handler
<1>0. a = task[w].alert /\ Raised(a) /\ task[w].op = "raise" /\ task[w].stage = "stored"
  BY <1>1
<1>6. TypeOK'
  BY <1>1, <1>2, <1>5 DEF IInv, TypeOK, Handling
<1>7. HandlersInv'
  BY <1>0, <1>2, <1>3, <1>5 DEF IInv, AlertsInv, HandlersInv, Raised, InSweep
<1>8. OneAtATime'
  BY <1>0, <1>2, <1>3, <1>5 DEF IInv, AlertsInv, OneAtATime, InSweep
<1>9. KnowsRow'
  <2>1. a \notin crossed => \A v \in Workers : (v # w => task[v].alert # a) /\ ~InSweep(v, a)
    BY <1>0 DEF IInv, AlertsInv, OneAtATime
  <2> QED BY <1>0, <1>2, <1>3, <1>5, <2>1 DEF IInv, AlertsInv, KnowsRow, InSweep
<1>10. PendingIsFree' /\ SilentBefore' /\ ToldWhoComes'
  BY <1>0, <1>2, <1>3, <1>5
  DEF IInv, AlertsInv, PendingIsFree, SilentBefore, ToldWhoComes, Raised
<1>11. RungIsKept'
  BY <1>0, <1>2, <1>3, <1>5 DEF IInv, AlertsInv, RungIsKept, KnowsRow
<1> QED BY <1>6, <1>7, <1>8, <1>9, <1>10, <1>11 DEF IInv, AlertsInv

\* What an announcement does to the count of them.
LEMMA RingsStep ==
  ASSUME IInv, NEW a \in Calls, NEW l \in 1 .. 2, Rings(a, l)
  PROVE  /\ rung' \in [Calls -> [1 .. 2 -> 0 .. 2]]
         /\ a \in crossed => rung' = rung
         /\ rung'[a][l] <= rung[a][l] + 1
         /\ \A k \in 1 .. 2 : k # l => rung'[a][k] = rung[a][k]
         /\ \A b \in Calls \ {a} : rung'[b] = rung[b]
<1>1. rung \in [Calls -> [1 .. 2 -> 0 .. 2]]
  BY DEF IInv, TypeOK
<1>2. rung[a] \in [1 .. 2 -> 0 .. 2] /\ rung[a][l] \in 0 .. 2
  BY <1>1
<1>3. CASE rung' = rung
  BY <1>1, <1>2, <1>3
<1>4. CASE rung[a][l] # 2 /\ a \notin crossed /\ rung' = [rung EXCEPT ![a][l] = @ + 1]
  <2>1. rung[a][l] + 1 \in 0 .. 2
    BY <1>2, <1>4
  <2> QED BY <1>1, <1>2, <1>4, <2>1
<1> QED BY <1>3, <1>4 DEF Rings

\* The handler leaves, and nothing but what was announced changes.
LEMMA AnnounceStep ==
  ASSUME IInv, NEW w \in Workers, Announce(w)
  PROVE  IInv'
<1>1. PICK a \in Calls :
        /\ a = task[w].alert /\ Raised(a) /\ task[w].op = "raise"
        /\ \/ task[w].stage = "opened" /\ Rings(a, 1)
           \/ UNCHANGED rung
  BY HandlerHasAlert DEF Announce, AtStage
<1>2. Handling(w, Idle) /\ UNCHANGED <<rows, age, sweep, told, deaths, crossed, again>>
  BY DEF Announce
<1>3. task'[w] = Idle /\ \A v \in Workers \ {w} : task'[v] = task[v]
  BY <1>2, TaskStep
<1>4. /\ rung' \in [Calls -> [1 .. 2 -> 0 .. 2]]
      /\ \A b \in Calls \ {a} : rung'[b] = rung[b]
      /\ \A k \in 1 .. 2 : k # 1 => rung'[a][k] = rung[a][k]
      /\ rung'[a][1] = rung[a][1] \/ (task[w].stage = "opened" /\ rung'[a][1] <= rung[a][1] + 1)
  BY <1>1, RingsStep DEF IInv, TypeOK
<1>5. TypeOK'
  <2>1. Idle \in Handler
    BY DEF Work, Idle, Handler
  <2> QED BY <1>2, <1>4, <2>1 DEF IInv, TypeOK, Handling
<1>6. HandlersInv' /\ OneAtATime'
  BY <1>2, <1>3, HandlerHasAlert DEF IInv, AlertsInv, HandlersInv, OneAtATime, InSweep, Raised
<1>7. KnowsRow'
  <2>1. a \notin crossed => \A v \in Workers : (v # w => task[v].alert # a)
    BY <1>1 DEF IInv, AlertsInv, OneAtATime
  <2> QED BY <1>2, <1>3, <1>4, <2>1, HandlerHasAlert DEF IInv, AlertsInv, KnowsRow, InSweep
<1>8. PendingIsFree' /\ SilentBefore' /\ ToldWhoComes'
  BY <1>1, <1>2, <1>4
  DEF IInv, AlertsInv, PendingIsFree, SilentBefore, ToldWhoComes, Raised
<1>9. RungIsKept'
  <2>1. ASSUME deaths = 0, a \notin crossed, task[w].stage = "opened"
        PROVE  rung[a][1] = 0 /\ rows[a].level = 1
    BY <1>1, <2>1 DEF IInv, AlertsInv, KnowsRow
  <2>2. ASSUME deaths = 0, NEW b \in Calls \ crossed, NEW l \in 1 .. 2
        PROVE  /\ rung'[b][l] <= 1
               /\ rung'[b][l] = 1 =>
                    \/ rows[b].level >= l
                    \/ \E v \in Workers : b \in sweep[v].raised /\ sweep[v].target[b] = l
    BY <1>4, <2>1, <2>2 DEF IInv, AlertsInv, RungIsKept
  <2> QED BY <1>2, <2>2 DEF RungIsKept
<1> QED BY <1>5, <1>6, <1>7, <1>8, <1>9 DEF IInv, AlertsInv

-----------------------------------------------------------------------------
\* acknowledge_alert reads: from here on the alert is crossed, or this handler
\* is alone with it.
LEMMA MetIsBusy ==
  ASSUME NEW a \in Calls, NEW S \in SUBSET Calls, a \in S, a \notin Met(S)
  PROVE  \A v \in Workers : task[v].alert # a /\ ~InSweep(v, a)
BY DEF Met, Busy

LEMMA AckReadStep ==
  ASSUME IInv, NEW w \in Workers, NEW s \in Attendants, NEW a \in Calls, AckRead(w, s, a)
  PROVE  IInv'
<1>1. PICK h :
        /\ h = Work("ack", a, s, IF Unanswered(rows[a]) THEN "claiming" ELSE "claimed", None)
        /\ task[w] = Idle /\ Raised(a) /\ Handling(w, h)
  BY DEF AckRead
<1>2. /\ again' = IF rows[a].status = "pending" \/ a \in crossed THEN again ELSE again \union {a}
      /\ crossed' = crossed \union Met({a})
      /\ UNCHANGED <<rows, age, sweep, told, deaths, rung>>
  BY DEF AckRead
<1>3. task'[w] = h /\ \A v \in Workers \ {w} : task'[v] = task[v]
  BY <1>1, TaskStep
<1>4. /\ h.op = "ack" /\ h.alert = a /\ h.by = s /\ h \in Handler /\ h # Idle
      /\ \/ h.stage = "claiming" /\ rows[a].status = "pending"
         \/ h.stage = "claimed" /\ rows[a].status # "pending"
  <2>1. CASE rows[a].status = "pending"
    BY <1>1, <2>1, HandlerHasAlert DEF Work, Handler, Idle, Unanswered
  <2>2. CASE rows[a].status # "pending"
    BY <1>1, <2>2, HandlerHasAlert DEF Work, Handler, Idle, Unanswered
  <2> QED BY <2>1, <2>2
<1>5. a \notin crossed' => \A v \in Workers : task[v].alert # a /\ ~InSweep(v, a)
  BY <1>2, MetIsBusy
<1>6. TypeOK'
  BY <1>1, <1>2, <1>4 DEF IInv, TypeOK, Handling, Met
<1>7. HandlersInv'
  BY <1>1, <1>2, <1>3, <1>4 DEF IInv, AlertsInv, HandlersInv, Raised, InSweep
<1>8. OneAtATime'
  BY <1>2, <1>3, <1>4, <1>5 DEF IInv, AlertsInv, OneAtATime, InSweep
<1>9. KnowsRow'
  BY <1>1, <1>2, <1>3, <1>4, <1>5 DEF IInv, AlertsInv, KnowsRow, InSweep
<1>10. PendingIsFree' /\ SilentBefore' /\ ToldWhoComes' /\ RungIsKept'
  BY <1>2 DEF IInv, AlertsInv, PendingIsFree, SilentBefore, ToldWhoComes, RungIsKept, Raised
<1> QED BY <1>6, <1>7, <1>8, <1>9, <1>10 DEF IInv, AlertsInv

\* It commits: of an alert that was not crossed it knows that it is pending.
LEMMA AckCommitStep ==
  ASSUME IInv, NEW w \in Workers, AckCommit(w)
  PROVE  IInv'
<1>a. PICK a \in Calls : a = task[w].alert /\ Raised(a) /\ task[w].op = "ack" /\ task[w].stage = "claiming"
  BY HandlerHasAlert DEF AckCommit, AtStage
<1>1. PICK r, h :
        /\ a = task[w].alert /\ Raised(a) /\ task[w].op = "ack" /\ task[w].stage = "claiming"
        /\ r = Claimed(rows[a], task[w].by) /\ h = [task[w] EXCEPT !.stage = "claimed"]
        /\ rows' = [rows EXCEPT ![a] = r] /\ Handling(w, h)
  BY <1>a DEF AckCommit, AtStage
<1>2. UNCHANGED <<age, sweep, told, deaths, crossed, again, rung>>
  BY DEF AckCommit
<1>3. /\ task'[w] = h /\ \A v \in Workers \ {w} : task'[v] = task[v]
      /\ rows'[a] = r /\ \A b \in Calls \ {a} : rows'[b] = rows[b]
  <2>1. task'[w] = h /\ \A v \in Workers \ {w} : task'[v] = task[v]
    BY <1>1, TaskStep
  <2>2. rows'[a] = r /\ \A b \in Calls \ {a} : rows'[b] = rows[b]
    BY <1>1 DEF IInv, TypeOK
  <2> QED BY <2>1, <2>2
<1>4. rows[a] \in Row /\ task[w] \in Handler /\ task[w].by \in Attendants
  BY <1>1, RowsAreRows, HandlerHasAlert DEF IInv, AlertsInv, HandlersInv
<1>5. /\ h.op = "ack" /\ h.alert = a /\ h.by = task[w].by /\ h.stage = "claimed"
      /\ h \in Handler /\ h # Idle /\ r \in Row /\ r # None
      /\ r.status = "acknowledged" /\ r.level = rows[a].level /\ r.by = task[w].by
  BY <1>1, <1>4, RowIds, HandlerHasAlert DEF Row, Handler, Claimed
<1>0. a = task[w].alert /\ Raised(a) /\ task[w].op = "ack" /\ task[w].stage = "claiming"
  BY <1>1
<1>6. TypeOK'
  BY <1>1, <1>2, <1>5 DEF IInv, TypeOK, Handling
<1>7. HandlersInv'
  BY <1>0, <1>2, <1>3, <1>4, <1>5 DEF IInv, AlertsInv, HandlersInv, Raised, InSweep
<1>8. OneAtATime'
  BY <1>0, <1>2, <1>3, <1>5 DEF IInv, AlertsInv, OneAtATime, InSweep
<1>9. KnowsRow'
  <2>1. a \notin crossed => \A v \in Workers : (v # w => task[v].alert # a) /\ ~InSweep(v, a)
    BY <1>0 DEF IInv, AlertsInv, OneAtATime
  <2> QED BY <1>0, <1>2, <1>3, <1>5, <2>1 DEF IInv, AlertsInv, KnowsRow, InSweep
<1>10. PendingIsFree' /\ SilentBefore' /\ RungIsKept'
  BY <1>0, <1>2, <1>3, <1>5
  DEF IInv, AlertsInv, PendingIsFree, SilentBefore, RungIsKept, Raised
<1>11. ToldWhoComes'
  <2>1. a \notin crossed => rows[a].by = None
    BY <1>0 DEF IInv, AlertsInv, KnowsRow, PendingIsFree
  <2> QED BY <1>0, <1>2, <1>3, <1>5, <2>1 DEF IInv, AlertsInv, ToldWhoComes
<1> QED BY <1>6, <1>7, <1>8, <1>9, <1>10, <1>11 DEF IInv, AlertsInv

\* The guest hears of the one who has committed, or of one who asked again.
LEMMA AckTellsStep ==
  ASSUME IInv, NEW w \in Workers, AckTells(w)
  PROVE  IInv'
<1>1. PICK a \in Calls :
        /\ a = task[w].alert /\ Raised(a) /\ task[w].op = "ack" /\ task[w].stage = "claimed"
        /\ told' \in {told, [told EXCEPT ![a] = task[w].by]}
  BY HandlerHasAlert DEF AckTells, AtStage
<1>2. Handling(w, Idle) /\ UNCHANGED <<rows, age, sweep, deaths, crossed, again, rung>>
  BY DEF AckTells
<1>3. task'[w] = Idle /\ \A v \in Workers \ {w} : task'[v] = task[v]
  BY <1>2, TaskStep
<1>4. /\ told' \in [Calls -> Attendants \union {None}]
      /\ told'[a] \in {told[a], task[w].by}
      /\ \A b \in Calls \ {a} : told'[b] = told[b]
  <2>1. task[w].by \in Attendants /\ told \in [Calls -> Attendants \union {None}]
    BY <1>1, HandlerHasAlert DEF IInv, TypeOK, AlertsInv, HandlersInv
  <2> QED BY <1>1, <2>1
<1>5. TypeOK'
  <2>1. Idle \in Handler
    BY DEF Work, Idle, Handler
  <2> QED BY <1>2, <1>4, <2>1 DEF IInv, TypeOK, Handling
<1>6. HandlersInv' /\ OneAtATime' /\ KnowsRow'
  BY <1>2, <1>3, HandlerHasAlert
  DEF IInv, AlertsInv, HandlersInv, OneAtATime, KnowsRow, InSweep, Raised
<1>7. PendingIsFree' /\ SilentBefore' /\ RungIsKept'
  BY <1>1, <1>2, <1>4 DEF IInv, AlertsInv, PendingIsFree, SilentBefore, RungIsKept, Raised
<1>8. ToldWhoComes'
  BY <1>1, <1>2, <1>4 DEF IInv, AlertsInv, KnowsRow, ToldWhoComes
<1> QED BY <1>5, <1>6, <1>7, <1>8 DEF IInv, AlertsInv

-----------------------------------------------------------------------------
\* resolve_alert.
LEMMA ResolveReadStep ==
  ASSUME IInv, NEW w \in Workers, NEW a \in Calls, ResolveRead(w, a)
  PROVE  IInv'
<1>1. PICK h :
        /\ h = Work("resolve", a, None, "closing", rows[a].status)
        /\ task[w] = Idle /\ Raised(a) /\ Handling(w, h)
  BY DEF ResolveRead
<1>2. /\ crossed' = crossed \union Met({a})
      /\ UNCHANGED <<rows, age, sweep, told, deaths, again, rung>>
  BY DEF ResolveRead
<1>3. task'[w] = h /\ \A v \in Workers \ {w} : task'[v] = task[v]
  BY <1>1, TaskStep
<1>4. /\ h.op = "resolve" /\ h.alert = a /\ h.stage = "closing" /\ h.saw = rows[a].status
      /\ h \in Handler /\ h # Idle
  <2>1. rows[a].status \in Statuses
    BY <1>1, RowsAreRows DEF Row
  <2> QED BY <1>1, <2>1 DEF Work, Idle, Handler
<1>5. a \notin crossed' => \A v \in Workers : task[v].alert # a /\ ~InSweep(v, a)
  BY <1>2, MetIsBusy
<1>6. TypeOK'
  BY <1>1, <1>2, <1>4 DEF IInv, TypeOK, Handling, Met
<1>7. HandlersInv'
  BY <1>1, <1>2, <1>3, <1>4 DEF IInv, AlertsInv, HandlersInv, Raised, InSweep
<1>8. OneAtATime'
  BY <1>2, <1>3, <1>4, <1>5 DEF IInv, AlertsInv, OneAtATime, InSweep
<1>9. KnowsRow'
  BY <1>2, <1>3, <1>4, <1>5 DEF IInv, AlertsInv, KnowsRow, InSweep
<1>10. PendingIsFree' /\ SilentBefore' /\ ToldWhoComes' /\ RungIsKept'
  BY <1>2 DEF IInv, AlertsInv, PendingIsFree, SilentBefore, ToldWhoComes, RungIsKept, Raised
<1> QED BY <1>6, <1>7, <1>8, <1>9, <1>10 DEF IInv, AlertsInv

\* The row becomes resolved, or stays what it is, and keeps whose it is.
LEMMA ResolveCommitStep ==
  ASSUME IInv, NEW w \in Workers, ResolveCommit(w)
  PROVE  IInv'
<1>a. PICK a \in Calls : a = task[w].alert /\ Raised(a) /\ task[w].op = "resolve"
  BY HandlerHasAlert DEF ResolveCommit, AtStage
<1>1. PICK r :
        /\ a = task[w].alert /\ Raised(a) /\ task[w].op = "resolve"
        /\ r \in {rows[a], [rows[a] EXCEPT !.status = "resolved"]}
        /\ rows' = [rows EXCEPT ![a] = r]
  <2>2. rows \in [Calls -> Row \union {None}]
    BY DEF IInv, TypeOK
  <2>3. CASE task[w].saw = "resolved"
    <3>1. rows' = [rows EXCEPT ![a] = rows[a]]
      BY <2>2, <2>3 DEF ResolveCommit
    <3> QED BY <1>a, <3>1
  <2>4. CASE task[w].saw # "resolved"
    BY <1>a, <2>4 DEF ResolveCommit
  <2> QED BY <2>3, <2>4
<1>2. Handling(w, Idle) /\ UNCHANGED <<age, sweep, told, deaths, crossed, again, rung>>
  BY DEF ResolveCommit
<1>3. /\ task'[w] = Idle /\ \A v \in Workers \ {w} : task'[v] = task[v]
      /\ rows'[a] = r /\ \A b \in Calls \ {a} : rows'[b] = rows[b]
  <2>1. task'[w] = Idle /\ \A v \in Workers \ {w} : task'[v] = task[v]
    BY <1>2, TaskStep
  <2>2. rows'[a] = r /\ \A b \in Calls \ {a} : rows'[b] = rows[b]
    BY <1>1 DEF IInv, TypeOK
  <2> QED BY <2>1, <2>2
<1>4. /\ r \in Row /\ r # None /\ r.level = rows[a].level /\ r.by = rows[a].by
      /\ r.status \in {rows[a].status, "resolved"}
  <2>1. rows[a] \in Row
    BY <1>1, RowsAreRows
  <2> QED BY <1>1, <2>1, RowIds DEF Row
<1>5. Idle \in Handler
  BY DEF Work, Idle, Handler
<1>6. TypeOK'
  BY <1>1, <1>2, <1>4, <1>5 DEF IInv, TypeOK, Handling
<1>0. a = task[w].alert /\ Raised(a) /\ task[w].op = "resolve"
  BY <1>1
<1>7. HandlersInv' /\ OneAtATime'
  BY <1>0, <1>2, <1>3, <1>4, HandlerHasAlert
  DEF IInv, AlertsInv, HandlersInv, OneAtATime, Raised, InSweep
<1>8. KnowsRow'
  <2>1. a \notin crossed => \A v \in Workers : (v # w => task[v].alert # a) /\ ~InSweep(v, a)
    BY <1>0 DEF IInv, AlertsInv, OneAtATime
  <2> QED BY <1>0, <1>2, <1>3, <2>1, HandlerHasAlert DEF IInv, AlertsInv, KnowsRow, InSweep
<1>9. PendingIsFree' /\ SilentBefore' /\ RungIsKept' /\ ToldWhoComes'
  BY <1>0, <1>2, <1>3, <1>4
  DEF IInv, AlertsInv, PendingIsFree, SilentBefore, RungIsKept, ToldWhoComes, Raised
<1> QED BY <1>6, <1>7, <1>8, <1>9 DEF IInv, AlertsInv

-----------------------------------------------------------------------------
\* What a sweep's step does to the sweeps.
LEMMA SweepStep ==
  ASSUME IInv, NEW w \in Workers, NEW s, sweep' = [sweep EXCEPT ![w] = s]
  PROVE  sweep'[w] = s /\ \A v \in Workers \ {w} : sweep'[v] = sweep[v]
BY DEF IInv, TypeOK

\* escalate_stale_alerts reads what is pending and below its age.
LEMMA SweepReadStep ==
  ASSUME IInv, NEW w \in Workers, SweepRead(w)
  PROVE  IInv'
<1>a. PICK stale \in SUBSET Calls : stale = {a \in Calls : Stale(a)}
  OBVIOUS
<1>1. PICK s :
        /\ stale = {a \in Calls : Stale(a)}
        /\ s = [todo |-> stale, raised |-> {},
                target |-> [a \in Calls |-> IF a \in stale THEN age[a] ELSE 0]]
        /\ sweep[w] = Asleep /\ sweep' = [sweep EXCEPT ![w] = s]
        /\ crossed' = crossed \union Met(stale)
  BY <1>a DEF SweepRead
<1>2. UNCHANGED <<rows, age, task, told, deaths, again, rung>>
  BY DEF SweepRead
<1>3. sweep'[w] = s /\ \A v \in Workers \ {w} : sweep'[v] = sweep[v]
  BY <1>1, SweepStep
<1>4. \A a \in stale : /\ Raised(a) /\ rows[a].status = "pending" /\ rows[a].level < age[a]
                       /\ rows[a].level \in 0 .. 2 /\ age[a] \in 0 .. 2
  BY <1>1, RowsAreRows DEF Stale, Row, IInv, TypeOK
<1>5. /\ s \in Sweeper /\ s.todo = stale /\ s.raised = {}
      /\ \A a \in stale : s.target[a] = age[a] /\ s.target[a] > 0
  <2> DEFINE target == [a \in Calls |-> IF a \in stale THEN age[a] ELSE 0]
  <2>1. target \in [Calls -> 0 .. 2]
    BY <1>4
  <2>2. \A a \in stale : target[a] = age[a] /\ target[a] > 0
    BY <1>4
  <2>3. s = [todo |-> stale, raised |-> {}, target |-> target]
    BY <1>1
  <2> HIDE DEF target
  <2> QED BY <2>1, <2>2, <2>3 DEF Sweeper
<1>6. \A a \in stale : a \notin crossed' =>
                       \A v \in Workers : task[v].alert # a /\ ~InSweep(v, a)
  BY <1>1, MetIsBusy
<1>7. TypeOK'
  BY <1>1, <1>2, <1>5 DEF IInv, TypeOK, Met
<1>0. sweep[w].todo = {} /\ sweep[w].raised = {} /\ crossed \subseteq crossed'
  BY <1>1 DEF Asleep
<1>8. HandlersInv'
  BY <1>0, <1>2, <1>3, <1>4, <1>5 DEF IInv, AlertsInv, HandlersInv, Raised, InSweep
<1>9. OneAtATime'
  BY <1>0, <1>2, <1>3, <1>5, <1>6 DEF IInv, AlertsInv, OneAtATime, InSweep
<1>10. KnowsRow'
  BY <1>0, <1>2, <1>3, <1>4, <1>5 DEF IInv, AlertsInv, KnowsRow, InSweep
<1>11. PendingIsFree' /\ SilentBefore' /\ ToldWhoComes'
  BY <1>0, <1>2 DEF IInv, AlertsInv, PendingIsFree, SilentBefore, ToldWhoComes, Raised
<1>12. RungIsKept'
  BY <1>0, <1>2, <1>3 DEF IInv, AlertsInv, RungIsKept
<1> QED BY <1>7, <1>8, <1>9, <1>10, <1>11, <1>12 DEF IInv, AlertsInv

\* It announces one of them: a level above the stored one, and for the first
\* time, since nobody else is at work on the alert.
LEMMA SweepAnnouncesStep ==
  ASSUME IInv, NEW w \in Workers, SweepAnnounces(w)
  PROVE  IInv'
<1>a. PICK a \in sweep[w].todo :
        /\ Rings(a, sweep[w].target[a])
        /\ sweep' = [sweep EXCEPT ![w] = [sweep[w] EXCEPT !.todo = @ \ {a}, !.raised = @ \union {a}]]
        /\ UNCHANGED <<rows, age, task, told, deaths, crossed, again>>
  BY DEF SweepAnnounces
<1>1. PICK s :
        /\ Rings(a, sweep[w].target[a])
        /\ s = [sweep[w] EXCEPT !.todo = @ \ {a}, !.raised = @ \union {a}]
        /\ sweep' = [sweep EXCEPT ![w] = s]
        /\ UNCHANGED <<rows, age, task, told, deaths, crossed, again>>
  BY <1>a
<1>2. /\ sweep[w] \in Sweeper /\ a \in Calls /\ InSweep(w, a) /\ Raised(a)
      /\ sweep[w].target[a] \in 1 .. 2 /\ a \notin sweep[w].raised
  BY HandlerHasAlert DEF Sweeper, InSweep, IInv, AlertsInv, HandlersInv
<1>3. sweep'[w] = s /\ \A v \in Workers \ {w} : sweep'[v] = sweep[v]
  BY <1>1, SweepStep
<1>4. /\ s \in Sweeper /\ s.target = sweep[w].target
      /\ s.todo = sweep[w].todo \ {a} /\ s.raised = sweep[w].raised \union {a}
  BY <1>1, <1>2 DEF Sweeper
<1>5. \A v \in Workers, b \in Calls : InSweep(v, b)' <=> InSweep(v, b)
  BY <1>2, <1>3, <1>4 DEF InSweep
<1>6. /\ rung' \in [Calls -> [1 .. 2 -> 0 .. 2]]
      /\ a \in crossed => rung' = rung
      /\ rung'[a][sweep[w].target[a]] <= rung[a][sweep[w].target[a]] + 1
      /\ \A k \in 1 .. 2 : k # sweep[w].target[a] => rung'[a][k] = rung[a][k]
      /\ \A b \in Calls \ {a} : rung'[b] = rung[b]
  BY <1>1, <1>2, RingsStep
<1>7. TypeOK'
  BY <1>1, <1>4, <1>6 DEF IInv, TypeOK
<1>8. HandlersInv' /\ OneAtATime'
  BY <1>1, <1>3, <1>4, <1>5
  DEF IInv, AlertsInv, HandlersInv, OneAtATime, Raised
<1>9. KnowsRow'
  <2>1. a \notin crossed => \A v \in Workers : task[v].alert # a
    BY <1>2 DEF IInv, AlertsInv, OneAtATime
  <2> QED BY <1>1, <1>3, <1>4, <1>5, <1>6, <2>1 DEF IInv, AlertsInv, KnowsRow
<1>10. PendingIsFree' /\ SilentBefore' /\ ToldWhoComes'
  BY <1>1, <1>2, <1>6 DEF IInv, AlertsInv, PendingIsFree, SilentBefore, ToldWhoComes, Raised
<1>11. RungIsKept'
  <2>1. ASSUME deaths = 0, a \notin crossed
        PROVE  rung[a][sweep[w].target[a]] = 0
    <3>1. rung[a] \in [1 .. 2 -> 0 .. 2] /\ rows[a].level \in 0 .. 2
      BY <1>2, RowsAreRows DEF IInv, TypeOK, Row
    <3>2. rows[a].level < sweep[w].target[a]
      BY <1>2, <2>1 DEF IInv, AlertsInv, KnowsRow
    <3>3. \A v \in Workers : a \notin sweep[v].raised
      BY <1>2, <2>1 DEF IInv, AlertsInv, OneAtATime, InSweep
    <3> QED BY <1>2, <2>1, <3>1, <3>2, <3>3 DEF IInv, AlertsInv, RungIsKept
  <2>2. ASSUME deaths = 0, NEW b \in Calls \ crossed, NEW l \in 1 .. 2
        PROVE  /\ rung'[b][l] <= 1
               /\ rung'[b][l] = 1 =>
                    \/ rows[b].level >= l
                    \/ \E v \in Workers : b \in sweep'[v].raised /\ sweep'[v].target[b] = l
    <3>1. CASE b = a /\ l = sweep[w].target[a]
      BY <1>3, <1>4, <1>6, <2>1, <2>2, <3>1
    <3>2. CASE ~(b = a /\ l = sweep[w].target[a])
      <4>1. rung'[b][l] = rung[b][l]
        BY <1>6, <2>2, <3>2
      <4>2. \A v \in Workers : sweep[v].raised \subseteq sweep'[v].raised
                              /\ sweep'[v].target = sweep[v].target
        BY <1>3, <1>4
      <4> QED BY <2>2, <4>1, <4>2 DEF IInv, AlertsInv, RungIsKept
    <3> QED BY <3>1, <3>2
  <2> QED BY <1>1, <2>2 DEF RungIsKept
<1> QED BY <1>7, <1>8, <1>9, <1>10, <1>11 DEF IInv, AlertsInv

\* One commit: the levels announced are stored, and nothing else is touched.
LEMMA SweepCommitStep ==
  ASSUME IInv, NEW w \in Workers, SweepCommit(w)
  PROVE  IInv'
<1>1. /\ sweep[w].todo = {} /\ rows' = Escalated(w)
      /\ sweep' = [sweep EXCEPT ![w] = Asleep]
      /\ UNCHANGED <<age, task, told, deaths, crossed, again, rung>>
  BY DEF SweepCommit
<1>2. sweep'[w] = Asleep /\ \A v \in Workers \ {w} : sweep'[v] = sweep[v]
  BY <1>1, SweepStep
<1>3. sweep[w] \in Sweeper /\ Asleep \in Sweeper /\ Asleep.todo = {} /\ Asleep.raised = {}
  BY HandlerHasAlert DEF Asleep, Sweeper
<1>4. \A a \in sweep[w].raised :
        /\ a \in Calls /\ InSweep(w, a) /\ Raised(a) /\ Raised(a)'
        /\ rows'[a] \in Row /\ rows'[a].level = sweep[w].target[a]
        /\ rows'[a].status = rows[a].status /\ rows'[a].by = rows[a].by
  <2> TAKE a \in sweep[w].raised
  <2>1. a \in Calls /\ InSweep(w, a)
    BY <1>3 DEF Sweeper, InSweep
  <2>2. Raised(a) /\ rows[a] \in Row /\ sweep[w].target[a] \in 0 .. 2
    BY <1>3, <2>1, RowsAreRows DEF Sweeper, IInv, AlertsInv, HandlersInv
  <2>3. rows'[a] = [rows[a] EXCEPT !.level = sweep[w].target[a]]
    BY <1>1, <2>1 DEF Escalated
  <2>4. /\ rows'[a] \in Row /\ rows'[a].level = sweep[w].target[a]
        /\ rows'[a].status = rows[a].status /\ rows'[a].by = rows[a].by
    BY <2>2, <2>3 DEF Row
  <2> QED BY <2>1, <2>2, <2>4, RowIds DEF Raised
<1>5. \A a \in Calls \ sweep[w].raised : rows'[a] = rows[a]
  BY <1>1 DEF Escalated
<1>6. \A a \in Calls : /\ Raised(a)' <=> Raised(a)
                       /\ Raised(a) => rows'[a].status = rows[a].status
                                       /\ rows'[a].by = rows[a].by
  BY <1>4, <1>5 DEF Raised
<1>7. TypeOK'
  <2>1. rows' \in [Calls -> Row \union {None}]
    <3>1. rows' = [a \in Calls |-> rows'[a]]
      BY <1>1 DEF Escalated
    <3> QED BY <1>4, <1>5, <3>1 DEF IInv, TypeOK
  <2> QED BY <1>1, <1>3, <2>1 DEF IInv, TypeOK
<1>8. HandlersInv' /\ OneAtATime'
  BY <1>1, <1>2, <1>3, <1>6 DEF IInv, AlertsInv, HandlersInv, OneAtATime, InSweep
<1>9. KnowsRow'
  <2>1. \A a \in Calls \ crossed : a \in sweep[w].raised =>
           \A v \in Workers : task[v].alert # a /\ (v # w => ~InSweep(v, a))
    BY <1>4 DEF IInv, AlertsInv, OneAtATime
  <2>2. \A v \in Workers, a \in Calls : InSweep(v, a)' => v # w /\ InSweep(v, a)
    BY <1>2, <1>3 DEF InSweep
  <2> QED BY <1>1, <1>2, <1>5, <2>1, <2>2 DEF IInv, AlertsInv, KnowsRow
<1>10. PendingIsFree' /\ SilentBefore'
  BY <1>1, <1>6 DEF IInv, AlertsInv, PendingIsFree, SilentBefore
<1>11. ToldWhoComes'
  BY <1>1, <1>6 DEF IInv, AlertsInv, SilentBefore, ToldWhoComes
<1>12. RungIsKept'
  <2>1. ASSUME deaths = 0, NEW a \in Calls \ crossed, NEW l \in 1 .. 2, rung[a][l] = 1
        PROVE  \/ rows'[a].level >= l
               \/ \E v \in Workers : a \in sweep'[v].raised /\ sweep'[v].target[a] = l
    <3>1. CASE a \in sweep[w].raised
      <4>1. /\ rows'[a].level = sweep[w].target[a] /\ rows[a].level < sweep[w].target[a]
            /\ sweep[w].target[a] \in 0 .. 2 /\ rows[a].level \in 0 .. 2
            /\ \A v \in Workers : a \in sweep[v].raised => v = w
        BY <1>3, <1>4, <3>1, RowsAreRows
        DEF IInv, AlertsInv, KnowsRow, OneAtATime, InSweep, Sweeper, Row
      <4> QED BY <2>1, <4>1 DEF IInv, AlertsInv, RungIsKept
    <3>2. CASE a \notin sweep[w].raised
      BY <1>2, <1>5, <2>1, <3>2 DEF IInv, AlertsInv, RungIsKept
    <3> QED BY <3>1, <3>2
  <2> QED BY <1>1, <2>1 DEF IInv, AlertsInv, RungIsKept
<1> QED BY <1>7, <1>8, <1>9, <1>10, <1>11, <1>12 DEF IInv, AlertsInv

\* A handler or a sweep that fails leaves what is stored as it is.
LEMMA DiesStep ==
  ASSUME IInv, NEW w \in Workers, Dies(w)
  PROVE  IInv'
<1>1. /\ deaths' = deaths + 1
      /\ UNCHANGED <<rows, age, told, crossed, again, rung>>
      /\ deaths' \in Nat /\ deaths' # 0
  BY DEF Dies, IInv, TypeOK
<1>2. /\ Idle \in Handler /\ Asleep \in Sweeper
      /\ Asleep.todo = {} /\ Asleep.raised = {}
  BY DEF Work, Idle, Handler, Asleep, Sweeper
<1>3. RungIsKept' /\ PendingIsFree' /\ SilentBefore' /\ ToldWhoComes'
  BY <1>1 DEF IInv, AlertsInv, RungIsKept, PendingIsFree, SilentBefore, ToldWhoComes, Raised
<1>4. CASE Handling(w, Idle) /\ UNCHANGED sweep
  <2>1. task'[w] = Idle /\ \A v \in Workers \ {w} : task'[v] = task[v]
    BY <1>4, TaskStep
  <2>2. TypeOK'
    BY <1>1, <1>2, <1>4 DEF IInv, TypeOK, Handling
  <2>3. HandlersInv' /\ OneAtATime' /\ KnowsRow'
    BY <1>1, <1>4, <2>1, HandlerHasAlert
    DEF IInv, AlertsInv, HandlersInv, OneAtATime, KnowsRow, InSweep, Raised
  <2> QED BY <1>3, <2>2, <2>3 DEF IInv, AlertsInv
<1>5. CASE sweep' = [sweep EXCEPT ![w] = Asleep] /\ UNCHANGED task
  <2>1. sweep'[w] = Asleep /\ \A v \in Workers \ {w} : sweep'[v] = sweep[v]
    BY <1>5, SweepStep
  <2>2. TypeOK'
    BY <1>1, <1>2, <1>5 DEF IInv, TypeOK
  <2>3. HandlersInv' /\ OneAtATime' /\ KnowsRow'
    BY <1>1, <1>2, <1>5, <2>1
    DEF IInv, AlertsInv, HandlersInv, OneAtATime, KnowsRow, InSweep, Raised
  <2> QED BY <1>3, <2>2, <2>3 DEF IInv, AlertsInv
<1> QED BY <1>4, <1>5 DEF Dies

-----------------------------------------------------------------------------
\* Every step keeps the invariant.
LEMMA StepHolds == IInv /\ [Next]_vars => IInv'
<1> SUFFICES ASSUME IInv, [Next]_vars PROVE IInv'
  OBVIOUS
<1>1. ASSUME NEW a \in Calls, Ages(a) PROVE IInv'
  BY <1>1, AgesStep
<1>2. ASSUME NEW w \in Workers, Handle(w) PROVE IInv'
  BY <1>2, OpenToFloorStep, AnnounceStep, AckCommitStep, AckTellsStep, ResolveCommitStep DEF Handle
<1>3. ASSUME NEW w \in Workers, Sweep(w) PROVE IInv'
  BY <1>3, SweepReadStep, SweepAnnouncesStep, SweepCommitStep DEF Sweep
<1>4. ASSUME NEW w \in Workers, Dies(w) PROVE IInv'
  BY <1>4, DiesStep
<1>5. ASSUME NEW w \in Workers, NEW a \in Calls, NEW owned \in BOOLEAN, Raise(w, a, owned)
      PROVE  IInv'
  BY <1>5, RaiseStep
<1>6. ASSUME NEW w \in Workers, NEW a \in Calls, NEW s \in Attendants, AckRead(w, s, a)
      PROVE  IInv'
  BY <1>6, AckReadStep
<1>7. ASSUME NEW w \in Workers, NEW a \in Calls, ResolveRead(w, a) PROVE IInv'
  BY <1>7, ResolveReadStep
<1>8. CASE UNCHANGED vars
  BY <1>8 DEF vars, IInv, TypeOK, AlertsInv, HandlersInv, OneAtATime, KnowsRow, PendingIsFree,
              SilentBefore, RungIsKept, ToldWhoComes, InSweep, Raised
<1> QED BY <1>1, <1>2, <1>3, <1>4, <1>5, <1>6, <1>7, <1>8 DEF Next

\* The invariant holds, however the handlers and the sweeps of
\* alert_service.py interleave and wherever they fail.
THEOREM AlertsHold == Spec => []IInv
<1>1. Init => IInv
  BY InitHolds
<1>2. IInv /\ [Next]_vars => IInv'
  BY StepHolds
<1> QED BY <1>1, <1>2, PTL DEF Spec

\* Every alert, handler and sweep of alert_service.py keeps its shape.
THEOREM AlertsTypeCorrect == Spec => []TypeOK
<1>1. IInv => TypeOK
  BY DEF IInv
<1> QED BY <1>1, AlertsHold, PTL

\* A level of an alert is announced once, and the guest's page names whoever has
\* it (alert_service.py:109-169, 206-233), unless two met or one failed.
THEOREM NewsIsAlwaysTrue == Spec => []NewsIsTrue
<1>1. IInv => NewsIsTrue
  <2> SUFFICES ASSUME IInv PROVE NewsIsTrue
    OBVIOUS
  <2>1. ASSUME NEW a \in Calls, NEW l \in 1 .. 2, rung[a][l] > 1
        PROVE  a \in crossed \/ deaths > 0
    <3>1. deaths \in Nat /\ rung[a][l] \in 0 .. 2
      BY DEF IInv, TypeOK
    <3>2. deaths = 0 /\ a \notin crossed => rung[a][l] <= 1
      BY DEF IInv, AlertsInv, RungIsKept
    <3> QED BY <2>1, <3>1, <3>2
  <2> QED BY <2>1 DEF NewsIsTrue, RungOnce, IInv, AlertsInv
<1> QED BY <1>1, AlertsHold, PTL

-----------------------------------------------------------------------------
\* One step of NeverBackwards.
Forwards == \A a \in Calls : Raised(a) =>
              \/ /\ rows'[a].level >= rows[a].level
                 /\ Step(rows'[a].status) >= Step(rows[a].status)
                 /\ rows[a].by # None => rows'[a].by = rows[a].by
              \/ a \in crossed

\* A row that is not written goes nowhere.
LEMMA SameRowIsForwards ==
  ASSUME IInv, NEW a \in Calls, Raised(a), rows'[a] = rows[a]
  PROVE  /\ rows'[a].level >= rows[a].level
         /\ Step(rows'[a].status) >= Step(rows[a].status)
         /\ rows[a].by # None => rows'[a].by = rows[a].by
<1>1. rows[a] \in Row
  BY RowsAreRows
<1>2. rows[a].level \in 0 .. 2 /\ Step(rows[a].status) \in 0 .. 2
  BY <1>1 DEF Row, Step
<1> QED BY <1>2

\* Only five steps write a row, and each knows it or was crossed.
LEMMA StepIsForwards == IInv /\ [Next]_vars => [Forwards]_vars
<1> SUFFICES ASSUME IInv, [Next]_vars PROVE Forwards
  OBVIOUS
<1>1. CASE UNCHANGED rows
  BY <1>1, SameRowIsForwards DEF Forwards
<1>2. ASSUME NEW w \in Workers, NEW a \in Calls, NEW owned \in BOOLEAN, Raise(w, a, owned)
      PROVE  Forwards
  <2>1. ~Raised(a) /\ \A b \in Calls \ {a} : rows'[b] = rows[b]
    BY <1>2 DEF Raise, IInv, TypeOK
  <2> QED BY <2>1, SameRowIsForwards DEF Forwards
<1>3. ASSUME NEW w \in Workers, OpenToFloor(w) PROVE Forwards
  <2>1. PICK a \in Calls :
          /\ a = task[w].alert /\ Raised(a) /\ task[w].op = "raise" /\ task[w].stage = "stored"
          /\ rows' = [rows EXCEPT ![a].level = 1]
    BY <1>3, HandlerHasAlert DEF OpenToFloor, AtStage
  <2>2. rows[a] \in Row /\ \A b \in Calls \ {a} : rows'[b] = rows[b]
    BY <2>1, RowsAreRows
  <2>3. rows'[a].level = 1 /\ rows'[a].status = rows[a].status /\ rows'[a].by = rows[a].by
    BY <2>1, <2>2 DEF IInv, TypeOK, Row
  <2>4. a \notin crossed => rows[a].level = 0
    BY <2>1 DEF IInv, AlertsInv, KnowsRow
  <2>5. Step(rows[a].status) \in 0 .. 2
    BY DEF Step
  <2> QED BY <2>2, <2>3, <2>4, <2>5, SameRowIsForwards DEF Forwards
<1>4. ASSUME NEW w \in Workers, AckCommit(w) PROVE Forwards
  <2>1. PICK a \in Calls :
          /\ a = task[w].alert /\ Raised(a) /\ task[w].stage = "claiming"
          /\ rows' = [rows EXCEPT ![a] = Claimed(@, task[w].by)]
    BY <1>4, HandlerHasAlert DEF AckCommit, AtStage
  <2>2. rows[a] \in Row /\ \A b \in Calls \ {a} : rows'[b] = rows[b]
    BY <2>1, RowsAreRows
  <2>3. /\ rows'[a].level = rows[a].level /\ rows'[a].status = "acknowledged"
        /\ rows[a].level \in 0 .. 2
    BY <2>1, <2>2 DEF IInv, TypeOK, Row, Claimed
  <2>4. a \notin crossed => rows[a].status = "pending" /\ rows[a].by = None
    BY <2>1 DEF IInv, AlertsInv, KnowsRow, PendingIsFree
  <2>5. Step("pending") = 0 /\ Step("acknowledged") = 1
    BY DEF Step
  <2> QED BY <2>2, <2>3, <2>4, <2>5, SameRowIsForwards DEF Forwards
<1>5. ASSUME NEW w \in Workers, ResolveCommit(w) PROVE Forwards
  <2>1. PICK a \in Calls :
          /\ a = task[w].alert /\ Raised(a)
          /\ \/ rows' = [rows EXCEPT ![a].status = "resolved"]
             \/ UNCHANGED rows
    BY <1>5, HandlerHasAlert DEF ResolveCommit, AtStage
  <2>2. rows[a] \in Row /\ \A b \in Calls \ {a} : rows'[b] = rows[b]
    <3>1. rows[a] \in Row
      BY <2>1, RowsAreRows
    <3>2. \A b \in Calls \ {a} : rows'[b] = rows[b]
      BY <2>1 DEF IInv, TypeOK
    <3> QED BY <3>1, <3>2
  <2>3. CASE rows' = [rows EXCEPT ![a].status = "resolved"]
    <3>1. /\ rows'[a].level = rows[a].level /\ rows'[a].status = "resolved"
          /\ rows'[a].by = rows[a].by /\ rows[a].level \in 0 .. 2
      BY <2>2, <2>3 DEF IInv, TypeOK, Row
    <3>2. Step("resolved") = 2 /\ Step(rows[a].status) \in 0 .. 2
      BY DEF Step
    <3> QED BY <2>2, <3>1, <3>2, SameRowIsForwards DEF Forwards
  <2> QED BY <1>1, <2>1, <2>3
<1>6. ASSUME NEW w \in Workers, SweepCommit(w) PROVE Forwards
  <2>1. ASSUME NEW a \in Calls, Raised(a), a \in sweep[w].raised, a \notin crossed
        PROVE  /\ rows'[a].level >= rows[a].level
               /\ rows'[a].status = rows[a].status /\ rows'[a].by = rows[a].by
    <3>1. rows[a] \in Row /\ sweep[w].target[a] \in 0 .. 2 /\ InSweep(w, a)
      BY <2>1, HandlerHasAlert, RowsAreRows DEF Sweeper, InSweep
    <3>2. rows'[a] = [rows[a] EXCEPT !.level = sweep[w].target[a]]
      BY <1>6, <2>1 DEF SweepCommit, Escalated
    <3>3. rows[a].level < sweep[w].target[a] /\ rows[a].level \in 0 .. 2
      BY <2>1, <3>1 DEF IInv, AlertsInv, KnowsRow, Row
    <3> QED BY <3>1, <3>2, <3>3 DEF Row
  <2>2. \A a \in Calls \ sweep[w].raised : rows'[a] = rows[a]
    BY <1>6 DEF SweepCommit, Escalated
  <2>3. \A a \in Calls : Step(rows[a].status) \in 0 .. 2
    BY DEF Step
  <2> QED BY <2>1, <2>2, <2>3, SameRowIsForwards DEF Forwards
<1>7. ASSUME NEW w \in Workers, Handle(w) \/ Sweep(w) \/ Dies(w) PROVE Forwards
  BY <1>1, <1>3, <1>4, <1>5, <1>6, <1>7
  DEF Handle, Sweep, Announce, AckTells, SweepRead, SweepAnnounces, Dies
<1> QED BY <1>1, <1>2, <1>7 DEF Next, Ages, AckRead, ResolveRead, vars

\* No commit of alert_service.py takes an alert's level or status back, or gives
\* it to somebody else, unless two handlers or sweeps met at it.
THEOREM AlertsNeverGoBack == Spec => NeverBackwards
<1>1. IInv /\ [Next]_vars => [Forwards]_vars
  BY StepIsForwards
<1>2. [][Forwards]_vars => NeverBackwards
  BY DEF Forwards, NeverBackwards
<1> QED BY <1>1, <1>2, AlertsHold, PTL DEF Spec
=============================================================================
