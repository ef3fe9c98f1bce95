------------------------------- MODULE Shifts -------------------------------
(***************************************************************************)
(* One person's shifts: the button in the station's header that opens and  *)
(* closes them, the requests of a worker, which read and commit in two     *)
(* steps, and the owner's form, which sets right a shift that nobody       *)
(* closed.  Hours are whole ones; a night is NightHours of them.           *)
(***************************************************************************)
EXTENDS Naturals, FiniteSets

CONSTANTS
  MaxHour, NightHours,  \* how long, and the hours of one business day
  MaxShifts,            \* shifts the person may come to have
  MaxTasks              \* requests handled at a time

Ids  == 1 .. MaxShifts
None == 0             \* no end, no shift
Night(h) == (h - 1) \div NightHours

VARIABLES
  button,  \* ShiftControl: what the station's header shows
  form,    \* the timesheet's form: the shift it is about
  shift,   \* the table of shifts
  tasks,   \* requests being handled: what was read, what is to be written
  hour,    \* now
  clocked, \* per shift: what the clock recorded
  met,     \* two requests to clock in were handled side by side
  raced    \* shifts whose clock-out was handled beside a correction

shifts == <<button, form, shift, tasks, hour, clocked, met, raced>>

NoTimes == <<None, None>>
Opened(start) == [started |-> start, ended |-> None, by |-> "nobody", flagged |-> FALSE,
                  corrected |-> FALSE, original |-> NoTimes]
NoShift == Opened(None)
NoForm  == 0
Started == {i \in Ids : shift[i].started # None}

OpenShift == {i \in Started : shift[i].ended = None}
\* What clock_in looks for before it opens one.
AlreadyHas == OpenShift

Task(kind, id, start, end, original) ==
  [kind |-> kind, id |-> id, start |-> start, end |-> end, original |-> original]
Doing(kind) == {t \in tasks : t.kind = kind}
Free == Cardinality(tasks) < MaxTasks

-----------------------------------------------------------------------------
\* The station's header.

Busy        == Doing("in") \union Doing("out") # {}
ClockButton == IF button.state = "unknown" THEN "nothing"
               ELSE IF button.state = "on" THEN (IF Busy THEN "wait" ELSE "end") ELSE "start"
CodeBox     == button.asking

Owner == UNCHANGED <<form, hour, clocked, raced>>

\* A failure to load reads as off.
LoadShift ==
  /\ \E seen \in {OpenShift # {}, FALSE} :
       button' = [button EXCEPT !.state = IF seen THEN "on" ELSE "off"]
  /\ Owner /\ UNCHANGED <<shift, tasks, met>>

AskCode ==
  /\ ClockButton = "start" /\ ~CodeBox
  /\ button' = [button EXCEPT !.asking = TRUE]
  /\ Owner /\ UNCHANGED <<shift, tasks, met>>

CloseBox ==
  /\ CodeBox
  /\ button' = [button EXCEPT !.asking = FALSE]
  /\ Owner /\ UNCHANGED <<shift, tasks, met>>

\* The button waits for an answer, the Enter key does not: one person may have
\* two requests under way.
ClockIn ==
  /\ CodeBox /\ Free /\ AlreadyHas = {}
  /\ \E n \in 1 .. MaxTasks :
       /\ \A t \in Doing("in") : t.id # n
       /\ tasks' = tasks \union {Task("in", n, hour, None, NoTimes)}
  /\ met' = (met \/ Doing("in") # {})
  /\ Owner /\ UNCHANGED <<button, shift>>

\* A second tap, or a phone that lost the answer.
AlreadyOn ==
  /\ CodeBox /\ AlreadyHas # {}
  /\ button' = [button EXCEPT !.asking = FALSE, !.state = "on"]
  /\ Owner /\ UNCHANGED <<shift, tasks, met>>

NewId == 1 + Cardinality(Started)

ClockInCommits(t) ==
  /\ t.kind = "in" /\ NewId \in Ids
  /\ shift' = [shift EXCEPT ![NewId] = Opened(t.start)]
  /\ clocked' = [clocked EXCEPT ![NewId] = <<t.start, None>>]
  /\ tasks' = tasks \ {t}
  /\ button' = [button EXCEPT !.asking = FALSE, !.state = "on"]
  /\ UNCHANGED <<form, hour, met, raced>>

\* Whichever of the person's open shifts comes first.
ClockOut ==
  /\ ClockButton = "end" /\ Free
  /\ \E i \in OpenShift :
       /\ tasks' = tasks \union {Task("out", i, None, hour, NoTimes)}
       /\ raced' = IF \E t \in Doing("fix") : t.id = i THEN raced \union {i} ELSE raced
  /\ UNCHANGED <<button, form, shift, hour, clocked, met>>

ClockOutCommits(t) ==
  /\ t.kind = "out"
  /\ shift' = [shift EXCEPT ![t.id] = [@ EXCEPT !.ended = t.end, !.by = "staff", !.flagged = FALSE]]
  /\ clocked' = [clocked EXCEPT ![t.id] = <<@[1], t.end>>]
  /\ tasks' = tasks \ {t}
  /\ button' = [button EXCEPT !.state = IF OpenShift = {t.id} THEN "off" ELSE "on"]
  /\ UNCHANGED <<form, hour, met, raced>>

-----------------------------------------------------------------------------
\* The timesheet.

Station == UNCHANGED <<button, hour, clocked, met>>

\* Reading it marks what has been open since a night before this one.
FlagUnclosed ==
  /\ shift' = [i \in Ids |-> [shift[i] EXCEPT !.flagged = @ \/
                 (i \in OpenShift /\ Night(shift[i].started) < Night(hour))]]
  /\ Station /\ UNCHANGED <<form, tasks, raced>>

OpenFix(i) ==
  /\ i \in Started /\ form = NoForm
  /\ form' = i
  /\ Station /\ UNCHANGED <<shift, tasks, raced>>

\* Mutant: the times before this correction are called the original.
OriginalAgain(i) == <<shift[i].started, shift[i].ended>>
\* The times as they are when the first correction comes.
OriginalOf(i)    == IF shift[i].original = NoTimes THEN <<shift[i].started, shift[i].ended>>
                    ELSE shift[i].original

\* Both times, the end after the start.
SaveButton(from, to) == form # NoForm /\ from < to

\* correct_shift reads the shift, and what it is to keep of it.
SaveFix(from, to) ==
  /\ SaveButton(from, to) /\ Free
  /\ tasks' = tasks \union {Task("fix", form, from, to, OriginalOf(form))}
  /\ raced' = IF \E t \in Doing("out") : t.id = form THEN raced \union {form} ELSE raced
  /\ form' = NoForm
  /\ Station /\ UNCHANGED shift

FixCommits(t) ==
  /\ t.kind = "fix"
  /\ shift' = [shift EXCEPT ![t.id] = [started |-> t.start, ended |-> t.end, by |-> "owner",
                 flagged |-> FALSE, corrected |-> TRUE, original |-> t.original]]
  /\ tasks' = tasks \ {t}
  /\ Station /\ UNCHANGED <<form, raced>>

CancelFix ==
  /\ form # NoForm
  /\ form' = NoForm
  /\ Station /\ UNCHANGED <<shift, tasks, raced>>

HourPasses ==
  /\ hour < MaxHour
  /\ hour' = hour + 1
  /\ UNCHANGED <<button, form, shift, tasks, clocked, met, raced>>

ShiftsInit ==
  /\ button = [state |-> "unknown", asking |-> FALSE]
  /\ form = NoForm /\ tasks = {} /\ hour = 1
  /\ shift = [i \in Ids |-> NoShift]
  /\ clocked = [i \in Ids |-> <<None, None>>]
  /\ met = FALSE /\ raced = {}

ShiftsNext ==
  \/ LoadShift \/ AskCode \/ CloseBox \/ ClockIn \/ AlreadyOn \/ ClockOut
  \/ \E t \in tasks : ClockInCommits(t) \/ ClockOutCommits(t) \/ FixCommits(t)
  \/ FlagUnclosed \/ CancelFix \/ HourPasses
  \/ \E i \in Ids : OpenFix(i)
  \/ \E from, to \in 1 .. MaxHour : SaveFix(from, to)

ShiftsSpec == ShiftsInit /\ [][ShiftsNext]_shifts

-----------------------------------------------------------------------------
\* "Return the shift they are already on rather than opening a second one, which
\* would double their hours" (shift_service.py:92-94): two open shifts take two
\* requests that were handled side by side.
DoubleNeedsMeeting == Cardinality(OpenShift) > 1 => met

\* "Keeping both is what makes the correction defensible" (shift_service.py:
\* 152-154): what a corrected shift keeps is what the clock recorded, unless the
\* clock-out was handled beside the correction.
OriginalIsClock ==
  \A i \in Started :
    shift[i].corrected /\ i \notin raced => shift[i].original = clocked[i]

\* What the timesheet pays for is what was worked (shift_service.py:90-168).
HoursAreTrue == DoubleNeedsMeeting /\ OriginalIsClock

\* What it follows from.  Shifts are numbered as they come, and a request knows
\* the shift it is about.
Times == Nat \X Nat
Shift == [started : Nat, ended : Nat, by : {"nobody", "staff", "owner"},
          flagged : BOOLEAN, corrected : BOOLEAN, original : Times]
Request == [kind : {"in", "out", "fix"}, id : Nat, start : Nat, end : Nat, original : Times]

ShiftsTypeOK ==
  /\ shift \in [Ids -> Shift] /\ clocked \in [Ids -> Times]
  /\ tasks \subseteq Request
  /\ hour \in Nat \ {0} /\ form \in Started \union {NoForm}
  /\ met \in BOOLEAN /\ raced \subseteq Ids
  /\ \E n \in Nat : Started = 1 .. n

RequestsInv ==
  \A t \in tasks :
    /\ t.kind = "in" => t.start # None
    /\ t.kind \in {"out", "fix"} => t.id \in Started /\ t.end # None
    /\ t.kind = "fix" => t.start # None

\* Somebody who is clocking in is not on shift, ...
OneShiftInv ==
  ~met => /\ \A t, u \in Doing("in") : t = u
          /\ Doing("in") # {} => OpenShift = {}
          /\ \A i, j \in OpenShift : i = j

\* ... and what the first correction reads is what the clock has recorded.
OriginalsInv ==
  /\ \A i \in Started :
       /\ clocked[i][1] # None
       /\ ~shift[i].corrected => /\ shift[i].original = NoTimes
                                 /\ clocked[i] = <<shift[i].started, shift[i].ended>>
       /\ shift[i].corrected => shift[i].ended # None
  /\ OriginalIsClock
  /\ \A t \in Doing("out") :
       t.id \notin raced => /\ ~shift[t.id].corrected
                            /\ \A u \in Doing("fix") : u.id # t.id
  /\ \A t \in Doing("fix") : t.id \notin raced => t.original = clocked[t.id]
=============================================================================
