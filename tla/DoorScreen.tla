----------------------------- MODULE DoorScreen -----------------------------
(***************************************************************************)
(* The guard's screen: the camera, which may decode one code more than     *)
(* once before it stops, the typed code, and the one verdict on screen,    *)
(* which is that of whichever answer came last.                            *)
(***************************************************************************)
EXTENDS Naturals, FiniteSets

CONSTANTS
  Guests,   \* who comes to the door, each with a pass
  MaxPosts  \* scans under way at a time

VARIABLES
  door,     \* the page: camera, typed code, verdict
  scans,    \* posts under way: the pass, what was answered, a mark still to be made
  passes,   \* per guest: the pass as the venue has it
  front,    \* the guest whose pass was last put to the page
  vouched,  \* put to it since it was last at rest, with a pass that was valid then
  lapsed,   \* since then: passes that ran out or that another door let through
  doubled,  \* since then: a second post while one was under way
  lost      \* since then: an answer that did not arrive

atDoor  == <<door, scans, passes, front, vouched, lapsed, doubled, lost>>
history == <<front, vouched, lapsed, doubled, lost>>

Nobody == "nobody"
Blank  == [scanning |-> FALSE, typed |-> Nobody, verdict |-> "none"]
Config == [valid |-> "ALLOW EXIT", used |-> "ALREADY USED",
           expired |-> "EXPIRED", invalid |-> "DENY ACCESS"]

ResultScreen == door.verdict \in DOMAIN Config
ScannerScreen == ~ResultScreen
CameraButton == IF ScannerScreen THEN (IF door.scanning THEN "cancel" ELSE "scan") ELSE "none"
CheckButton  == ScannerScreen /\ door.typed # Nobody

Presented(g) == IF passes[g] = "valid" THEN {g} ELSE {}

\* processToken: one post per call, and nothing that keeps a second one back.
ProcessToken(g) ==
  /\ Cardinality(scans) < MaxPosts
  /\ scans' = scans \union {[id |-> n, guest |-> g, answer |-> "none", marks |-> FALSE] :
                n \in {CHOOSE n \in 1 .. MaxPosts : \A s \in scans : s.id # n}}
  /\ IF scans = {}
     THEN /\ front' = g /\ vouched' = Presented(g)
          /\ lapsed' = {} /\ doubled' = FALSE /\ lost' = FALSE
     ELSE /\ vouched' = vouched \union Presented(g) /\ doubled' = TRUE
          /\ UNCHANGED <<front, lapsed, lost>>
  /\ UNCHANGED passes

StartCamera ==
  /\ CameraButton = "scan"
  /\ door' = [door EXCEPT !.scanning = TRUE]
  /\ UNCHANGED <<scans, passes, history>>

\* The cross, or a camera that is not there.
StopCamera ==
  /\ CameraButton = "cancel"
  /\ door' = [door EXCEPT !.scanning = FALSE]
  /\ UNCHANGED <<scans, passes, history>>

\* The callback stops the camera and processes the code.  stop() is not waited
\* for: the next frame may decode the code again.
Decoded(g) ==
  /\ door.scanning
  /\ ProcessToken(g)
  /\ door' \in {[door EXCEPT !.scanning = FALSE], door}

TypeCode(g) ==
  /\ ScannerScreen /\ door.typed # g
  /\ door' = [door EXCEPT !.typed = g]
  /\ UNCHANGED <<scans, passes, history>>

\* The button or the Enter key; the box keeps the code.
CheckTyped ==
  /\ CheckButton
  /\ ProcessToken(door.typed)
  /\ UNCHANGED door

\* scan_exit_pass reads the pass, and marks a valid one before it answers.
\* Mutant: the pass that is asked for is answered as it is afterwards.
AnswersLate(g) == IF passes[g] = "valid" THEN "used" ELSE passes[g]
Verdict(g) == passes[g]

ScanRead(s) ==
  /\ s.answer = "none"
  /\ scans' = (scans \ {s}) \union {[s EXCEPT !.answer = Verdict(s.guest),
                                             !.marks = (passes[s.guest] = "valid")]}
  /\ UNCHANGED <<door, passes, history>>

ScanMarks(s) ==
  /\ s.marks
  /\ passes' = [passes EXCEPT ![s.guest] = "used"]
  /\ scans' = (scans \ {s}) \union {[s EXCEPT !.marks = FALSE]}
  /\ UNCHANGED <<door, history>>

\* Meanwhile a pass runs out, or another guard's device marks it.
PassLapses(g) ==
  /\ passes[g] = "valid"
  /\ \E status \in {"expired", "used"} : passes' = [passes EXCEPT ![g] = status]
  /\ lapsed' = lapsed \union {g}
  /\ UNCHANGED <<door, scans, front, vouched, doubled, lost>>

\* Whichever answer comes is the verdict on screen.
Answered(s) ==
  /\ s.answer # "none" /\ ~s.marks
  /\ scans' = scans \ {s}
  /\ door' = [door EXCEPT !.verdict = s.answer]
  /\ UNCHANGED <<passes, history>>

\* No answer is a denial, also if the pass was marked on the way.  A mark that
\* was still to be made when the page gave up is made or not.
AnswerLost(s) ==
  /\ scans' = scans \ {s}
  /\ door' = [door EXCEPT !.verdict = "invalid"]
  /\ lost' = TRUE
  /\ passes' \in {passes, IF s.marks THEN [passes EXCEPT ![s.guest] = "used"] ELSE passes}
  /\ UNCHANGED <<front, vouched, lapsed, doubled>>

ScanNext ==
  /\ ResultScreen
  /\ door' = [door EXCEPT !.verdict = "none", !.typed = Nobody]
  /\ UNCHANGED <<scans, passes, history>>

DoorInit ==
  /\ door = Blank /\ scans = {}
  /\ passes = [g \in Guests |-> "valid"]
  /\ front = Nobody /\ vouched = {} /\ lapsed = {} /\ doubled = FALSE /\ lost = FALSE

DoorNext ==
  \/ StartCamera \/ StopCamera \/ CheckTyped \/ ScanNext
  \/ \E g \in Guests : Decoded(g) \/ TypeCode(g) \/ PassLapses(g)
  \/ \E s \in scans : ScanRead(s) \/ ScanMarks(s) \/ Answered(s) \/ AnswerLost(s)

DoorSpec == DoorInit /\ [][DoorNext]_atDoor

-----------------------------------------------------------------------------
\* The guard lets a guest out, or keeps one in, on what the screen says.  With
\* nothing under way, ALLOW is for a pass that was put to this page since it was
\* last at rest, was valid then and is spent now, that of the guest in front if
\* no second post was sent; and unless one was, or an answer was lost, whoever
\* is refused had no valid pass when it was shown or lost it before the venue
\* looked.
VerdictIsForGuest ==
  ResultScreen /\ scans = {} =>
    /\ door.verdict = "valid" =>
         \E g \in vouched : passes[g] = "used" /\ (~doubled => g = front)
    /\ door.verdict # "valid" /\ ~doubled /\ ~lost => front \notin vouched \/ front \in lapsed

\* Why: a valid answer is about a pass that was valid when it was shown, since
\* none becomes valid again; and until a second post is sent, the one that is
\* under way is about the guest in front.
DoorTypeOK ==
  /\ door \in [scanning : BOOLEAN, typed : Guests \union {Nobody},
                verdict : DOMAIN Config \union {"none"}]
  /\ passes \in [Guests -> {"valid", "used", "expired"}]
  /\ \A s \in scans : /\ DOMAIN s = {"id", "guest", "answer", "marks"}
                       /\ s.guest \in Guests /\ s.marks \in BOOLEAN
                       /\ s.answer \in {"none", "valid", "used", "expired"}
AnswersAreVouched ==
  \A s \in scans :
    /\ passes[s.guest] = "valid" => s.guest \in vouched
    /\ s.answer = "valid" =>
         s.guest \in vouched /\ (s.marks \/ passes[s.guest] = "used")
    /\ s.marks => s.answer = "valid"
OnePost ==
  ~doubled => /\ \A s, t \in scans : s = t
              /\ \A s \in scans :
                   /\ s.guest = front
                   /\ s.answer = "none" /\ front \in vouched /\ front \notin lapsed =>
                        passes[front] = "valid"
                   /\ s.answer \in {"used", "expired"} =>
                        front \notin vouched \/ front \in lapsed
DoorInv == DoorTypeOK /\ AnswersAreVouched /\ OnePost /\ VerdictIsForGuest
=============================================================================
