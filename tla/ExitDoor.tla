------------------------------ MODULE ExitDoor ------------------------------
(***************************************************************************)
(* The pass at the door (exit_pass_service.py): a paid order gets a pass   *)
(* with a short code that a guard can type, chosen among the codes no live *)
(* pass has, and a scan of the QR token or of the code lets a guest out    *)
(* and marks the pass.                                                     *)
(*                                                                         *)
(* Both are handlers of several workers: choosing a code and committing    *)
(* the pass, looking a pass up, marking it, and answering the guard are    *)
(* steps of their own.  Nothing is locked and no index makes the code      *)
(* unique.  A pass's status is computed from the clock, never stored.      *)
(***************************************************************************)
EXTENDS Handlers, Integers, FiniteSets

CONSTANTS
  Passes,      \* the exit pass of each order of one venue
  Codes,       \* short codes of six characters
  LongCodes,   \* the fallback of eight
  Life,        \* venues.exit_pass_minutes, in ticks
  MaxTime,     \* where the clock stops
  MaxJobDeaths \* how many handlers may die on the way

ASSUME DoorIds ==
  /\ Codes \intersect LongCodes = {} /\ IsFiniteSet(Passes)
  /\ None \notin Codes \union LongCodes \union Passes
ASSUME DoorBounds == Life \in Nat /\ MaxTime \in Nat /\ MaxJobDeaths \in Nat

VARIABLES
  code,       \* exit_passes.short_code, None before the pass exists
  expires,    \* exit_passes.expires_at
  used,       \* the passes whose used_at is set
  now,
  job,        \* per worker: what it is doing
  jobDeaths,
  \* What the guests and the guards have seen, for the properties:
  admitted,   \* per pass: how often the door has said "valid"
  turnedAway, \* passes refused while they were valid
  overlapped, \* passes found valid by two scans that were under way together
  raced       \* codes two handlers were giving out together

rows    == <<code, expires, used>>
history == <<admitted, turnedAway, overlapped, raced>>
doorVars == <<rows, now, job, jobDeaths, history>>

-----------------------------------------------------------------------------
NoJob == [at |-> "idle", pass |-> None, code |-> None, until |-> 0]

DoorInit ==
  /\ code = [p \in Passes |-> None] /\ expires = [p \in Passes |-> 0]
  /\ used = {}
  /\ now = 0
  /\ job = [w \in Workers |-> NoJob] /\ jobDeaths = 0
  /\ admitted = [p \in Passes |-> 0]
  /\ turnedAway = {} /\ overlapped = {} /\ raced = {}

Issued == {p \in Passes : code[p] # None}

\* ExitPass.status.
Status(p) == IF p \in used THEN "used"
             ELSE IF now > expires[p] THEN "expired" ELSE "valid"

\* The passes a new code must not clash with.
Live(p)    == p \in Issued /\ p \notin used /\ expires[p] > now
Holders(k) == {p \in Passes : Live(p) /\ code[p] = k}

\* Mutant: the code is not looked up before it is given out.
AnyCode(k) == TRUE

CodeIsFree(k) == Holders(k) = {}

\* generate_short_code: a code that clashes with nobody, or, when twelve draws
\* have all clashed, a longer one nobody has looked up.
Drawn == {k \in Codes : CodeIsFree(k)}
           \union (IF \E k \in Codes : ~CodeIsFree(k) THEN LongCodes ELSE {})

Begin(w, h) == job[w] = NoJob /\ job' = [job EXCEPT ![w] = h]
Becomes(w, at) == job' = [job EXCEPT ![w].at = at]
JobDone(w)  == job' = [job EXCEPT ![w] = NoJob]

ExpiresAt == now + Life

\* _create_exit_pass: the expiry is set before the code is chosen.
IssueRead(w, p) ==
  /\ code[p] = None /\ \A v \in Workers : job[v].pass # p
  /\ \E k \in Drawn :
       Begin(w, [at |-> "issuing", pass |-> p, code |-> k, until |-> ExpiresAt])
  /\ UNCHANGED <<rows, now, jobDeaths, history>>

\* The draw meets a code that two live passes hold: scalar_one_or_none raises,
\* and the payment fails with the pass.
IssueFails(w, p) ==
  /\ code[p] = None
  /\ job[w] = NoJob
  /\ \E k \in Codes : Cardinality(Holders(k)) > 1
  /\ UNCHANGED doorVars

IssueCommit(w) ==
  LET h == job[w]
  IN  /\ h.at = "issuing"
      /\ code' = [code EXCEPT ![h.pass] = h.code]
      /\ expires' = [expires EXCEPT ![h.pass] = h.until]
      /\ raced' = IF \E v \in Workers \ {w} : job[v].at = "issuing" /\ job[v].code = h.code
                  THEN raced \union {h.code} ELSE raced
      /\ JobDone(w)
      /\ UNCHANGED <<used, now, jobDeaths, admitted, turnedAway, overlapped>>

\* The rows a scan may take for the pass the guest shows: its own for the QR
\* token, the first one of any with that code, live or long dead, if typed.
Matches(p, typed) == IF typed THEN {q \in Issued : code[q] = code[p]} ELSE {p}

\* scan_exit_pass, up to the verdict: a pass that is not valid is refused.
ScanRead(w, p, typed) ==
  /\ p \in Issued
  /\ \E q \in Matches(p, typed) :
       IF Status(q) = "valid"
       THEN /\ Begin(w, [at |-> "marking", pass |-> q, code |-> None, until |-> 0])
            /\ overlapped' = IF \E v \in Workers : job[v].at = "marking" /\ job[v].pass = q
                             THEN overlapped \union {q} ELSE overlapped
            /\ UNCHANGED turnedAway
       ELSE /\ job[w] = NoJob
            /\ turnedAway' = IF Status(p) = "valid" THEN turnedAway \union {p} ELSE turnedAway
            /\ UNCHANGED <<job, overlapped>>
  /\ UNCHANGED <<rows, now, jobDeaths, admitted, raced>>

\* Mutants: used_at is not set; it is set wherever the code matches.
NotMarked(p)   == used
CodesMarked(p) == used \union {q \in Passes : code[q] = code[p]}

Marked(p) == used \union {p}

\* used_at is written over whatever another scan has written meanwhile.
ScanCommit(w) ==
  /\ job[w].at = "marking"
  /\ used' = Marked(job[w].pass)
  /\ Becomes(w, "answering")
  /\ UNCHANGED <<code, expires, now, jobDeaths, history>>

\* Only now does the guard see the verdict.
ScanAnswer(w) ==
  /\ job[w].at = "answering"
  /\ admitted' = [admitted EXCEPT ![job[w].pass] = @ + 1]
  /\ JobDone(w)
  /\ UNCHANGED <<rows, now, jobDeaths, turnedAway, overlapped, raced>>

\* A worker dies; what it had not committed is rolled back.
JobDies(w) ==
  /\ job[w] # NoJob /\ jobDeaths < MaxJobDeaths
  /\ jobDeaths' = jobDeaths + 1
  /\ JobDone(w)
  /\ UNCHANGED <<rows, now, history>>

Tick ==
  /\ now < MaxTime
  /\ now' = now + 1
  /\ UNCHANGED <<rows, job, jobDeaths, history>>

DoorNext ==
  \/ \E w \in Workers, p \in Passes :
       \/ IssueRead(w, p) \/ IssueFails(w, p)
       \/ \E typed \in BOOLEAN : ScanRead(w, p, typed)
  \/ \E w \in Workers : IssueCommit(w) \/ ScanCommit(w) \/ ScanAnswer(w) \/ JobDies(w)
  \/ Tick

DoorSpec == DoorInit /\ [][DoorNext]_doorVars

-----------------------------------------------------------------------------
Handler == [at : {"idle", "issuing", "marking", "answering"},
            pass : Passes \union {None}, code : Codes \union LongCodes \union {None},
            until : Nat]

\* Rows, handlers and records hold what they are for.
DoorTypeOK ==
  /\ code \in [Passes -> Codes \union LongCodes \union {None}]
  /\ expires \in [Passes -> Nat]
  /\ used \subseteq Passes /\ now \in Nat /\ jobDeaths \in Nat
  /\ job \in [Workers -> Handler]
  /\ admitted \in [Passes -> Nat]
  /\ turnedAway \subseteq Passes /\ overlapped \subseteq Passes
  /\ raced \subseteq Codes \union LongCodes

\* "Unique among this venue's live passes" (exit_pass_service.py:22): two passes
\* a guard may be shown at the same moment have one code only if it was given
\* out twice at the same time, or was one of the long ones nobody looks up.
SharedCodeNeedsRace ==
  \A p, q \in Passes :
    Live(p) /\ Live(q) /\ code[p] = code[q] /\ p # q =>
      code[p] \in raced \union LongCodes

\* "Do NOT allow the same exit pass QR to be scanned twice" (BLUEPRINT.md:1290):
\* the door says "valid" to one pass twice only if two scans of it were under
\* way together, one not yet marked when the other looked.
DoubleExitNeedsOverlap ==
  \A p \in Passes : admitted[p] > 1 => p \in overlapped

\* Whom the door has let out has a pass that is marked, so every later scan of
\* it is refused.
AdmittedIsMarked == \A p \in Passes : admitted[p] > 0 => p \in used

\* A pass is spent on nobody only if the worker that marked it died before it
\* could tell the guard.
LockedOutOnlyByDeath ==
  \A p \in used : \/ admitted[p] > 0 \/ jobDeaths > 0
                  \/ \E w \in Workers : job[w].at = "answering" /\ job[w].pass = p

\* A pass is marked exactly for whom the door has let out, deaths aside
\* (exit_pass_service.py:89-108).
MarksFit == AdmittedIsMarked /\ LockedOutOnlyByDeath

\* What the handlers hold: an issue under way has a pass of its own that does
\* not exist yet; a scan under way has a pass that exists, marked once it answers.
HandlersInv ==
  \A w \in Workers :
    LET h == job[w]
    IN  /\ h.at = "idle" => h = NoJob
        /\ h.at # "idle" => h.pass \in Passes
        /\ h.at = "issuing" => /\ code[h.pass] = None
                              /\ h.code # None
                              /\ \A v \in Workers \ {w} : job[v].pass # h.pass
        /\ h.at \in {"marking", "answering"} => code[h.pass] # None
        /\ h.at = "answering" => h.pass \in used

Scans(w, p) == job[w].at \in {"marking", "answering"} /\ job[w].pass = p

\* A pass no two scans met on is scanned by one handler at most, and by none
\* once somebody is out.
ScansInv ==
  \A p \in Passes \ overlapped :
    /\ admitted[p] <= 1
    /\ \A w \in Workers : Scans(w, p) =>
         admitted[p] = 0 /\ \A v \in Workers \ {w} : ~Scans(v, p)

\* A code about to be given out has no holder, unless it was given out twice.
CodesInv ==
  \A w \in Workers :
    job[w].at = "issuing" /\ job[w].code \notin raced \union LongCodes =>
      Holders(job[w].code) = {}

DoorInv == /\ HandlersInv /\ ScansInv /\ CodesInv
           /\ SharedCodeNeedsRace /\ AdmittedIsMarked /\ LockedOutOnlyByDeath

\* "A code from a pass that expired an hour ago can be handed out again without
\* ambiguity" (exit_pass_service.py:25-27): no guest with a valid pass is refused.
ValidPassOpens == turnedAway = {}
=============================================================================
