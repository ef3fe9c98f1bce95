----------------------------- MODULE OwnerStaff -----------------------------
(***************************************************************************)
(* The owner's staff: accounts are added, switched off and on, and given   *)
(* PINs and passwords, which are stored hashed, so that what the page has  *)
(* on screen when the answer comes is the one chance to hand them over.    *)
(* The keypad takes the first account a PIN fits; no constraint keeps PINs *)
(* apart, the handlers look first and write later.  What becomes of the    *)
(* sessions that are open is SignIn's.                                     *)
(***************************************************************************)
EXTENDS Naturals, FiniteSets

CONSTANTS
  People,       \* who works here or may
  Pins,         \* what the pad can type, 0 not among them
  MaxAsks,      \* requests altogether
  MaxPasswords, \* how often one person's password is set
  MaxLists      \* lists on their way to the page

VARIABLES
  desk,     \* the page: list, form, PIN pad, password on screen
  team,     \* the venue: an account for each who has one
  asked,    \* requests on their way, handled, or answered and not arrived
  asks,     \* how many there have been
  rosters,  \* lists on their way to the page
  handed,   \* per person: the PIN last shown as theirs, 0 once it is replaced
  given,    \* per person: the password last shown, 0 once it is replaced
  beside,   \* two requests for PINs or for one password were under way together
  fumbled   \* a key was pressed while a PIN was being saved, or the answer to
            \* "Add Member" came while a pad was open

ownerDesk == <<desk, team, asked, asks, rosters, handed, given, beside, fumbled>>

Nobody    == ""
NoForm    == [open |-> FALSE, who |-> Nobody, pin |-> 0]
NoPad     == [who |-> Nobody, pin |-> 0, saving |-> FALSE, saved |-> FALSE]
NoSlip    == [who |-> Nobody, password |-> 0]
Roster(t) == [p \in DOMAIN t |-> t[p].active]

-----------------------------------------------------------------------------
\* The page.

\* What lies over the page takes its taps.
Bare      == desk.pad = NoPad /\ desk.slip = NoSlip
Sheet     == IF desk.pad.saved THEN "hand over" ELSE IF desk.pad = NoPad THEN "none" ELSE "pad"
SlipShown == desk.slip # NoSlip
AddForm   == Bare /\ desk.form.open
CanAdd    == AddForm /\ desk.form.who # Nobody /\ desk.form.pin # 0
Rows(on)  == IF Bare THEN {p \in DOMAIN desk.list : desk.list[p] = on} ELSE {}

OffPage == UNCHANGED <<team, asked, asks, rosters, handed, given, beside>>

Reload  == rosters' = IF Cardinality(rosters) < MaxLists
                      THEN rosters \union {Roster(team)} ELSE rosters

ListArrives(l) ==
  /\ desk' = [desk EXCEPT !.list = l]
  /\ rosters' = rosters \ {l}
  /\ UNCHANGED <<team, asked, asks, handed, given, beside, fumbled>>

\* "Cancel" leaves in the form what was typed.
ShowForm(open) ==
  /\ Bare /\ desk.form.open # open
  /\ desk' = [desk EXCEPT !.form.open = open]
  /\ OffPage /\ UNCHANGED fumbled

\* A person whom the list does not show.
TypePerson(p, n) ==
  /\ AddForm /\ p \notin DOMAIN desk.list /\ <<p, n>> # <<desk.form.who, desk.form.pin>>
  /\ desk' = [desk EXCEPT !.form.who = p, !.form.pin = n]
  /\ OffPage /\ UNCHANGED fumbled

OpenPad(p) ==
  /\ p \in Rows(TRUE)
  /\ desk' = [desk EXCEPT !.pad = [NoPad EXCEPT !.who = p]]
  /\ OffPage /\ UNCHANGED fumbled

\* The keys stay on while the PIN is being saved.
PressKeys(n) ==
  /\ Sheet = "pad" /\ n # desk.pad.pin
  /\ desk' = [desk EXCEPT !.pad.pin = n]
  /\ fumbled' = (fumbled \/ desk.pad.saving)
  /\ OffPage

\* A request that was sent from the pad finds it gone.
ClosePad ==
  /\ desk.pad # NoPad
  /\ desk' = [desk EXCEPT !.pad = NoPad]
  /\ asked' = {[r EXCEPT !.here = FALSE] : r \in asked}
  /\ UNCHANGED <<team, asks, rosters, handed, given, beside, fumbled>>

CloseSlip ==
  /\ SlipShown
  /\ desk' = [desk EXCEPT !.slip = NoSlip]
  /\ OffPage /\ UNCHANGED fumbled

-----------------------------------------------------------------------------
\* What the page asks for.

Ask(kind, p, n) ==
  /\ asks < MaxAsks
  /\ asks' = asks + 1
  /\ asked' = asked \union
       {[id |-> asks, kind |-> kind, who |-> p, pin |-> n, password |-> 0,
         here |-> kind = "pin", at |-> "sent"]}
  /\ UNCHANGED <<team, rosters, handed, given, beside, fumbled>>

\* The button is not switched off by its own request.
PressAdd == CanAdd /\ Ask("add", desk.form.who, desk.form.pin) /\ UNCHANGED desk

SavePin ==
  /\ Sheet = "pad" /\ desk.pad.pin # 0 /\ ~desk.pad.saving
  /\ desk' = [desk EXCEPT !.pad.saving = TRUE]
  /\ Ask("pin", desk.pad.who, desk.pad.pin)

ResetPassword(p) == p \in Rows(TRUE) /\ Ask("password", p, 0) /\ UNCHANGED desk
Deactivate(p)    == p \in Rows(TRUE) /\ Ask("off", p, 0) /\ UNCHANGED desk
Reactivate(p)    == p \in Rows(FALSE) /\ Ask("on", p, 0) /\ UNCHANGED desk

\* The owner's other device.
SetElsewhere(p, n) == p \in DOMAIN team /\ Ask("theirs", p, n) /\ UNCHANGED desk

-----------------------------------------------------------------------------
\* The venue.

Becomes(r, q)  == asked' = (asked \ {r}) \union {q} /\ UNCHANGED asks
OfPin(r)       == r.kind \in {"add", "pin", "theirs"}
Late(kinds, r) == \E q \in asked \ {r} : q.kind \in kinds /\ q.who = r.who /\ q.at = "ok"

\* Mutant: somebody who is switched off is left out of the comparison.
TakenByActive(r) ==
  \E q \in DOMAIN team : (r.kind = "add" \/ q # r.who) /\ team[q].pin = r.pin /\ team[q].active

\* _refuse_duplicate_pin: every account of the venue, whoever it is set for
\* excepted, those that are switched off included.
Taken(r) ==
  \E q \in DOMAIN team : (r.kind = "add" \/ q # r.who) /\ team[q].pin = r.pin

CheckPin(r) ==
  /\ OfPin(r) /\ r.at = "sent"
  /\ Becomes(r, [r EXCEPT !.at = IF Taken(r) THEN "failed" ELSE "checked"])
  /\ beside' = (beside \/ \E q \in asked : q.at = "checked")
  /\ UNCHANGED <<desk, team, rosters, handed, given, fumbled>>

\* create_staff: the e-mail is one account's.
Create(r) ==
  /\ r.kind = "add" /\ r.at = "checked"
  /\ IF r.who \in DOMAIN team
     THEN Becomes(r, [r EXCEPT !.at = "failed"]) /\ UNCHANGED <<team, handed>>
     ELSE /\ Becomes(r, [r EXCEPT !.at = "ok"])
          /\ team' = [p \in DOMAIN team \union {r.who} |->
                        IF p = r.who THEN [active |-> TRUE, pin |-> r.pin, password |-> 0]
                        ELSE team[p]]
          /\ handed' = [handed EXCEPT ![r.who] = 0]
  /\ UNCHANGED <<desk, rosters, given, beside, fumbled>>

SetPin(r) ==
  /\ r.kind \in {"pin", "theirs"} /\ r.at = "checked"
  /\ Becomes(r, [r EXCEPT !.at = "ok"])
  /\ team' = [team EXCEPT ![r.who].pin = r.pin]
  /\ handed' = [handed EXCEPT ![r.who] = 0]
  /\ beside' = (beside \/ Late({"add", "pin"}, r))
  /\ UNCHANGED <<desk, rosters, given, fumbled>>

\* set_staff_password makes one up and answers with it, this once.
SetPassword(r) ==
  LET word == team[r.who].password + 1
  IN  /\ r.kind = "password" /\ r.at = "sent" /\ word <= MaxPasswords
      /\ Becomes(r, [r EXCEPT !.at = "ok", !.password = word])
      /\ team' = [team EXCEPT ![r.who].password = word]
      /\ given' = [given EXCEPT ![r.who] = 0]
      /\ beside' = (beside \/ Late({"password"}, r))
      /\ UNCHANGED <<desk, rosters, handed, fumbled>>

SwitchedTo(on, kind, r) ==
  /\ r.kind = kind /\ r.at = "sent"
  /\ Becomes(r, [r EXCEPT !.at = "ok"])
  /\ team' = [team EXCEPT ![r.who].active = on]
  /\ UNCHANGED <<desk, rosters, handed, given, beside, fumbled>>

\* The request, its handler or the answer is lost.
Fails(r) ==
  /\ r.at # "failed"
  /\ Becomes(r, [r EXCEPT !.at = "failed"])
  /\ UNCHANGED <<desk, team, rosters, handed, given, beside, fumbled>>

-----------------------------------------------------------------------------
\* Answers.

Answered(r) ==
  r.at \in {"ok", "failed"} /\ asked' = asked \ {r} /\ UNCHANGED asks
Shows(pad)  == IF pad.saved THEN [handed EXCEPT ![pad.who] = pad.pin] ELSE handed

\* The pad opens on the PIN the request had; one that is open already keeps its
\* digits and gets the new person's name.
MemberAdded(r) ==
  LET pad == IF desk.pad = NoPad
             THEN [who |-> r.who, pin |-> r.pin, saving |-> FALSE, saved |-> TRUE]
             ELSE [desk.pad EXCEPT !.who = r.who]
  IN  /\ r.kind = "add" /\ r.at = "ok" /\ Answered(r)
      /\ desk' = [desk EXCEPT !.form = NoForm, !.pad = pad]
      /\ handed' = Shows(pad)
      /\ fumbled' = (fumbled \/ desk.pad # NoPad)
      /\ Reload
      /\ UNCHANGED <<team, given, beside>>

PinSaved(r) ==
  LET pad == IF r.here THEN [desk.pad EXCEPT !.saving = FALSE, !.saved = TRUE] ELSE desk.pad
  IN  /\ r.kind = "pin" /\ r.at = "ok" /\ Answered(r)
      /\ desk' = [desk EXCEPT !.pad = pad]
      /\ handed' = IF r.here THEN Shows(pad) ELSE handed
      /\ Reload
      /\ UNCHANGED <<team, given, beside, fumbled>>

PasswordArrives(r) ==
  /\ r.kind = "password" /\ r.at = "ok" /\ Answered(r)
  /\ desk' = [desk EXCEPT !.slip = [who |-> r.who, password |-> r.password]]
  /\ given' = [given EXCEPT ![r.who] = r.password]
  /\ UNCHANGED <<team, rosters, handed, beside, fumbled>>

Switched(r) ==
  /\ r.kind \in {"off", "on"} /\ r.at = "ok" /\ Answered(r)
  /\ Reload
  /\ UNCHANGED <<desk, team, handed, given, beside, fumbled>>

\* A toast, and the pad may be tried again; the other device's answer is its own.
NothingCameOfIt(r) ==
  /\ r.kind = "theirs" \/ r.at # "ok"
  /\ Answered(r)
  /\ desk' = IF r.here THEN [desk EXCEPT !.pad.saving = FALSE] ELSE desk
  /\ UNCHANGED <<team, rosters, handed, given, beside, fumbled>>

-----------------------------------------------------------------------------
First   == CHOOSE p \in People : TRUE
Opening == CHOOSE n \in Pins : TRUE

\* One has an account, on or off, the others may get one.
StaffInit ==
  /\ \E on \in BOOLEAN :
       team = [p \in {First} |-> [active |-> on, pin |-> Opening, password |-> 0]]
  /\ desk = [list |-> Roster(team), form |-> NoForm, pad |-> NoPad, slip |-> NoSlip]
  /\ asked = {} /\ asks = 0 /\ rosters = {}
  /\ handed = [p \in People |-> 0] /\ given = [p \in People |-> 0]
  /\ beside = FALSE /\ fumbled = FALSE

Handling(r) ==
  \/ CheckPin(r) \/ Create(r) \/ SetPin(r) \/ SetPassword(r)
  \/ SwitchedTo(FALSE, "off", r) \/ SwitchedTo(TRUE, "on", r) \/ Fails(r)

Answering(r) ==
  MemberAdded(r) \/ PinSaved(r) \/ PasswordArrives(r) \/ Switched(r) \/ NothingCameOfIt(r)

StaffNext ==
  \/ ClosePad \/ CloseSlip \/ PressAdd \/ SavePin
  \/ \E l \in rosters : ListArrives(l)
  \/ \E open \in BOOLEAN : ShowForm(open)
  \/ \E p \in People, n \in Pins : TypePerson(p, n) \/ SetElsewhere(p, n)
  \/ \E n \in Pins \union {0} : PressKeys(n)
  \/ \E p \in People : OpenPad(p) \/ ResetPassword(p) \/ Deactivate(p) \/ Reactivate(p)
  \/ \E r \in asked : Handling(r) \/ Answering(r)

StaffSpec == StaffInit /\ [][StaffNext]_ownerDesk

-----------------------------------------------------------------------------
\* "This is the only time it can be shown" (owner staff page:113, 275): a PIN or
\* a password that the page has shown as somebody's opens that person's account
\* and no other, until it is replaced; unless two requests for PINs or for one
\* password met, a key was pressed while the PIN was being saved, or a member's
\* answer came into an open pad.
HandedOverWorks ==
  ~beside /\ ~fumbled =>
    \A p \in People :
      /\ handed[p] # 0 =>
           {q \in DOMAIN team : team[q].pin = handed[p]} = {p}
      /\ given[p] # 0 => team[p].password = given[p]

\* Why: the comparison and the write of a PIN are one step while requests for PINs
\* come one at a time, so that PINs stay apart and what an answer brings is what
\* the account has; and a pad that waits for an answer has what it was sent.
Account == [active : BOOLEAN, pin : Pins, password : Nat]
Request == [id : Nat, kind : {"add", "pin", "theirs", "password", "off", "on"}, who : People,
            pin : Pins \union {0}, password : Nat, here : BOOLEAN,
            at : {"sent", "checked", "ok", "failed"}]
StaffTypeOK ==
  /\ DOMAIN desk = {"list", "form", "pad", "slip"}
  /\ desk.form \in [open : BOOLEAN, who : People \union {Nobody}, pin : Pins \union {0}]
  /\ desk.pad \in [who : People \union {Nobody}, pin : Pins \union {0},
                   saving : BOOLEAN, saved : BOOLEAN]
  /\ DOMAIN team \subseteq People /\ \A p \in DOMAIN team : team[p] \in Account
  /\ asked \subseteq Request /\ asks \in Nat
  /\ handed \in [People -> Pins \union {0}] /\ given \in [People -> Nat]
  /\ beside \in BOOLEAN /\ fumbled \in BOOLEAN
  /\ \A r \in asked : /\ OfPin(r) => r.pin \in Pins
                      /\ r.at = "checked" => OfPin(r)
Known ==
  /\ DOMAIN desk.list \subseteq DOMAIN team /\ \A l \in rosters : DOMAIN l \subseteq DOMAIN team
  /\ desk.pad # NoPad => desk.pad.who \in DOMAIN team
  /\ \A r \in asked : r.kind # "add" \/ r.at = "ok" => r.who \in DOMAIN team
OnePad ==
  \A r \in asked : r.here =>
    /\ r.kind = "pin" /\ desk.pad.saving /\ \A q \in asked : q.here => q = r
    /\ ~fumbled => desk.pad.who = r.who /\ desk.pad.pin = r.pin
PinsApart ==
  /\ \A p, q \in DOMAIN team : team[p].pin = team[q].pin => p = q
  /\ \A r \in asked : r.at = "checked" => ~Taken(r) /\ \A q \in asked : q.at = "checked" => q = r
AnswersAreTrue ==
  \A r \in asked : r.at = "ok" =>
    /\ r.kind \in {"add", "pin"} => team[r.who].pin = r.pin
    /\ r.kind = "password" => team[r.who].password = r.password
ShownIsSet ==
  \A p \in People :
    /\ ~fumbled /\ handed[p] # 0 => p \in DOMAIN team /\ team[p].pin = handed[p]
    /\ given[p] # 0 => p \in DOMAIN team /\ team[p].password = given[p]
StaffInv ==
  /\ StaffTypeOK /\ Known /\ OnePad
  /\ ~beside => PinsApart /\ AnswersAreTrue /\ ShownIsSet
=============================================================================
