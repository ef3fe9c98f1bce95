----------------------------- MODULE FloorCalls -----------------------------
(***************************************************************************)
(* The attendant's screen, its calls: the summons that takes the whole     *)
(* screen, of which there is one at a time, the list of calls behind it,   *)
(* which is fetched again on every event, and the calls in hand.           *)
(***************************************************************************)
EXTENDS Naturals, FiniteSets

CONSTANTS
  Calls,     \* the guests' calls of the night
  Mine,      \* those of tables that are this attendant's, or nobody's
  Stations,  \* what may ring with "ready"
  MaxLists,  \* lists on their way at a time
  MaxAcks    \* PATCHes on their way at a time

NoCall == "none"

VARIABLES
  floor,    \* the page: its React state
  lists,    \* answers on their way: what each call was when it was read
  acks,     \* PATCHes on their way: the call and what is to become of it
  alert,    \* the venue: what has become of each call
  behind,   \* the list may be behind: answers crossed, or one was lost
  let       \* calls whose summons went without an answer: another one took the
            \* screen, "Not me", or the PATCH failed

callDesk == <<floor, lists, acks, alert, behind, let>>

\* "mine" and "theirs" say who acknowledged.
Stages == {"none", "pending", "escalated", "mine", "theirs", "resolved"}
Waiting(c) == alert[c] \in {"pending", "escalated"}

-----------------------------------------------------------------------------
\* The panels.

Screen      == floor.summons
OpenAlerts  == {c \in Calls : floor.list[c] \in {"pending", "escalated"}}
\* Acknowledging means "I am going", not "this is dealt with": the calls this
\* attendant has taken stay in hand until they are closed.
InProgress  == {c \in Calls : floor.list[c] = "mine"}
AckButtons  == IF Screen = NoCall THEN OpenAlerts ELSE {}
DoneButtons == IF Screen = NoCall THEN InProgress ELSE {}
\* Both the buzz of a station and a call may wait behind the summons.
BuzzBanner  == floor.buzz
SoundPrompt == ~floor.soundOn

-----------------------------------------------------------------------------
\* The venue's events.  The socket is up (LiveUpdates looks into that): each is
\* handled as it happens, and the list is asked for again.

Snapshot  == [c \in Calls |-> alert'[c]]
Asked     == IF Cardinality(lists) < MaxLists THEN lists \union {Snapshot} ELSE lists
Reloads   == /\ lists' = Asked
             /\ behind' = (behind \/ lists # {})

\* Mutant: a call goes up only where nobody has answered it.
OnlyEscalated(c) == IF alert'[c] = "escalated" THEN c ELSE floor.summons
\* The call that rang last has the screen.
Summoned(c) == c

TakesScreen(c) ==
  /\ floor' = [floor EXCEPT !.summons = Summoned(c)]
  /\ let' = IF Screen \in {NoCall, c} THEN let ELSE let \union {Screen}

NewAlert(c) ==
  /\ alert[c] = "none"
  /\ alert' = [alert EXCEPT ![c] = "pending"]
  /\ Reloads
  /\ IF c \in Mine THEN TakesScreen(c) ELSE UNCHANGED <<floor, let>>
  /\ UNCHANGED acks

\* Nobody came: everybody's screen.
AlertEscalated(c) ==
  /\ alert[c] = "pending"
  /\ alert' = [alert EXCEPT ![c] = "escalated"]
  /\ Reloads
  /\ TakesScreen(c)
  /\ UNCHANGED acks

\* Somebody else's tap: a toast, and the summons stays where it is.
AcknowledgedElsewhere(c) ==
  /\ Waiting(c)
  /\ alert' = [alert EXCEPT ![c] = "theirs"]
  /\ Reloads
  /\ UNCHANGED <<floor, acks, let>>

StationReady(b) ==
  /\ floor.buzz # b
  /\ floor' = [floor EXCEPT !.buzz = b]
  /\ UNCHANGED <<lists, acks, alert, behind, let>>

-----------------------------------------------------------------------------
\* The attendant.

Page == UNCHANGED <<lists, alert, behind>>
CanAsk == Cardinality(acks) < MaxAcks

\* "On my way" closes the summons and sends the PATCH, which nobody waits for.
OnMyWay ==
  /\ Screen # NoCall /\ CanAsk
  /\ floor' = [floor EXCEPT !.summons = NoCall]
  /\ acks' = acks \union {[call |-> Screen, to |-> "mine", summons |-> TRUE]}
  /\ Page /\ UNCHANGED let

NotMe ==
  /\ Screen # NoCall
  /\ floor' = [floor EXCEPT !.summons = NoCall]
  /\ let' = let \union {Screen}
  /\ Page /\ UNCHANGED acks

AckAlert(c) ==
  /\ c \in AckButtons /\ CanAsk
  /\ acks' = acks \union {[call |-> c, to |-> "mine", summons |-> FALSE]}
  /\ Page /\ UNCHANGED <<floor, let>>

ResolveAlert(c) ==
  /\ c \in DoneButtons /\ CanAsk
  /\ acks' = acks \union {[call |-> c, to |-> "resolved", summons |-> FALSE]}
  /\ Page /\ UNCHANGED <<floor, let>>

\* A call that somebody has taken stays theirs, to be closed whoever has it; the
\* list is read again.
AckServed(a) ==
  /\ acks' = acks \ {a}
  /\ alert' = [alert EXCEPT ![a.call] = IF a.to = "resolved" \/ Waiting(a.call) THEN a.to ELSE @]
  /\ Reloads
  /\ UNCHANGED <<floor, let>>

\* Nobody hears of a failure: nothing is shown, nothing is read again.
AckFails(a) ==
  /\ acks' = acks \ {a}
  /\ let' = IF a.summons THEN let \union {a.call} ELSE let
  /\ Page /\ UNCHANGED floor

AlertsArrive(l) ==
  /\ lists' = lists \ {l}
  /\ floor' = [floor EXCEPT !.list = l]
  /\ behind' = (behind /\ (l # alert \/ lists # {l}))
  /\ UNCHANGED <<acks, alert, let>>

AlertsLost(l) ==
  /\ lists' = lists \ {l}
  /\ behind' = TRUE
  /\ UNCHANGED <<floor, acks, alert, let>>

\* Another list, for whatever reason.
LoadAlerts ==
  /\ lists = {}
  /\ lists' = {alert}
  /\ UNCHANGED <<floor, acks, alert, behind, let>>

DismissBuzz ==
  /\ BuzzBanner # NoCall /\ Screen = NoCall
  /\ floor' = [floor EXCEPT !.buzz = NoCall]
  /\ Page /\ UNCHANGED <<acks, let>>

\* Any tap on the page, or the button that asks for one.
UnlockSound ==
  /\ SoundPrompt
  /\ floor' = [floor EXCEPT !.soundOn = TRUE]
  /\ Page /\ UNCHANGED <<acks, let>>

CallsInit ==
  /\ floor = [summons |-> NoCall, list |-> [c \in Calls |-> "none"], buzz |-> NoCall,
              soundOn |-> FALSE]
  /\ alert = [c \in Calls |-> "none"]
  /\ lists = {} /\ acks = {} /\ behind = FALSE /\ let = {}

CallsNext ==
  \/ \E c \in Calls : \/ NewAlert(c) \/ AlertEscalated(c) \/ AcknowledgedElsewhere(c)
                      \/ AckAlert(c) \/ ResolveAlert(c)
  \/ \E a \in acks : AckServed(a) \/ AckFails(a)
  \/ \E l \in lists : AlertsArrive(l) \/ AlertsLost(l)
  \/ \E b \in Stations : StationReady(b)
  \/ OnMyWay \/ NotMe \/ LoadAlerts \/ DismissBuzz \/ UnlockSound

CallsSpec == CallsInit /\ [][CallsNext]_callDesk

-----------------------------------------------------------------------------
\* A guest does not wait unseen: a call that rang here and that nobody has
\* answered is on this screen, unless two things went wrong, its summons went
\* without an answer and the list is behind.
NobodyWaitsUnseen ==
  \A c \in Calls :
    /\ Waiting(c) /\ (c \in Mine \/ alert[c] = "escalated")
    /\ lists = {} /\ acks = {}
    => Screen = c \/ c \in OpenAlerts \/ (behind /\ c \in let)

\* Why: a summons that went without an answer is noted, or its PATCH is on its
\* way; and while no answer crossed or was lost, a list brings what is there.
CallsTypeOK ==
  /\ DOMAIN floor = {"summons", "list", "buzz", "soundOn"}
  /\ alert \in [Calls -> Stages]
  /\ \A a \in acks : a.to \in {"mine", "resolved"}
  /\ NoCall \notin Calls
RangAndHeard ==
  \A c \in Calls :
    Waiting(c) /\ (c \in Mine \/ alert[c] = "escalated")
    => Screen = c \/ c \in let \/ \E a \in acks : a.summons /\ a.call = c
ListIsFresh ==
  ~behind => IF lists = {} THEN floor.list = alert ELSE lists = {alert}
CallsInv == CallsTypeOK /\ RangAndHeard /\ ListIsFresh
=============================================================================
