--------------------------- MODULE MCOrderIntake ---------------------------
(***************************************************************************)
(* Small instances of OrderIntake for TLC.  A behaviour is about one of    *)
(* two places: two tabs of a member of staff who keys in rounds, each an   *)
(* order of its own, or the one page of a guest whose rounds share an      *)
(* order, with a station that taps a line of it (one worker handles those; *)
(* where they overlap is MCHandlers' business).                            *)
(***************************************************************************)
EXTENDS OrderIntake, TLC

CONSTANTS r1, r2, g1, g2, p1, t1, w1, s1, l1

VARIABLE place

all == <<place, vars>>

OfWhom  == [r \in Rounds |-> IF r \in {g1, g2} THEN s1 ELSE None]
OneLine == [r \in Taps |-> l1]

\* What is sent at a place, from which tabs, with what luck.
Sent(r)   == (r \in {g1, g2, p1}) = (place = "guest")
InUse(t)  == place = "staff" \/ t = t1

\* One lost answer or late request, and one handler that dies; or a request that is
\* turned away, where nothing else goes wrong.
Mishaps   == limited = 0 \/ losses + deaths = 0

InPlace   == /\ \A r \in outbox : Sent(r)
             /\ Mishaps
             /\ \A c \in Clients : ~Free(c) => Sent(call[c]) /\ InUse(c[1])
             /\ place = "guest" => deaths = 0 /\ \A w \in Workers \ {w1} : task[w] = NoTask

PlaceInit == place \in {"staff", "guest"} /\ Init
PlaceNext == UNCHANGED place /\ Next /\ InPlace'

PlaceSpec == PlaceInit /\ [][PlaceNext]_all

\* The fairness of OrderIntake, for the tabs that are in use.
PlaceFairness ==
  /\ \A t \in Tabs :
       /\ WF_all(InUse(t) /\ FlushStart(t) /\ UNCHANGED place)
       /\ WF_all(InUse(t) /\ FlushNext(t) /\ UNCHANGED place)
       /\ WF_all(SubmitAnswered(t) /\ UNCHANGED place)
       /\ WF_all(FlushAnswered(t) /\ UNCHANGED place)
  /\ \A w \in Workers : WF_all(Handle(w) /\ UNCHANGED place)
  /\ \A r \in Requests : SF_all(Delivered(r) /\ UNCHANGED place)

PlaceFair == PlaceSpec /\ PlaceFairness
=============================================================================
