---------------------------- MODULE CoversPicker ----------------------------
(***************************************************************************)
(* How many people are on a bill: a chip that moves before the server has  *)
(* heard of it and moves back when the server has not, on a card whose     *)
(* order is reloaded at any time.                                          *)
(***************************************************************************)
EXTENDS Naturals, FiniteSets

CONSTANTS
  Chips,    \* the numbers offered with one tap
  Typed,    \* the numbers somebody types, in the range the box takes or not
  MaxReads  \* lists on their way at a time

Unset  == 0
Counts == Chips \union Typed \union {Unset}
NoSave == [next |-> Unset, previous |-> Unset, at |-> "none"]

VARIABLES
  covers,  \* what the order's card shows
  typing,  \* the box is open
  save,    \* the PATCH under way, and whether the server has carried it out
  headcount, \* orders.covers
  reads,   \* lists on their way: the headcount each brings
  raced    \* a list was on its way beside a PATCH, or an answer was lost

picker == <<covers, typing, save, headcount, reads, raced>>

InRange(n)  == n \in 1 .. 200
Busy        == save # NoSave
ChipButtons == IF Busy THEN {} ELSE Chips
\* The last chip reads "7+", or the number that was typed.
MoreButton  == IF typing THEN "box" ELSE IF covers > 6 THEN "number" ELSE "7+"

\* set: shown at once, sent, and whatever was shown before is kept for a failure.
Set(n) ==
  /\ ~Busy
  /\ save' = [next |-> n, previous |-> covers, at |-> "sent"]
  /\ covers' = n
  /\ raced' = (raced \/ reads # {})
  /\ UNCHANGED <<headcount, reads>>

\* The number that is set already is taken back.
TapChip(n) ==
  /\ n \in ChipButtons
  /\ Set(IF covers = n THEN Unset ELSE n)
  /\ UNCHANGED typing

OpenBox ==
  /\ ~typing /\ ~Busy
  /\ typing' = TRUE
  /\ UNCHANGED <<covers, save, headcount, reads, raced>>

\* Leaving the box: nothing typed clears the number, a number in range is set,
\* any other closes the box.  A save under way swallows it.
LeaveBox(n) ==
  /\ typing
  /\ IF Busy THEN UNCHANGED picker
     ELSE IF n = Unset \/ InRange(n) THEN Set(n) /\ UNCHANGED typing
     ELSE typing' = FALSE /\ UNCHANGED <<covers, save, headcount, reads, raced>>

\* set_covers.
Saved ==
  /\ save.at = "sent"
  /\ headcount' = save.next
  /\ save' = [save EXCEPT !.at = "saved"]
  /\ UNCHANGED <<covers, typing, reads, raced>>

SaveAnswered ==
  /\ save.at = "saved"
  /\ save' = NoSave /\ typing' = FALSE
  /\ UNCHANGED <<covers, headcount, reads, raced>>

\* Mutant: the chip stays where it was moved to.
StaysMoved == covers
RolledBack == save.previous

\* Refused, or the answer is lost after the server has done as asked.
SaveFails ==
  /\ Busy
  /\ covers' = RolledBack
  /\ raced' = (raced \/ save.at = "saved")
  /\ save' = NoSave /\ typing' = FALSE
  /\ UNCHANGED <<headcount, reads>>

\* The screen's list is read again.
LoadOrders ==
  /\ Cardinality(reads) < MaxReads
  /\ reads' = reads \union {headcount}
  /\ raced' = (raced \/ Busy \/ reads # {})
  /\ UNCHANGED <<covers, typing, save, headcount>>

\* A list that had the field to itself sets things right.
OrdersArrive(r) ==
  /\ covers' = r
  /\ reads' = reads \ {r}
  /\ raced' = (raced /\ (Busy \/ r # headcount \/ reads # {r}))
  /\ UNCHANGED <<typing, save, headcount>>

PickerInit ==
  /\ covers = Unset /\ headcount = Unset /\ typing = FALSE
  /\ save = NoSave /\ reads = {} /\ raced = FALSE

PickerNext ==
  \/ \E n \in Chips : TapChip(n)
  \/ \E n \in Typed \union {Unset} : LeaveBox(n)
  \/ OpenBox \/ Saved \/ SaveAnswered \/ SaveFails \/ LoadOrders
  \/ \E r \in reads : OrdersArrive(r)

PickerSpec == PickerInit /\ [][PickerNext]_picker

-----------------------------------------------------------------------------
\* "Spend per head is the number a venue runs on" (CoversPicker.tsx:6): with
\* nothing under way the card shows what the server has, unless a list crossed a
\* PATCH or an answer was lost; and a headcount is never one that the box refuses.
ShownIsSaved ==
  /\ save = NoSave /\ reads = {} /\ ~raced => covers = headcount
  /\ headcount # Unset => InRange(headcount)

\* Why: while nothing has crossed, the card is ahead of the server by the save
\* under way and by nothing else, and a list on its way brings what is there.
PickerTypeOK ==
  /\ covers \in Nat /\ headcount \in Nat /\ reads \subseteq Nat /\ raced \in BOOLEAN
  /\ save \in [next : Nat, previous : Nat, at : {"none", "sent", "saved"}]
  /\ Busy => save.at # "none"
InStep ==
  ~raced => IF Busy THEN /\ reads = {} /\ covers = save.next
                         /\ IF save.at = "sent" THEN save.previous = headcount
                            ELSE save.next = headcount
            ELSE covers = headcount /\ reads \subseteq {headcount}
NumbersFit ==
  /\ headcount # Unset => InRange(headcount)
  /\ save.next # Unset => InRange(save.next)
PickerInv == PickerTypeOK /\ InStep /\ NumbersFit
=============================================================================
