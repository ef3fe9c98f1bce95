----------------------------- MODULE Clearance -----------------------------
(***************************************************************************)
(* What the money path of EasyServe promises, whatever tills, webhooks and *)
(* stations do at the same time: an order is cleared to leave once, for    *)
(* good, and together with the payment that clears it.  Money that arrives *)
(* for an order that has been cleared already (a guest who finishes an     *)
(* online checkout after paying at the till) is still entered, and clears  *)
(* nothing a second time.                                                  *)
(***************************************************************************)
CONSTANTS Orders, Payments, None

VARIABLES
  cleared,   \* orders with an exit pass
  settles    \* the order a confirmed payment was for, None before

vars == <<cleared, settles>>

Init ==
  /\ cleared = {}
  /\ settles = [p \in Payments |-> None]

\* A payment is confirmed and its order, not cleared so far, is let out.
Clear(p, o) ==
  /\ settles[p] = None
  /\ o \notin cleared
  /\ cleared' = cleared \union {o}
  /\ settles' = [settles EXCEPT ![p] = o]

\* A further payment for an order that has been let out.
EnterLate(p, o) ==
  /\ settles[p] = None
  /\ o \in cleared
  /\ settles' = [settles EXCEPT ![p] = o]
  /\ UNCHANGED cleared

Next == \E p \in Payments, o \in Orders : Clear(p, o) \/ EnterLate(p, o)

Spec == Init /\ [][Next]_vars
=============================================================================
