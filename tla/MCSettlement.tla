---------------------------- MODULE MCSettlement ----------------------------
(***************************************************************************)
(* Small instances of Settlement for TLC: kobo amounts with round charges, *)
(* equal prices, and a tendered amount that covers one line and not two.   *)
(***************************************************************************)
EXTENDS Settlement, TLC

LinePrice == 1000

MCSubtotal == [S \in SUBSET Items |-> LinePrice * Cardinality(S)]

MCTendered == {1500}

\* ItemStatusUpdate lets a station ask for anything, over anything; of those, a
\* status that counts as served and the one that counts as void.
AnyTarget == [s \in ItemStatus |-> {"delivered", "cancelled"}]

\* Only what moves a line on, for the trace of a stale serve.
ServeOrVoid ==
  [s \in ItemStatus |-> IF s = "pending" THEN {"delivered", "cancelled"} ELSE {}]

\* A behaviour with two workers has an order on which handlers met, whose money is
\* off anyway, or a voided line that came back: not the one after the other.
OneTrouble == overtaken = {} \/ revived = {}

Symmetry == Permutations(Payments) \union Permutations(Workers) \union Permutations(Items)
=============================================================================
