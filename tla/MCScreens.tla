----------------------------- MODULE MCScreens ------------------------------
(***************************************************************************)
(* A small instance of Screens for TLC: one table, a category per dish,    *)
(* one attendant and one bartender, and promos that wrap around midnight,  *)
(* around the rollover and around the clock.                               *)
(***************************************************************************)
EXTENDS Screens

MCHomeOf     == [p \in People |-> IF p = "ada" THEN "/staff" ELSE "/bar"]
MCTableOf    == [o \in Orders |-> "t1"]
MCCategoryOf == [d \in Dishes |-> d]
MCWindows    == {<<4, 0>>, <<0, 1>>, <<3, 1>>, <<3, 3>>}
MCDayLists   == {{}, {0}}
=============================================================================
