------------------------------ MODULE Handlers -------------------------------
(***************************************************************************)
(* What the door, the stock and the order intake have in common: a request *)
(* is handled by one of the workers of the server, and each of the three   *)
(* lets other workers' steps come between the steps of a handler.          *)
(***************************************************************************)
CONSTANTS
  Workers,  \* each has one request at a time
  None      \* what is in a column or a field that is NULL
=============================================================================
