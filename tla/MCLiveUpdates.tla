---------------------------- MODULE MCLiveUpdates ----------------------------
(* Two workers and one attendant's screen; the constants are in the .cfg.    *)
EXTENDS LiveUpdates
=============================================================================
