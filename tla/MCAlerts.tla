------------------------------ MODULE MCAlerts ------------------------------
(* Two workers, two attendants and one call; the constants are in the .cfg.  *)
EXTENDS Alerts
=============================================================================
