------------------------- MODULE MCResidentWaitGroup -------------------------
(* Small instances of ResidentWaitGroup; the constants are given in the cfgs.  *)
EXTENDS ResidentWaitGroup
==============================================================================
