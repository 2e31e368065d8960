---------------------------- MODULE MCResidentLock ----------------------------
(* A small instance of ResidentLock; the constants are given in the cfg.       *)
EXTENDS ResidentLock
==============================================================================
