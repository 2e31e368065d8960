---------------------------- MODULE MCSignalTraps ----------------------------
(* A small instance of SignalTraps; the constants are given in the cfg.        *)
EXTENDS SignalTraps
==============================================================================
