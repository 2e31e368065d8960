---------------------------- MODULE MCBashPPFIFO ----------------------------
(* Small instances of BashPPFIFO; the constants are given in the cfg.          *)
EXTENDS BashPPFIFO
==============================================================================
