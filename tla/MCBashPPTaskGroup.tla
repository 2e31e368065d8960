-------------------------- MODULE MCBashPPTaskGroup --------------------------
(* Small instances of BashPPTaskGroup; the constants are given in the cfgs.    *)
EXTENDS BashPPTaskGroup
=============================================================================
