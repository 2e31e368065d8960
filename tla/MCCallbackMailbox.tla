-------------------------- MODULE MCCallbackMailbox --------------------------
(* Small instances of CallbackMailbox; the constants are given in the cfg.     *)
EXTENDS CallbackMailbox
==============================================================================
