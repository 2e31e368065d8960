--------------------------- MODULE MCShellrtSession ---------------------------
(* Small instances of ShellrtSession; the bound is given in the cfgs.          *)
EXTENDS ShellrtSession
===============================================================================
