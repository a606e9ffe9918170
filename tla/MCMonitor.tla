----------------------------- MODULE MCMonitor ------------------------------
(* Instances of Monitor for TLC.  Passes share nothing but the table, which the
   environment changes at will anyway, so one pass shows what any of them does. *)
EXTENDS Monitor

CONSTANT p1
=============================================================================
