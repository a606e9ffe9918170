--------------------------- MODULE MCSqlTracking ----------------------------
(* The instances of MCSqlStore with the history that the refinement needs. *)
EXTENDS MCSqlStore, SqlTracking
=============================================================================
