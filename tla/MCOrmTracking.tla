--------------------------- MODULE MCOrmTracking ----------------------------
(* The instances of MCOrmStore with the history that the refinement needs. *)
EXTENDS MCOrmStore, OrmTracking
=============================================================================
