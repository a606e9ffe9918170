----------------------------- MODULE WaitGraph ------------------------------
(***************************************************************************)
(* Who waits for whom in the database: waits is a set of pairs <<s, t>>,   *)
(* where s waits for a lock of t.  PostgreSQL looks for cycles in it and   *)
(* fails a transaction that is on one (deadlock_timeout).                  *)
(***************************************************************************)

ClosedUnder(waits, S) == \A pair \in waits : pair[1] \in S => pair[2] \in S

(* Those that s waits for, those that they wait for, and so on. *)
Ahead(waits, nodes, s) ==
  {t \in nodes :
     \A S \in SUBSET nodes :
       ClosedUnder(waits, S) /\ (\A pair \in waits : pair[1] = s => pair[2] \in S) => t \in S}

OnCycle(waits, nodes, s) == s \in Ahead(waits, nodes, s)
=============================================================================
