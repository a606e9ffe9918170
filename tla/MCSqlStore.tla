----------------------------- MODULE MCSqlStore -----------------------------
(* Instances of SqlStore for TLC. *)
EXTENDS SqlStore

CONSTANTS u1, u2, a, b, t1, t2, s1, s2

(* Two chats that want the same link. *)
SharedRequests ==
  {[user |-> u1, url |-> a, tags |-> <<t1>>], [user |-> u2, url |-> a, tags |-> <<>>]}

(* Two links whose requests bring the same new tags in opposite orders. *)
CrossedRequests ==
  {[user |-> u1, url |-> a, tags |-> <<t1, t2>>], [user |-> u1, url |-> b, tags |-> <<t2, t1>>]}
=============================================================================
