----------------------------- MODULE MCOrmStore -----------------------------
(* Instances of OrmStore for TLC. *)
EXTENDS OrmStore, TLC

CONSTANTS a, t1, t2, f1, s1, s2

(* One chat brings the same tags in opposite orders, once with a filter; another
   wants the same link. *)
SharedRequests ==
  {[user |-> 1, url |-> a, tags |-> <<t1, t2>>, filters |-> <<>>],
   [user |-> 1, url |-> a, tags |-> <<t2, t1>>, filters |-> <<f1>>],
   [user |-> 2, url |-> a, tags |-> <<>>, filters |-> <<>>]}

SlotSymmetry == Permutations(Slots)
=============================================================================
