------------------------------- MODULE MCLink -------------------------------
(* Instances of LinkProcessing for TLC. *)
EXTENDS LinkProcessing, TLC

CONSTANTS i1, i2, w1, w2

Alike == Permutations(Items) \cup Permutations(Workers)
=============================================================================
