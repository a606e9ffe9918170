-------------------------- MODULE WaitGraphProofs ---------------------------
(***************************************************************************)
(* Where everybody waits for one of themselves, somebody is on a cycle.    *)
(***************************************************************************)
EXTENDS WaitGraph, FiniteSetTheorems, WellFoundedInduction, TLAPS

(* What s waits for is ahead of it. *)
LEMMA NextIsAhead ==
  ASSUME NEW nodes, NEW waits \in SUBSET (nodes \X nodes),
         NEW s \in nodes, NEW t \in nodes, <<s, t>> \in waits
  PROVE  t \in Ahead(waits, nodes, s)
<1> SUFFICES ASSUME NEW S \in SUBSET nodes,
                    \A pair \in waits : pair[1] = s => pair[2] \in S
             PROVE  t \in S
  BY DEF Ahead
<1>1. <<s, t>>[1] = s /\ <<s, t>>[2] = t OBVIOUS
<1> QED BY <1>1

(* What is ahead of t is ahead of those that wait for t. *)
LEMMA AheadShrinks ==
  ASSUME NEW nodes, NEW waits \in SUBSET (nodes \X nodes),
         NEW s \in nodes, NEW t \in nodes, <<s, t>> \in waits
  PROVE  Ahead(waits, nodes, t) \subseteq Ahead(waits, nodes, s)
<1> SUFFICES ASSUME NEW u \in Ahead(waits, nodes, t), NEW S \in SUBSET nodes,
                    ClosedUnder(waits, S),
                    \A pair \in waits : pair[1] = s => pair[2] \in S
             PROVE  u \in S
  BY DEF Ahead
<1>1. t \in S
  <2>1. <<s, t>>[1] = s /\ <<s, t>>[2] = t OBVIOUS
  <2> QED BY <2>1
<1>2. \A pair \in waits : pair[1] = t => pair[2] \in S
  BY <1>1 DEF ClosedUnder
<1> QED BY <1>2 DEF Ahead

(* Who is on a cycle waits for somebody. *)
LEMMA OnCycleWaits ==
  ASSUME NEW nodes, NEW waits, NEW s \in nodes, OnCycle(waits, nodes, s)
  PROVE  \E pair \in waits : pair[1] = s
<1> SUFFICES ASSUME \A pair \in waits : pair[1] # s PROVE FALSE
  OBVIOUS
<1>1. ClosedUnder(waits, {}) BY DEF ClosedUnder
<1>2. {} \in SUBSET nodes OBVIOUS
<1> QED BY <1>1, <1>2 DEF OnCycle, Ahead

(* Among finitely many that all wait for one of them PostgreSQL finds a cycle: take
   one with a least set ahead of it; the next one has the same, and is in it. *)
THEOREM SomebodyOnCycle ==
  ASSUME NEW nodes, IsFiniteSet(nodes), NEW waits \in SUBSET (nodes \X nodes),
         NEW D \in SUBSET nodes, D # {},
         \A s \in D : \E t \in D : <<s, t>> \in waits
  PROVE  \E s \in D : OnCycle(waits, nodes, s)
<1> DEFINE R == StrictSubsetOrdering(nodes)
           All == {Ahead(waits, nodes, s) : s \in D}
<1>1. \A s \in D : Ahead(waits, nodes, s) \in FiniteSubsetsOf(nodes)
  <2> TAKE s \in D
  <2>1. Ahead(waits, nodes, s) \in SUBSET nodes BY DEF Ahead
  <2> QED BY <2>1, FS_Subset DEF FiniteSubsetsOf
<1>2. All \subseteq FiniteSubsetsOf(nodes) /\ All # {} BY <1>1
<1>3. IsWellFoundedOn(R, FiniteSubsetsOf(nodes)) BY FS_StrictSubsetOrderingWellFounded
<1>4. PICK least \in All : \A other \in All : ~(<<other, least>> \in R)
  <2> HIDE DEF R, All
  <2> QED BY <1>2, <1>3, WFMin
<1>5. PICK s \in D : least = Ahead(waits, nodes, s) BY <1>4
<1>6. PICK t \in D : <<s, t>> \in waits OBVIOUS
<1>7. Ahead(waits, nodes, t) \subseteq Ahead(waits, nodes, s) BY <1>6, AheadShrinks
<1>8. ~(<<Ahead(waits, nodes, t), Ahead(waits, nodes, s)>> \in R) BY <1>4, <1>5
<1>9. Ahead(waits, nodes, t) = Ahead(waits, nodes, s)
  <2>1. Ahead(waits, nodes, t) \in SUBSET nodes /\ Ahead(waits, nodes, s) \in SUBSET nodes
    BY DEF Ahead
  <2> QED BY <1>7, <1>8, <2>1 DEF StrictSubsetOrdering
<1> QED BY <1>6, <1>9, NextIsAhead DEF OnCycle
=============================================================================
