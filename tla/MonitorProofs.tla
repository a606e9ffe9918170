--------------------------- MODULE MonitorProofs ----------------------------
(***************************************************************************)
(* Monitor's safety properties for every Batch, Workers, MaxID and every   *)
(* set of passes.  The inductive invariant adds to them what each page     *)
(* leaves behind: chunks that are disjoint, not yet visited and below the  *)
(* cursor (VisitInv), and that hold every row the pass still owes a visit  *)
(* (OwedInv).  The same invariant shows that Monitor implements Paging.    *)
(***************************************************************************)
EXTENDS Monitor, FiniteSetTheorems, WellFoundedInduction, TLAPS

-----------------------------------------------------------------------------
(* What a page and its chunks are, for every table, batch size and number of
   workers. *)

(* Rounding a quotient up, as splitIntoChunks computes its chunk size. *)
LEMMA CeilDivBounds ==
  ASSUME NEW a \in Nat, NEW b \in Nat \ {0}
  PROVE  /\ CeilDiv(a, b) \in Nat
         /\ a <= CeilDiv(a, b) * b
         /\ (CeilDiv(a, b) - 1) * b < a
<1> DEFINE n == a + b - 1
           q == n \div b
<1>1. q \in Int /\ n % b \in 0..(b - 1) /\ n = b * q + (n % b)
  BY SMT
<1>2. q >= 0
  BY <1>1, SMT
<1>3. b * q = q * b /\ (q - 1) * b = q * b - b
  BY <1>1, SMT
<1>4. a <= q * b /\ (q - 1) * b < a
  <2> DEFINE m == q * b
             r == n % b
  <2>1. m \in Int /\ r \in 0..(b - 1) /\ a + b - 1 = m + r
    BY <1>1, <1>3, SMT
  <2> HIDE DEF m, r
  <2>2. a <= m /\ m - b < a
    BY <2>1, SMT
  <2> QED BY <2>2, <1>3 DEF m
<1> QED BY <1>1, <1>2, <1>4 DEF CeilDiv

(* A page of len links is cut into at least one and at most numChunks chunks
   that together have room for all of them (splitIntoChunks). *)
LEMMA SplitCount ==
  ASSUME NEW len \in Nat \ {0}, NEW numChunks \in Nat \ {0}
  PROVE  /\ ChunkSize(len, numChunks) \in Nat \ {0}
         /\ ChunkCount(len, numChunks) \in 1..numChunks
         /\ len <= ChunkCount(len, numChunks) * ChunkSize(len, numChunks)
<1> DEFINE size  == ChunkSize(len, numChunks)
           count == ChunkCount(len, numChunks)
<1>1. size \in Nat /\ len <= size * numChunks
  BY CeilDivBounds DEF ChunkSize
<1>2. size # 0
  <2> SUFFICES ASSUME size = 0 PROVE FALSE OBVIOUS
  <2>1. 0 * numChunks = 0 BY SMT
  <2> QED BY <1>1, <2>1
<1> HIDE DEF size
<1>3. count \in Nat /\ len <= count * size /\ (count - 1) * size < len
  BY <1>1, <1>2, CeilDivBounds DEF ChunkCount, size
<1> HIDE DEF count
<1>4. count # 0
  <2> SUFFICES ASSUME count = 0 PROVE FALSE OBVIOUS
  <2>1. 0 * size = 0 BY <1>1, SMT
  <2> QED BY <1>3, <2>1
<1>5. count <= numChunks
  <2> SUFFICES ASSUME count - 1 >= numChunks PROVE FALSE
    BY <1>3
  <2>1. (count - 1) * size >= numChunks * size
    BY <1>1, <1>3, SMT
  <2>2. numChunks * size = size * numChunks
    BY <1>1, SMT
  <2>3. (count - 1) * size \in Int /\ numChunks * size \in Int
    BY <1>1, <1>3, SMT
  <2> QED BY <1>1, <1>3, <2>1, <2>2, <2>3, SMT
<1> QED BY <1>1, <1>2, <1>3, <1>4, <1>5 DEF size, count

(* The rank of an id is a place in its page and orders the page. *)
LEMMA RankBounds ==
  ASSUME NEW ids \in SUBSET Int, IsFiniteSet(ids), NEW id \in ids
  PROVE  /\ Rank(ids, id) \in 1..Cardinality(ids)
         /\ \A x \in ids : x <= id => Rank(ids, x) <= Rank(ids, id)
<1> DEFINE upTo(y) == {x \in ids : x <= y}
<1>1. \A y : IsFiniteSet(upTo(y)) /\ Cardinality(upTo(y)) \in Nat
        /\ Cardinality(upTo(y)) <= Cardinality(ids)
  BY FS_Subset, FS_CardinalityType
<1>2. Cardinality(upTo(id)) # 0
  <2>1. id \in upTo(id) OBVIOUS
  <2> QED BY <1>1, <2>1, FS_EmptySet
<1>3. ASSUME NEW x \in ids, x <= id
      PROVE  Cardinality(upTo(x)) <= Cardinality(upTo(id))
  <2>1. \A y \in ids : y <= x => y <= id BY <1>3, SMT
  <2>2. upTo(x) \in SUBSET upTo(id) BY <2>1
  <2> QED BY <1>1, <2>2, FS_Subset
<1>4. Cardinality(ids) \in Nat BY FS_CardinalityType
<1> QED BY <1>1, <1>2, <1>3, <1>4 DEF Rank

(* The chunks of a page are parts of it, no link is in two of them, and every
   link is in one (splitIntoChunks slices the page without overlap or gap). *)
LEMMA SplitPartitions ==
  ASSUME NEW ids \in SUBSET Int, IsFiniteSet(ids), ids # {},
         NEW numChunks \in Nat \ {0}
  PROVE  LET count  == ChunkCount(Cardinality(ids), numChunks)
             parts == splitIntoChunks(ids, numChunks)
         IN  /\ DOMAIN parts = 1..count
             /\ \A k \in 1..count : parts[k] \subseteq ids
             /\ \A j, k \in 1..count : j # k => parts[j] \cap parts[k] = {}
             /\ \A id \in ids : \E k \in 1..count : id \in parts[k]
<1> DEFINE len   == Cardinality(ids)
           size  == ChunkSize(len, numChunks)
           count == ChunkCount(len, numChunks)
           part(k) == {id \in ids : (k - 1) * size < Rank(ids, id)
                                    /\ Rank(ids, id) <= k * size}
<1>1. len \in Nat \ {0}
  BY FS_CardinalityType, FS_EmptySet
<1> HIDE DEF len
<1>2. size \in Nat \ {0} /\ count \in 1..numChunks /\ len <= count * size
  BY <1>1, SplitCount
<1>3. \A id \in ids : Rank(ids, id) \in 1..len
  BY RankBounds DEF len
<1>4. splitIntoChunks(ids, numChunks) = [k \in 1..count |-> part(k)]
  BY DEF splitIntoChunks, len
<1> HIDE DEF size, count
<1>5. ASSUME NEW j \in 1..count, NEW k \in 1..count, j < k
      PROVE  part(j) \cap part(k) = {}
  <2> SUFFICES ASSUME NEW id \in ids,
                      Rank(ids, id) <= j * size, (k - 1) * size < Rank(ids, id)
               PROVE  FALSE
    OBVIOUS
  <2>1. j * size <= (k - 1) * size
    BY <1>2, <1>5, SMT
  <2>2. j * size \in Int /\ (k - 1) * size \in Int /\ Rank(ids, id) \in Int
    BY <1>2, <1>3, SMT
  <2> QED BY <2>1, <2>2, SMT
<1>6. ASSUME NEW j \in 1..count, NEW k \in 1..count, j # k
      PROVE  part(j) \cap part(k) = {}
  <2>1. CASE j < k BY <1>5, <2>1
  <2>2. CASE k < j BY <1>5, <2>2
  <2> QED BY <1>2, <1>6, <2>1, <2>2
<1>7. ASSUME NEW id \in ids PROVE \E k \in 1..count : id \in part(k)
  <2> DEFINE r == Rank(ids, id)
             q == CeilDiv(r, size)
  <2>1. r \in 1..len BY <1>3
  <2> HIDE DEF r
  <2>2. q \in Nat /\ r <= q * size /\ (q - 1) * size < r
    BY <1>2, <2>1, CeilDivBounds
  <2> HIDE DEF q
  <2>3. q # 0
    <3>1. 0 * size = 0 BY <1>2, SMT
    <3> QED BY <1>1, <2>1, <2>2, <3>1
  <2>4. q <= count
    <3> SUFFICES ASSUME q - 1 >= count PROVE FALSE
      BY <1>2, <2>2
    <3>1. (q - 1) * size >= count * size
      BY <1>2, <2>2, SMT
    <3>2. (q - 1) * size \in Int /\ count * size \in Int
      BY <1>2, <2>2, SMT
    <3> QED BY <1>1, <1>2, <2>1, <2>2, <3>1, <3>2, SMT
  <2>5. id \in part(q) BY <2>2 DEF r
  <2> QED BY <1>2, <2>2, <2>3, <2>4, <2>5
<1> QED BY <1>4, <1>6, <1>7 DEF len, count

(* A page lies above the cursor, and it holds every row between the cursor and
   its own last id (GetBatchOfLinks). *)
LEMMA PageIsAPrefix ==
  ASSUME NEW rows \in SUBSET Nat, IsFiniteSet(rows),
         NEW after \in Nat, NEW limit \in Int,
         NEW id \in rows, after < id,
         NEW last \in GetBatchOfLinks(rows, after, limit), id <= last
  PROVE  id \in GetBatchOfLinks(rows, after, limit)
<1> DEFINE above == {x \in rows : x > after}
<1>1. IsFiniteSet(above) /\ above \in SUBSET Int
  <2>1. above \in SUBSET rows OBVIOUS
  <2>2. above \in SUBSET Int
    <3>1. \A x \in rows : x \in Int OBVIOUS
    <3> QED BY <3>1, Zenon
  <2> HIDE DEF above
  <2> QED BY <2>1, <2>2, FS_Subset
<1>2. last \in above /\ Rank(above, last) <= limit
  BY DEF GetBatchOfLinks
<1>3. id \in above OBVIOUS
<1> HIDE DEF above
<1>4. Rank(above, id) <= Rank(above, last)
  BY <1>1, <1>2, <1>3, RankBounds
<1>5. Rank(above, id) \in Int /\ Rank(above, last) \in Int
  BY <1>1, <1>2, <1>3, RankBounds, FS_CardinalityType
<1>6. Rank(above, id) <= limit
  BY <1>2, <1>4, <1>5
<1> QED BY <1>3, <1>6 DEF GetBatchOfLinks, above

(* With a positive limit only the end of the table yields an empty page. *)
LEMMA EmptyPageIsTheEnd ==
  ASSUME NEW rows \in SUBSET Nat, IsFiniteSet(rows),
         NEW after \in Nat, NEW limit \in Nat \ {0},
         GetBatchOfLinks(rows, after, limit) = {}
  PROVE  \A id \in rows : id <= after
<1> DEFINE above == {x \in rows : x > after}
<1>1. SUFFICES ASSUME above # {} PROVE FALSE
  OBVIOUS
<1>2. PICK m \in above : \A x \in above : m <= x
  <2>1. PICK m \in above : \A x \in above : ~(<<x, m>> \in OpToRel(<, Nat))
    BY <1>1, NatLessThanWellFounded, WFMin
  <2>2. \A x \in above : ~(x < m)
    BY <2>1 DEF OpToRel
  <2> QED BY <2>2
<1>3. {x \in above : x <= m} = {m}
  <2>1. \A x \in above : x \in Int /\ m <= x
    BY <1>2
  <2>2. \A x \in above : x <= m <=> x = m
    BY <2>1, SMT
  <2> QED BY <2>2
<1>4. Rank(above, m) = 1
  BY <1>3, FS_Singleton DEF Rank
<1> QED BY <1>2, <1>4 DEF GetBatchOfLinks

-----------------------------------------------------------------------------

(* An id is handed out once, and becomes visible only after the rows a pass
   began with. *)
TableInv ==
  /\ links \cup inserting \subseteq 1..(nextID - 1)
  /\ links \cap inserting = {}
  /\ \A p \in Passes : /\ startRows[p] \subseteq 1..(nextID - 1)
                       /\ startRows[p] \cap inserting = {}

(* A page is cut into at most Workers chunks, one worker each, and a worker
   leaves only when its chunk is used up. *)
SplitInv ==
  \A p \in Passes :
    /\ Len(chunks[p]) = Len(worker[p])
    /\ pc[p] \in {"fetch", "run"} => Workers > 0
    /\ pc[p] = "run" => Len(worker[p]) <= Workers
    /\ \A k \in DOMAIN worker[p] : worker[p][k] = "done" => chunks[p][k] = {}

(* What has been visited, and what lies in a chunk, is below the cursor; the
   latter has not been visited and lies in one chunk only. *)
VisitInv ==
  \A p \in Passes :
    /\ \A id \in IDs : visits[p][id] <= 1 /\ (visits[p][id] > 0 => id <= lastID[p])
    /\ \A k \in DOMAIN chunks[p] : \A id \in chunks[p][k] :
         visits[p][id] = 0 /\ id <= lastID[p]
    /\ \A j, k \in DOMAIN chunks[p] : j # k => chunks[p][j] \cap chunks[p][k] = {}

(* A row of the beginning that the cursor has passed was visited or lies in a
   chunk; a pass that came to its end has passed all of them. *)
OwedInv ==
  \A p \in Passes :
    /\ pc[p] = "idle" => lastID[p] = 0
    /\ \A id \in startRows[p] \cap links : id <= lastID[p] =>
         visits[p][id] > 0 \/ \E k \in DOMAIN chunks[p] : id \in chunks[p][k]
    /\ Batch > 0 /\ Workers > 0 /\ pc[p] = "done" =>
         \A id \in startRows[p] \cap links : id <= lastID[p]

IInv ==
  /\ TypeOK
  /\ TableInv
  /\ SplitInv
  /\ WaitGroupExact
  /\ BarrierHolds
  /\ VisitInv
  /\ OwedInv

-----------------------------------------------------------------------------
(* Replacing an element of a sequence keeps its domain and its type. *)
LEMMA ExceptInSeq ==
  ASSUME NEW S, NEW s \in Seq(S), NEW k \in DOMAIN s, NEW x \in S
  PROVE  /\ [s EXCEPT ![k] = x] \in Seq(S)
         /\ Len([s EXCEPT ![k] = x]) = Len(s)
         /\ DOMAIN [s EXCEPT ![k] = x] = DOMAIN s
  OBVIOUS

(* The workers that are done are a finite set, at most as many as there are. *)
LEMMA DoneIsFinite ==
  ASSUME TypeOK, NEW p \in Passes
  PROVE  /\ IsFiniteSet(Done(p))
         /\ Cardinality(Done(p)) \in Nat
         /\ Cardinality(Done(p)) <= Len(worker[p])
<1>1. worker[p] \in Seq({"loop", "busy", "done"})
  BY DEF TypeOK
<1>2. Done(p) \in SUBSET (1..Len(worker[p])) /\ Len(worker[p]) \in Nat
  BY <1>1 DEF Done
<1>3. IsFiniteSet(1..Len(worker[p])) /\ Cardinality(1..Len(worker[p])) = Len(worker[p])
  BY <1>2, FS_Interval
<1> QED BY <1>2, <1>3, FS_Subset, FS_CardinalityType

(* A worker is alive only while its pass waits. *)
LEMMA WorkersRunInRun ==
  ASSUME IInv, NEW p \in Passes, NEW k \in DOMAIN worker[p], worker[p][k] # "done"
  PROVE  pc[p] = "run"
  BY DEF IInv, BarrierHolds, Done

LEMMA InitIInv == Init => IInv
<1> SUFFICES ASSUME Init PROVE IInv OBVIOUS
<1> USE MonitorAssumption DEF Init, IDs
<1>1. TypeOK BY DEF TypeOK
<1>2. TableInv BY DEF TableInv
<1>3. SplitInv BY DEF SplitInv
<1>4. WaitGroupExact BY DEF WaitGroupExact
<1>5. BarrierHolds BY DEF BarrierHolds, Done
<1>6. VisitInv BY DEF VisitInv
<1>7. OwedInv BY DEF OwedInv
<1> QED BY <1>1, <1>2, <1>3, <1>4, <1>5, <1>6, <1>7 DEF IInv

LEMMA InsertRowIInv == IInv /\ InsertRow => IInv'
<1> SUFFICES ASSUME IInv, InsertRow PROVE IInv' OBVIOUS
<1> USE MonitorAssumption DEF InsertRow, pass, IDs
<1>1. TypeOK' BY DEF IInv, TypeOK
<1>2. TableInv' BY DEF IInv, TypeOK, TableInv
<1>3. SplitInv' BY DEF IInv, SplitInv
<1>4. WaitGroupExact' BY DEF IInv, WaitGroupExact, Done
<1>5. BarrierHolds' BY DEF IInv, BarrierHolds, Done
<1>6. VisitInv' BY DEF IInv, VisitInv
<1>7. OwedInv' BY DEF IInv, OwedInv
<1> QED BY <1>1, <1>2, <1>3, <1>4, <1>5, <1>6, <1>7 DEF IInv

LEMMA CommitRowIInv == ASSUME IInv, NEW id \in IDs, CommitRow(id) PROVE IInv'
<1> USE MonitorAssumption DEF CommitRow, pass, IDs
<1>1. TypeOK' BY DEF IInv, TypeOK
<1>2. TableInv' BY DEF IInv, TypeOK, TableInv
<1>3. SplitInv' BY DEF IInv, SplitInv
<1>4. WaitGroupExact' BY DEF IInv, WaitGroupExact, Done
<1>5. BarrierHolds' BY DEF IInv, BarrierHolds, Done
<1>6. VisitInv' BY DEF IInv, VisitInv
<1>7. OwedInv'
  <2>1. \A p \in Passes : startRows[p]' \cap links' = startRows[p] \cap links
    BY DEF IInv, TableInv
  <2> QED BY <2>1 DEF IInv, OwedInv
<1> QED BY <1>1, <1>2, <1>3, <1>4, <1>5, <1>6, <1>7 DEF IInv

LEMMA AbortRowIInv == ASSUME IInv, NEW id \in IDs, AbortRow(id) PROVE IInv'
<1> USE MonitorAssumption DEF AbortRow, pass, IDs
<1>1. TypeOK' BY DEF IInv, TypeOK
<1>2. TableInv' BY DEF IInv, TypeOK, TableInv
<1>3. SplitInv' BY DEF IInv, SplitInv
<1>4. WaitGroupExact' BY DEF IInv, WaitGroupExact, Done
<1>5. BarrierHolds' BY DEF IInv, BarrierHolds, Done
<1>6. VisitInv' BY DEF IInv, VisitInv
<1>7. OwedInv' BY DEF IInv, OwedInv
<1> QED BY <1>1, <1>2, <1>3, <1>4, <1>5, <1>6, <1>7 DEF IInv

LEMMA RemoveRowIInv == ASSUME IInv, NEW id \in IDs, RemoveRow(id) PROVE IInv'
<1> USE MonitorAssumption DEF RemoveRow, pass, IDs
<1>1. TypeOK' BY DEF IInv, TypeOK
<1>2. TableInv' BY DEF IInv, TypeOK, TableInv
<1>3. SplitInv' BY DEF IInv, SplitInv
<1>4. WaitGroupExact' BY DEF IInv, WaitGroupExact, Done
<1>5. BarrierHolds' BY DEF IInv, BarrierHolds, Done
<1>6. VisitInv' BY DEF IInv, VisitInv
<1>7. OwedInv' BY DEF IInv, OwedInv
<1> QED BY <1>1, <1>2, <1>3, <1>4, <1>5, <1>6, <1>7 DEF IInv

LEMMA TickIInv == ASSUME IInv, NEW p \in Passes, Tick(p) PROVE IInv'
<1> USE MonitorAssumption DEF Tick, table, IDs
<1>1. TypeOK' BY DEF IInv, TypeOK
<1>2. TableInv' BY DEF IInv, TypeOK, TableInv
<1>3. SplitInv' BY DEF IInv, TypeOK, SplitInv
<1>4. WaitGroupExact' BY DEF IInv, TypeOK, WaitGroupExact, Done
<1>5. BarrierHolds' BY DEF IInv, TypeOK, BarrierHolds, Done
<1>6. VisitInv' BY DEF IInv, VisitInv
<1>7. OwedInv' BY SMTT(30) DEF IInv, TypeOK, OwedInv
<1> QED BY <1>1, <1>2, <1>3, <1>4, <1>5, <1>6, <1>7 DEF IInv

(* The rows a pass can see, and the page it reads of them. *)
LEMMA PageTypes ==
  ASSUME TypeOK, NEW p \in Passes, NEW limit
  PROVE  LET page == GetBatchOfLinks(links, lastID[p], limit)
         IN  /\ lastID[p] \in Nat /\ links \in SUBSET Nat /\ IsFiniteSet(links)
             /\ page \in SUBSET links /\ page \in SUBSET Int /\ IsFiniteSet(page)
             /\ \A id \in page : id > lastID[p] /\ id \in IDs
<1> DEFINE page == GetBatchOfLinks(links, lastID[p], limit)
<1> USE MonitorAssumption DEF IDs
<1>1. lastID[p] \in Nat BY DEF TypeOK
<1>2. links \in SUBSET Nat /\ IsFiniteSet(links)
  <2>1. links \in SUBSET (1..MaxID) BY DEF TypeOK
  <2>2. IsFiniteSet(1..MaxID) BY FS_Interval
  <2>3. IsFiniteSet(links) BY <2>1, <2>2, FS_Subset
  <2>4. \A x \in 1..MaxID : x \in Nat OBVIOUS
  <2> QED BY <2>1, <2>3, <2>4
<1>3. page \in SUBSET links /\ (\A id \in page : id > lastID[p] /\ id \in IDs)
  BY DEF GetBatchOfLinks, TypeOK
<1>4. IsFiniteSet(page) /\ page \in SUBSET Int
  <2>1. \A x \in links : x \in Int BY <1>2
  <2> HIDE DEF page
  <2> QED BY <2>1, <1>2, <1>3, FS_Subset
<1> QED BY <1>1, <1>2, <1>3, <1>4

(* An empty page, unless Batch is not positive, means that no row is left. *)
LEMMA NoPageLeft ==
  ASSUME TypeOK, NEW p \in Passes, NEW limit \in {Batch} \cup 1..Batch,
         GetBatchOfLinks(links, lastID[p], limit) = {}
  PROVE  Batch > 0 => \A id \in links : id <= lastID[p]
<1>1. Batch > 0 => limit \in Nat \ {0} BY MonitorAssumption
<1> QED BY <1>1, PageTypes, EmptyPageIsTheEnd

(* A page is read: its chunks partition it, it starts above everything visited
   so far, and nothing of the beginning lies between the cursor and its end
   without being in it. *)
LEMMA GetBatchIInv ==
  ASSUME IInv, NEW p \in Passes, NEW limit \in {Batch} \cup 1..Batch, GetBatch(p, limit)
  PROVE  IInv'
<1> DEFINE page == GetBatchOfLinks(links, lastID[p], limit)
           count == ChunkCount(Cardinality(page), Workers)
<1> USE MonitorAssumption DEF IDs
<1>1. pc[p] = "fetch" /\ Workers \in Nat \ {0} /\ lastID[p] \in Nat
  BY DEF IInv, SplitInv, GetBatch, TypeOK
<1>2. links \in SUBSET Nat /\ IsFiniteSet(links) BY PageTypes DEF IInv
<1>3. page \in SUBSET links /\ (\A id \in page : id > lastID[p] /\ id \in IDs)
  BY PageTypes DEF IInv
<1>4. IsFiniteSet(page) /\ page \in SUBSET Int BY PageTypes DEF IInv
<1>5. UNCHANGED <<links, inserting, nextID, visits, startRows>>
  BY DEF GetBatch, table
<1>6. CASE page = {} /\ pc' = [pc EXCEPT ![p] = "done"]
           /\ UNCHANGED <<lastID, chunks, worker, wg>>
  <2>1. TypeOK' BY <1>5, <1>6 DEF IInv, TypeOK
  <2>2. TableInv' BY <1>5 DEF IInv, TableInv
  <2>3. SplitInv' BY <1>6 DEF IInv, TypeOK, SplitInv
  <2>4. WaitGroupExact' BY <1>6 DEF IInv, TypeOK, WaitGroupExact, Done
  <2>5. BarrierHolds' BY <1>1, <1>6 DEF IInv, TypeOK, BarrierHolds, Done
  <2>6. VisitInv' BY <1>5, <1>6 DEF IInv, VisitInv
  <2>7. Batch > 0 => \A id \in links : id <= lastID[p] BY <1>6, NoPageLeft DEF IInv
  <2>8. OwedInv' BY <1>5, <1>6, <2>7 DEF IInv, TypeOK, OwedInv
  <2> QED BY <2>1, <2>2, <2>3, <2>4, <2>5, <2>6, <2>8 DEF IInv
<1>7. ASSUME NEW last \in page,
             \A id \in page : id <= last,
             pc' = [pc EXCEPT ![p] = "run"],
             lastID' = [lastID EXCEPT ![p] = Cursor(last)],
             chunks' = [chunks EXCEPT ![p] = splitIntoChunks(page, Workers)],
             worker' = [worker EXCEPT ![p] = [k \in 1..count |-> "loop"]],
             wg' = [wg EXCEPT ![p] = Workers]
      PROVE  IInv'
  <2> DEFINE parts == splitIntoChunks(page, Workers)
  <2>1. /\ DOMAIN parts = 1..count
        /\ \A k \in 1..count : parts[k] \subseteq page
        /\ \A j, k \in 1..count : j # k => parts[j] \cap parts[k] = {}
        /\ \A id \in page : \E k \in 1..count : id \in parts[k]
    BY <1>1, <1>4, <1>7, SplitPartitions
  <2>2. count \in 1..Workers
    BY <1>1, <1>4, <1>7, SplitCount, FS_CardinalityType, FS_EmptySet
  <2>3. parts = [k \in 1..count |-> parts[k]]
    BY DEF splitIntoChunks
  <2>4. last \in IDs /\ last > lastID[p] BY <1>3
  <2>5. \A id \in startRows[p] \cap links : lastID[p] < id /\ id <= last => id \in page
    BY <1>1, <1>2, <1>7, PageIsAPrefix
  <2> HIDE DEF page, count, parts
  <2>6. parts \in Seq(SUBSET IDs) /\ Len(parts) = count
    BY <1>3, <2>1, <2>2, <2>3
  <2>7. chunks' = [chunks EXCEPT ![p] = parts] /\ chunks'[p] = parts
    BY <1>7 DEF parts, IInv, TypeOK
  <2>8. [k \in 1..count |-> "loop"] \in Seq({"loop", "busy", "done"})
        /\ Len([k \in 1..count |-> "loop"]) = count
    BY <2>2
  <2>9. TypeOK'
    <3>1. pc' \in [Passes -> {"idle", "fetch", "run", "done", "cut"}]
          /\ lastID' \in [Passes -> 0..MaxID] /\ wg' \in [Passes -> Int]
      BY <1>7, <2>4 DEF IInv, TypeOK, Cursor
    <3>2. chunks' \in [Passes -> Seq(SUBSET IDs)]
      BY <2>6, <2>7 DEF IInv, TypeOK
    <3>3. worker' \in [Passes -> Seq({"loop", "busy", "done"})]
      BY <1>7, <2>8 DEF IInv, TypeOK
    <3> QED BY <1>5, <3>1, <3>2, <3>3 DEF IInv, TypeOK
  <2>10. TableInv' BY <1>5 DEF IInv, TableInv
  <2>11. worker'[p] = [k \in 1..count |-> "loop"] BY <1>7 DEF IInv, TypeOK
  <2>12. ASSUME NEW q \in Passes, q # p
         PROVE  /\ chunks'[q] = chunks[q] /\ worker'[q] = worker[q]
                /\ pc'[q] = pc[q] /\ lastID'[q] = lastID[q] /\ wg'[q] = wg[q]
    BY <1>7, <2>7, <2>12 DEF IInv, TypeOK
  <2>13. SplitInv'
    <3>1. Len(chunks'[p]) = Len(worker'[p]) /\ Workers > 0 /\ Len(worker'[p]) <= Workers
      BY <1>1, <2>2, <2>6, <2>7, <2>8, <2>11
    <3>2. \A k \in DOMAIN worker'[p] : worker'[p][k] # "done"
      BY <2>11
    <3> QED BY <2>12, <3>1, <3>2 DEF IInv, SplitInv
  <2>14. Done(p)' = {} BY <2>11 DEF Done
  <2>15. WaitGroupExact'
    <3>1. wg'[p] = Workers BY <1>7 DEF IInv, TypeOK
    <3>2. wg'[p] = Workers - Cardinality(Done(p)') /\ wg'[p] >= 0
      BY <1>1, <2>14, <3>1, FS_EmptySet
    <3>3. \A q \in Passes : q # p => Done(q)' = Done(q)
      BY <2>12 DEF Done
    <3> QED BY <2>12, <3>2, <3>3 DEF IInv, WaitGroupExact
  <2>16. BarrierHolds'
    <3>1. pc'[p] = "run" BY <1>7 DEF IInv, TypeOK
    <3>2. \A q \in Passes : q # p => Done(q)' = Done(q)
      BY <2>12 DEF Done
    <3> QED BY <2>12, <3>1, <3>2 DEF IInv, BarrierHolds
  <2>17. lastID'[p] = last BY <1>7 DEF IInv, TypeOK, Cursor
  <2>18. VisitInv'
    <3>1. \A id \in IDs : visits[p][id] <= 1 /\ (visits[p][id] > 0 => id <= lastID[p])
      BY DEF IInv, VisitInv
    <3>2. \A id \in page : visits[p][id] = 0 /\ id <= last
      <4>1. \A id \in IDs : visits[p][id] \in Nat BY DEF IInv, TypeOK
      <4> QED BY <1>1, <1>3, <1>7, <3>1, <4>1
    <3>3. \A id \in IDs : visits'[p][id] <= 1 /\ (visits'[p][id] > 0 => id <= lastID'[p])
      BY <1>1, <1>5, <2>4, <2>17, <3>1
    <3>4. \A k \in DOMAIN chunks'[p] : \A id \in chunks'[p][k] :
            visits'[p][id] = 0 /\ id <= lastID'[p]
      BY <1>5, <2>1, <2>7, <2>17, <3>2
    <3>5. \A j, k \in DOMAIN chunks'[p] : j # k => chunks'[p][j] \cap chunks'[p][k] = {}
      BY <2>1, <2>7
    <3> QED BY <1>5, <2>12, <3>3, <3>4, <3>5 DEF IInv, VisitInv
  <2>19. OwedInv'
    <3>1. \A k \in DOMAIN chunks[p] : chunks[p][k] = {}
      <4>1. chunks[p] \in Seq(SUBSET IDs) /\ worker[p] \in Seq({"loop", "busy", "done"})
            /\ Len(chunks[p]) = Len(worker[p])
        BY DEF IInv, TypeOK, SplitInv
      <4>2. DOMAIN chunks[p] = DOMAIN worker[p] BY <4>1
      <4>3. \A k \in DOMAIN worker[p] : worker[p][k] = "done"
        BY <1>1 DEF IInv, BarrierHolds, Done
      <4> QED BY <4>2, <4>3 DEF IInv, SplitInv
    <3>2. ASSUME NEW id \in startRows[p] \cap links, id <= last
          PROVE  visits[p][id] > 0 \/ \E k \in DOMAIN parts : id \in parts[k]
      <4>1. CASE id <= lastID[p]
        BY <3>1, <3>2, <4>1 DEF IInv, OwedInv
      <4>2. CASE lastID[p] < id
        BY <2>1, <2>5, <3>2, <4>2
      <4>3. id \in Nat BY <1>2
      <4> QED BY <1>1, <4>1, <4>2, <4>3
    <3>3. pc'[p] = "run" BY <1>7 DEF IInv, TypeOK
    <3> QED BY <1>5, <2>7, <2>12, <2>17, <3>2, <3>3 DEF IInv, OwedInv
  <2> QED BY <2>9, <2>10, <2>13, <2>15, <2>16, <2>18, <2>19 DEF IInv
<1> QED BY <1>6, <1>7 DEF GetBatch

LEMMA GetBatchFailsIInv == ASSUME IInv, NEW p \in Passes, GetBatchFails(p) PROVE IInv'
<1> USE MonitorAssumption DEF GetBatchFails, table, IDs
<1>1. TypeOK' BY DEF IInv, TypeOK
<1>2. TableInv' BY DEF IInv, TableInv
<1>3. SplitInv' BY DEF IInv, TypeOK, SplitInv
<1>4. WaitGroupExact' BY DEF IInv, TypeOK, WaitGroupExact, Done
<1>5. BarrierHolds' BY DEF IInv, TypeOK, BarrierHolds, Done
<1>6. VisitInv' BY DEF IInv, VisitInv
<1>7. OwedInv' BY DEF IInv, TypeOK, OwedInv
<1> QED BY <1>1, <1>2, <1>3, <1>4, <1>5, <1>6, <1>7 DEF IInv

(* A worker's chunk shrinks by its least id, which is visited; the id is in no
   other chunk, so nobody visits it again. *)
LEMMA BeginLinkIInv ==
  ASSUME IInv, NEW p \in Passes, NEW k \in DOMAIN worker[p], BeginLink(p, k)
  PROVE  IInv'
<1> USE MonitorAssumption DEF IDs
<1>1. PICK id \in chunks[p][k] :
        /\ chunks' = [chunks EXCEPT ![p][k] = @ \ {id}]
        /\ visits' = [visits EXCEPT ![p][id] = @ + 1]
  BY DEF BeginLink
<1>2. /\ worker[p][k] = "loop"
      /\ worker' = [worker EXCEPT ![p][k] = "busy"]
      /\ UNCHANGED <<links, inserting, nextID, pc, lastID, wg, startRows>>
  BY DEF BeginLink, table
<1>3. chunks[p] \in Seq(SUBSET IDs) /\ worker[p] \in Seq({"loop", "busy", "done"})
  BY DEF IInv, TypeOK
<1>4. Len(chunks[p]) = Len(worker[p]) /\ DOMAIN chunks[p] = DOMAIN worker[p]
  BY <1>3 DEF IInv, SplitInv
<1>5. chunks[p][k] \in SUBSET IDs /\ id \in IDs
  BY <1>3, <1>4
<1>6. chunks'[p] = [chunks[p] EXCEPT ![k] = @ \ {id}]
      /\ worker'[p] = [worker[p] EXCEPT ![k] = "busy"]
      /\ visits'[p] = [visits[p] EXCEPT ![id] = @ + 1]
  BY <1>1, <1>2 DEF IInv, TypeOK
<1>7. ASSUME NEW q \in Passes, q # p
      PROVE  chunks'[q] = chunks[q] /\ worker'[q] = worker[q] /\ visits'[q] = visits[q]
  BY <1>1, <1>2, <1>7 DEF IInv, TypeOK
<1>8. /\ chunks'[p] \in Seq(SUBSET IDs) /\ worker'[p] \in Seq({"loop", "busy", "done"})
      /\ Len(chunks'[p]) = Len(worker'[p]) /\ Len(worker'[p]) = Len(worker[p])
      /\ DOMAIN chunks'[p] = DOMAIN chunks[p] /\ DOMAIN worker'[p] = DOMAIN worker[p]
  <2>1. chunks[p][k] \ {id} \in SUBSET IDs BY <1>5
  <2>2. chunks'[p] = [chunks[p] EXCEPT ![k] = chunks[p][k] \ {id}] BY <1>6
  <2> QED BY <1>3, <1>4, <1>6, <2>1, <2>2, ExceptInSeq
<1>9. visits[p][id] = 0 /\ id <= lastID[p] /\ visits'[p] \in [IDs -> Nat]
  <2>1. visits[p][id] = 0 /\ id <= lastID[p] BY <1>4 DEF IInv, VisitInv
  <2>2. visits[p] \in [IDs -> Nat] BY DEF IInv, TypeOK
  <2> QED BY <1>5, <1>6, <2>1, <2>2
<1>10. TypeOK'
  <2>1. chunks' \in [Passes -> Seq(SUBSET IDs)]
    BY <1>1, <1>7, <1>8 DEF IInv, TypeOK
  <2>2. worker' \in [Passes -> Seq({"loop", "busy", "done"})]
    BY <1>2, <1>7, <1>8 DEF IInv, TypeOK
  <2>3. visits' \in [Passes -> [IDs -> Nat]]
    BY <1>1, <1>7, <1>9 DEF IInv, TypeOK
  <2> QED BY <1>2, <2>1, <2>2, <2>3 DEF IInv, TypeOK
<1>11. TableInv' BY <1>2 DEF IInv, TableInv
<1>12. SplitInv'
  <2>1. \A j \in DOMAIN worker'[p] : worker'[p][j] = "done" => chunks'[p][j] = {}
    BY <1>3, <1>4, <1>6, <1>8 DEF IInv, SplitInv
  <2> QED BY <1>2, <1>7, <1>8, <2>1 DEF IInv, SplitInv
<1>13. \A q \in Passes : Done(q)' = Done(q)
  <2>1. Done(p)' = Done(p) BY <1>2, <1>6, <1>8 DEF Done
  <2> QED BY <1>7, <2>1 DEF Done
<1>14. WaitGroupExact' BY <1>2, <1>13 DEF IInv, WaitGroupExact
<1>15. BarrierHolds' BY <1>2, <1>7, <1>8, <1>13 DEF IInv, BarrierHolds
<1>16. VisitInv'
  <2>1. \A x \in IDs : visits'[p][x] <= 1 /\ (visits'[p][x] > 0 => x <= lastID[p])
    BY <1>5, <1>6, <1>9 DEF IInv, VisitInv, TypeOK
  <2>2. \A j \in DOMAIN chunks'[p] : chunks'[p][j] \subseteq chunks[p][j]
    BY <1>3, <1>4, <1>6, <1>8
  <2>3. \A j \in DOMAIN chunks'[p] : id \notin chunks'[p][j]
    BY <1>3, <1>4, <1>6, <1>8 DEF IInv, VisitInv
  <2>4. \A j \in DOMAIN chunks'[p] : \A x \in chunks'[p][j] :
          visits'[p][x] = 0 /\ x <= lastID[p]
    <3>1. \A x \in IDs : x # id => visits'[p][x] = visits[p][x]
      BY <1>6 DEF IInv, TypeOK
    <3>2. \A j \in DOMAIN chunks[p] : \A x \in chunks[p][j] :
            x \in IDs /\ visits[p][x] = 0 /\ x <= lastID[p]
      BY <1>3 DEF IInv, VisitInv
    <3> QED BY <1>8, <2>2, <2>3, <3>1, <3>2
  <2>5. \A i, j \in DOMAIN chunks'[p] : i # j => chunks'[p][i] \cap chunks'[p][j] = {}
    BY <1>8, <2>2 DEF IInv, VisitInv
  <2> QED BY <1>2, <1>7, <2>1, <2>4, <2>5 DEF IInv, VisitInv
<1>17. OwedInv'
  <2>1. ASSUME NEW x \in startRows[p] \cap links, x <= lastID[p]
        PROVE  visits'[p][x] > 0 \/ \E j \in DOMAIN chunks'[p] : x \in chunks'[p][j]
    <3>1. x \in IDs BY DEF IInv, TypeOK
    <3>2. CASE x = id BY <1>5, <1>6, <1>9, <3>2 DEF IInv, TypeOK
    <3>3. CASE x # id /\ visits[p][x] > 0
      BY <1>6, <3>1, <3>3 DEF IInv, TypeOK
    <3>4. CASE x # id /\ \E j \in DOMAIN chunks[p] : x \in chunks[p][j]
      BY <1>3, <1>4, <1>6, <1>8, <3>4
    <3> QED BY <2>1, <3>2, <3>3, <3>4 DEF IInv, OwedInv
  <2> QED BY <1>2, <1>7, <2>1 DEF IInv, OwedInv
<1> QED BY <1>10, <1>11, <1>12, <1>14, <1>15, <1>16, <1>17 DEF IInv

LEMMA EndLinkIInv ==
  ASSUME IInv, NEW p \in Passes, NEW k \in DOMAIN worker[p], EndLink(p, k)
  PROVE  IInv'
<1> USE MonitorAssumption DEF IDs
<1>1. /\ worker[p][k] = "busy"
      /\ worker' = [worker EXCEPT ![p][k] = "loop"]
      /\ UNCHANGED <<links, inserting, nextID, pc, lastID, chunks, wg, visits, startRows>>
  BY DEF EndLink, table
<1>2. worker[p] \in Seq({"loop", "busy", "done"})
      /\ worker'[p] = [worker[p] EXCEPT ![k] = "loop"]
  BY <1>1 DEF IInv, TypeOK
<1>3. /\ worker'[p] \in Seq({"loop", "busy", "done"})
      /\ Len(worker'[p]) = Len(worker[p])
      /\ DOMAIN worker'[p] = DOMAIN worker[p]
  BY <1>2, ExceptInSeq
<1>4. \A q \in Passes : q # p => worker'[q] = worker[q]
  BY <1>1 DEF IInv, TypeOK
<1>5. TypeOK' BY <1>1, <1>3, <1>4 DEF IInv, TypeOK
<1>6. TableInv' BY <1>1 DEF IInv, TableInv
<1>7. SplitInv' BY <1>1, <1>2, <1>3, <1>4 DEF IInv, SplitInv
<1>8. \A q \in Passes : Done(q)' = Done(q)
  <2>1. Done(p)' = Done(p) BY <1>1, <1>2, <1>3 DEF Done
  <2> QED BY <1>4, <2>1 DEF Done
<1>9. WaitGroupExact' BY <1>1, <1>8 DEF IInv, WaitGroupExact
<1>10. BarrierHolds' BY <1>1, <1>3, <1>4, <1>8 DEF IInv, BarrierHolds
<1>11. VisitInv' BY <1>1 DEF IInv, VisitInv
<1>12. OwedInv' BY <1>1 DEF IInv, OwedInv
<1> QED BY <1>5, <1>6, <1>7, <1>9, <1>10, <1>11, <1>12 DEF IInv

(* The counter stays exact: one more worker is done, and there are at most
   Workers of them. *)
LEMMA WorkerDoneIInv ==
  ASSUME IInv, NEW p \in Passes, NEW k \in DOMAIN worker[p], WorkerDone(p, k)
  PROVE  IInv'
<1> USE MonitorAssumption DEF IDs
<1>1. /\ worker[p][k] = "loop" /\ chunks[p][k] = {}
      /\ worker' = [worker EXCEPT ![p][k] = "done"]
      /\ wg' = [wg EXCEPT ![p] = @ - 1]
      /\ UNCHANGED <<links, inserting, nextID, pc, lastID, chunks, visits, startRows>>
  BY DEF WorkerDone, table
<1>2. worker[p] \in Seq({"loop", "busy", "done"})
      /\ worker'[p] = [worker[p] EXCEPT ![k] = "done"]
      /\ wg'[p] = wg[p] - 1 /\ wg'[p] \in Int
  BY <1>1 DEF IInv, TypeOK
<1>3. /\ worker'[p] \in Seq({"loop", "busy", "done"})
      /\ Len(worker'[p]) = Len(worker[p])
      /\ DOMAIN worker'[p] = DOMAIN worker[p]
  BY <1>2, ExceptInSeq
<1>4. \A q \in Passes : q # p => worker'[q] = worker[q] /\ wg'[q] = wg[q]
  BY <1>1 DEF IInv, TypeOK
<1>5. TypeOK' BY <1>1, <1>2, <1>3, <1>4 DEF IInv, TypeOK
<1>6. TableInv' BY <1>1 DEF IInv, TableInv
<1>7. SplitInv' BY <1>1, <1>2, <1>3, <1>4 DEF IInv, SplitInv
<1>8. Done(p)' = Done(p) \cup {k} /\ k \notin Done(p)
  BY <1>1, <1>2, <1>3 DEF Done
<1>9. \A q \in Passes : q # p => Done(q)' = Done(q)
  BY <1>4 DEF Done
<1>10. pc[p] = "run" BY <1>1, WorkersRunInRun
<1>11. WaitGroupExact'
  <2>1. wg[p] = Workers - Cardinality(Done(p)) /\ Len(worker[p]) <= Workers
    BY <1>10 DEF IInv, WaitGroupExact, SplitInv
  <2>2. IsFiniteSet(Done(p)) /\ Cardinality(Done(p)) \in Nat
    BY DoneIsFinite DEF IInv
  <2>3. Cardinality(Done(p)') = Cardinality(Done(p)) + 1
    BY <1>8, <2>2, FS_AddElement
  <2>4. Cardinality(Done(p)') <= Len(worker'[p])
    <3>1. Done(p)' \in SUBSET (1..Len(worker'[p])) BY <1>3 DEF Done
    <3>2. IsFiniteSet(1..Len(worker'[p]))
          /\ Cardinality(1..Len(worker'[p])) = Len(worker'[p])
      BY <1>3, FS_Interval
    <3> QED BY <3>1, <3>2, FS_Subset
  <2>5. wg'[p] = Workers - Cardinality(Done(p)') /\ wg'[p] >= 0
    BY <1>2, <1>3, <2>1, <2>2, <2>3, <2>4
  <2> QED BY <1>1, <1>4, <1>9, <2>5 DEF IInv, WaitGroupExact
<1>12. BarrierHolds' BY <1>1, <1>4, <1>9, <1>10 DEF IInv, BarrierHolds
<1>13. VisitInv' BY <1>1 DEF IInv, VisitInv
<1>14. OwedInv' BY <1>1 DEF IInv, OwedInv
<1> QED BY <1>5, <1>6, <1>7, <1>11, <1>12, <1>13, <1>14 DEF IInv

(* At zero as many workers are done as config.Workers counts: all of them. *)
LEMMA ZeroMeansAllDone ==
  ASSUME IInv, NEW p \in Passes, pc[p] = "run", wg[p] = 0
  PROVE  Done(p) = 1..Workers /\ Done(p) = DOMAIN worker[p]
<1>1. Cardinality(Done(p)) = Workers /\ Len(worker[p]) <= Workers /\ Workers \in Nat
  <2>1. IsFiniteSet(Done(p)) /\ Cardinality(Done(p)) \in Nat
    BY DoneIsFinite DEF IInv
  <2> QED BY <2>1, MonitorAssumption DEF IInv, WaitGroupExact, SplitInv
<1>2. worker[p] \in Seq({"loop", "busy", "done"}) BY DEF IInv, TypeOK
<1>3. Done(p) \in SUBSET (1..Workers) /\ Done(p) \in SUBSET DOMAIN worker[p]
      /\ DOMAIN worker[p] \in SUBSET (1..Workers)
  BY <1>1, <1>2 DEF Done
<1>4. IsFiniteSet(1..Workers) /\ Cardinality(1..Workers) = Workers
  BY <1>1, FS_Interval
<1>5. Done(p) = 1..Workers BY <1>1, <1>3, <1>4, FS_Subset
<1> QED BY <1>3, <1>5

LEMMA WaitIInv == ASSUME IInv, NEW p \in Passes, Wait(p) PROVE IInv'
<1> USE MonitorAssumption DEF Wait, table, IDs
<1>1. TypeOK' BY DEF IInv, TypeOK
<1>2. TableInv' BY DEF IInv, TableInv
<1>3. SplitInv' BY DEF IInv, TypeOK, SplitInv
<1>4. WaitGroupExact' BY DEF IInv, TypeOK, WaitGroupExact, Done
<1>5. BarrierHolds' BY ZeroMeansAllDone DEF IInv, TypeOK, BarrierHolds, Done
<1>6. VisitInv' BY DEF IInv, VisitInv
<1>7. OwedInv' BY DEF IInv, TypeOK, OwedInv
<1> QED BY <1>1, <1>2, <1>3, <1>4, <1>5, <1>6, <1>7 DEF IInv

LEMMA StutterIInv == IInv /\ UNCHANGED vars => IInv'
<1> SUFFICES ASSUME IInv, UNCHANGED vars PROVE IInv' OBVIOUS
<1> USE DEF vars, table, pass
<1>1. TypeOK' BY DEF IInv, TypeOK
<1>2. TableInv' BY DEF IInv, TableInv
<1>3. SplitInv' BY DEF IInv, SplitInv
<1>4. WaitGroupExact' BY DEF IInv, WaitGroupExact, Done
<1>5. BarrierHolds' BY DEF IInv, BarrierHolds, Done
<1>6. VisitInv' BY DEF IInv, VisitInv
<1>7. OwedInv' BY DEF IInv, OwedInv
<1> QED BY <1>1, <1>2, <1>3, <1>4, <1>5, <1>6, <1>7 DEF IInv

(* IInv is an invariant of every instance of Monitor. *)
THEOREM Invariance == Spec => []IInv
<1>1. Init => IInv BY InitIInv
<1>2. IInv /\ [Next]_vars => IInv'
  <2> SUFFICES ASSUME IInv, Next PROVE IInv'
    BY StutterIInv
  <2>1. CASE InsertRow BY <2>1, InsertRowIInv
  <2>2. ASSUME NEW id \in IDs, CommitRow(id) \/ AbortRow(id) \/ RemoveRow(id)
        PROVE  IInv'
    BY <2>2, CommitRowIInv, AbortRowIInv, RemoveRowIInv
  <2>3. ASSUME NEW p \in Passes, Tick(p) PROVE IInv' BY <2>3, TickIInv
  <2>4. ASSUME NEW p \in Passes, PassStep(p) PROVE IInv'
    <3>1. CASE \E limit \in {Batch} \cup 1..Batch : GetBatch(p, limit)
      BY <3>1, GetBatchIInv
    <3>2. CASE GetBatchFails(p) BY <3>2, GetBatchFailsIInv
    <3>3. CASE WorkerStep(p)
      BY <3>3, BeginLinkIInv, EndLinkIInv, WorkerDoneIInv DEF WorkerStep
    <3>4. CASE Wait(p) BY <3>4, WaitIInv
    <3> QED BY <2>4, <3>1, <3>2, <3>3, <3>4 DEF PassStep
  <2> QED BY <2>1, <2>2, <2>3, <2>4 DEF Next
<1> QED BY <1>1, <1>2, PTL DEF Spec

-----------------------------------------------------------------------------
(* Every variable keeps its type, for every batch size and worker count. *)
THEOREM TypeCorrect == Spec => []TypeOK
<1>1. IInv => TypeOK BY DEF IInv
<1> QED BY <1>1, Invariance, PTL

(* However a page is cut, wg.Done() is never called more often than
   wg.Add(config.Workers) allows: the WaitGroup cannot panic. *)
THEOREM WaitGroupSafe == Spec => []WaitGroupExact
<1>1. IInv => WaitGroupExact BY DEF IInv
<1> QED BY <1>1, Invariance, PTL

(* No worker survives wg.Wait() of its page. *)
THEOREM Barrier == Spec => []BarrierHolds
<1>1. IInv => BarrierHolds BY DEF IInv
<1> QED BY <1>1, Invariance, PTL

(* No pass processes a link twice. *)
THEOREM NoDoubleVisit == Spec => []OncePerPass
<1>1. IInv => OncePerPass BY DEF IInv, VisitInv, OncePerPass
<1> QED BY <1>1, Invariance, PTL

(* No pass that is not cut short leaves out a link that was there all along. *)
THEOREM NoneSkipped == Spec => []NothingSkipped
<1>1. ASSUME IInv PROVE NothingSkipped
  <2> SUFFICES ASSUME Batch > 0, Workers > 0, NEW p \in Passes, NEW id \in IDs,
                      id \in startRows[p] \cap links,
                      pc[p] = "done" \/ (pc[p] = "fetch" /\ id <= lastID[p])
               PROVE  visits[p][id] > 0
    BY DEF NothingSkipped
  <2>1. id <= lastID[p] BY <1>1 DEF IInv, OwedInv
  <2>2. chunks[p] \in Seq(SUBSET IDs) /\ worker[p] \in Seq({"loop", "busy", "done"})
        /\ Len(chunks[p]) = Len(worker[p])
    BY <1>1 DEF IInv, TypeOK, SplitInv
  <2>3. DOMAIN chunks[p] = DOMAIN worker[p] BY <2>2
  <2>4. \A k \in DOMAIN worker[p] : worker[p][k] = "done"
    BY <1>1 DEF IInv, BarrierHolds, Done
  <2>5. \A k \in DOMAIN chunks[p] : chunks[p][k] = {}
    BY <1>1, <2>3, <2>4 DEF IInv, SplitInv
  <2> QED BY <1>1, <2>1, <2>5 DEF IInv, OwedInv
<1> QED BY <1>1, Invariance, PTL

(* A pass that goes on past a page had config.Workers chunks in it: after a page
   that splits into fewer, for instance the last one of most tables, the
   goroutine waits for ever, whatever Batch and Workers are. *)
THEOREM WaitIsForAll == Spec => WaitNeedsEveryWorker
<1>1. IInv /\ [Next]_vars =>
        [\A p \in Passes : pc[p] = "run" /\ pc'[p] # "run" => Done(p) = 1..Workers]_vars
  <2> SUFFICES ASSUME IInv, Next, NEW p \in Passes, pc[p] = "run", pc'[p] # "run"
               PROVE  Done(p) = 1..Workers
    OBVIOUS
  <2>1. CASE Wait(p) BY <2>1, ZeroMeansAllDone DEF Wait
  <2>2. ASSUME NEW q \in Passes, q # p, Tick(q) \/ PassStep(q) PROVE FALSE
    BY <2>2 DEF Tick, PassStep, GetBatch, GetBatchFails, WorkerStep, BeginLink,
                EndLink, WorkerDone, Wait, IInv, TypeOK
  <2>3. CASE \/ Tick(p) \/ GetBatchFails(p)
             \/ \E limit \in {Batch} \cup 1..Batch : GetBatch(p, limit)
    BY <2>3 DEF Tick, GetBatch, GetBatchFails
  <2>4. CASE WorkerStep(p)
    BY <2>4 DEF WorkerStep, BeginLink, EndLink, WorkerDone
  <2>5. CASE InsertRow \/ \E id \in IDs : CommitRow(id) \/ AbortRow(id) \/ RemoveRow(id)
    BY <2>5 DEF InsertRow, CommitRow, AbortRow, RemoveRow, pass
  <2> QED BY <2>1, <2>2, <2>3, <2>4, <2>5 DEF Next, PassStep
<1> QED BY <1>1, Invariance, PTL DEF Spec, WaitNeedsEveryWorker

-----------------------------------------------------------------------------
(* Monitor implements Paging. *)

(* A page is what lies above the cursor up to its last link, and is not longer than
   config.Batch (GetBatchOfLinks). *)
LEMMA PageIsUpToItsTop ==
  ASSUME TypeOK, NEW p \in Passes, NEW limit \in {Batch} \cup 1..Batch,
         NEW top \in GetBatchOfLinks(links, lastID[p], limit),
         \A id \in GetBatchOfLinks(links, lastID[p], limit) : id <= top
  PROVE  LET page == GetBatchOfLinks(links, lastID[p], limit)
         IN  /\ page = {id \in links : lastID[p] < id /\ id <= top}
             /\ Cardinality(page) <= Batch
<1> DEFINE page  == GetBatchOfLinks(links, lastID[p], limit)
           above == {id \in links : id > lastID[p]}
<1>1. limit \in Int /\ limit <= Batch BY MonitorAssumption
<1>2. \A id \in links : lastID[p] < id /\ id <= top => id \in page
  BY <1>1, PageTypes, PageIsAPrefix
<1>3. \A id \in page : id \in links /\ lastID[p] < id /\ id <= top
  BY PageTypes
<1>4. page = {id \in above : id <= top} BY <1>2, <1>3, PageTypes
<1>5. Cardinality(page) <= limit
  <2>1. Rank(above, top) <= limit BY DEF GetBatchOfLinks
  <2> QED BY <1>4, <2>1 DEF Rank
<1>6. Cardinality(page) \in Nat BY PageTypes, FS_CardinalityType
<1> QED BY <1>1, <1>2, <1>3, <1>5, <1>6, MonitorAssumption

(* The workers under way. *)
LEMMA BusyIsFinite ==
  ASSUME TypeOK, NEW p \in Passes
  PROVE  /\ Busy(p) \in SUBSET (1..Len(worker[p])) /\ Len(worker[p]) \in Nat
         /\ IsFiniteSet(Busy(p)) /\ Cardinality(Busy(p)) \in Nat
         /\ IsFiniteSet(1..Len(worker[p])) /\ Cardinality(1..Len(worker[p])) = Len(worker[p])
<1>1. worker[p] \in Seq({"loop", "busy", "done"}) BY DEF TypeOK
<1>2. Busy(p) \in SUBSET (1..Len(worker[p])) /\ Len(worker[p]) \in Nat
  BY <1>1 DEF Busy
<1>3. IsFiniteSet(1..Len(worker[p])) /\ Cardinality(1..Len(worker[p])) = Len(worker[p])
  BY <1>2, FS_Interval
<1>4. IsFiniteSet(Busy(p)) BY <1>2, <1>3, FS_Subset
<1> QED BY <1>2, <1>3, <1>4, FS_CardinalityType

(* When all workers are done, nothing of the page is left or under way. *)
LEMMA AllDoneIsNothing ==
  ASSUME IInv, NEW p \in Passes, Done(p) = DOMAIN worker[p]
  PROVE  InChunks(p) = {} /\ Busy(p) = {}
<1>1. /\ chunks[p] \in Seq(SUBSET IDs) /\ worker[p] \in Seq({"loop", "busy", "done"})
      /\ Len(chunks[p]) = Len(worker[p])
  BY DEF IInv, TypeOK, SplitInv
<1>2. DOMAIN chunks[p] = DOMAIN worker[p] BY <1>1
<1>3. \A k \in DOMAIN worker[p] : worker[p][k] = "done" BY DEF Done
<1>4. \A k \in DOMAIN chunks[p] : chunks[p][k] = {} BY <1>2, <1>3 DEF IInv, SplitInv
<1> QED BY <1>3, <1>4 DEF InChunks, Busy

(* A step of pass p shows nothing of the others. *)
LEMMA OthersSeen ==
  ASSUME NEW q \in Passes,
         UNCHANGED <<chunks[q], worker[q], visits[q]>>
  PROVE  /\ InChunks(q)' = InChunks(q) /\ Busy(q)' = Busy(q)
         /\ {id \in IDs : visits[q][id] > 0}' = {id \in IDs : visits[q][id] > 0}
BY DEF InChunks, Busy, IDs

LEMMA InitPages == Init => P!Init
<1> SUFFICES ASSUME Init PROVE P!Init
  OBVIOUS
<1>1. links \in SUBSET IDs BY MonitorAssumption DEF Init, IDs
<1>2. \A p \in Passes : InChunks(p) = {} /\ Busy(p) = {} BY DEF Init, InChunks, Busy
<1>3. \A p \in Passes : Cardinality(Busy(p)) = 0 BY <1>2, FS_EmptySet
<1>4. \A p \in Passes : {id \in IDs : visits[p][id] > 0} = {} BY DEF Init
<1> QED BY <1>1, <1>2, <1>3, <1>4 DEF P!Init, Init

LEMMA TablePages ==
  ASSUME IInv, IInv', InsertRow \/ \E id \in IDs : CommitRow(id) \/ AbortRow(id) \/ RemoveRow(id)
  PROVE  P!Change
<1>1. UNCHANGED pass BY DEF InsertRow, CommitRow, AbortRow, RemoveRow
<1>2. \A q \in Passes : UNCHANGED <<chunks[q], worker[q], visits[q]>> BY <1>1 DEF pass
<1>3. links' \in SUBSET IDs BY DEF IInv, TypeOK, IDs
<1> QED BY <1>1, <1>2, <1>3, OthersSeen DEF P!Change, P!pass, pass

LEMMA GetBatchPages ==
  ASSUME IInv, IInv', NEW p \in Passes, NEW limit \in {Batch} \cup 1..Batch, GetBatch(p, limit)
  PROVE  P!Step(p)
<1> DEFINE page == GetBatchOfLinks(links, lastID[p], limit)
           count == ChunkCount(Cardinality(page), Workers)
<1>1. pc[p] = "fetch" /\ Workers \in Nat \ {0} /\ UNCHANGED <<links, visits>>
  BY MonitorAssumption DEF IInv, SplitInv, GetBatch, table
<1>2. CASE page = {} /\ pc' = [pc EXCEPT ![p] = "done"]
           /\ UNCHANGED <<lastID, chunks, worker, wg>>
  <2>1. Batch > 0 => \A id \in links : id <= lastID[p] BY <1>2, NoPageLeft DEF IInv
  <2>2. \A q \in Passes : UNCHANGED <<chunks[q], worker[q], visits[q]>> BY <1>1, <1>2
  <2> QED BY <1>1, <1>2, <2>1, <2>2, OthersSeen DEF P!Step, P!End, P!GoTo
<1>3. ASSUME NEW top \in page,
             \A id \in page : id <= top,
             pc' = [pc EXCEPT ![p] = "run"],
             lastID' = [lastID EXCEPT ![p] = Cursor(top)],
             chunks' = [chunks EXCEPT ![p] = splitIntoChunks(page, Workers)],
             worker' = [worker EXCEPT ![p] = [k \in 1..count |-> "loop"]]
      PROVE  P!Read(p)
  <2>1. page = {id \in links : lastID[p] < id /\ id <= top} /\ Cardinality(page) <= Batch
    BY <1>3, PageIsUpToItsTop DEF IInv
  <2>2. top \in links /\ lastID[p] < top BY <2>1
  <2>3. InChunks(p)' = page
    <3>1. chunks'[p] = splitIntoChunks(page, Workers) BY <1>3 DEF IInv, TypeOK
    <3>2. IsFiniteSet(page) /\ page \in SUBSET Int BY PageTypes DEF IInv
    <3> DEFINE parts == splitIntoChunks(page, Workers)
    <3>3. /\ DOMAIN parts = 1..count
          /\ \A k \in 1..count : parts[k] \subseteq page
          /\ \A id \in page : \E k \in 1..count : id \in parts[k]
      BY <1>1, <1>3, <3>2, SplitPartitions
    <3> HIDE DEF page, count, parts
    <3> QED BY <3>1, <3>3 DEF InChunks, parts
  <2>4. Busy(p)' = {} /\ Busy(p) = {}
    <3>1. worker'[p] = [k \in 1..count |-> "loop"] BY <1>3 DEF IInv, TypeOK
    <3>2. Busy(p) = {} BY <1>1, AllDoneIsNothing DEF IInv, BarrierHolds
    <3> QED BY <3>1, <3>2 DEF Busy
  <2>5. \A q \in Passes : q # p => UNCHANGED <<chunks[q], worker[q], visits[q]>>
    BY <1>1, <1>3 DEF IInv, TypeOK
  <2>6. /\ [q \in Passes |-> InChunks(q)'] = [[q \in Passes |-> InChunks(q)] EXCEPT ![p] = page]
        /\ \A q \in Passes : Cardinality(Busy(q)') = Cardinality(Busy(q))
    BY <2>3, <2>4, <2>5, OthersSeen
  <2>7. P!PageUpTo(p, top) = page BY <2>1 DEF P!PageUpTo
  <2>8. P!Cardinality(page) = Cardinality(page) BY DEF Cardinality, P!Cardinality
  <2> HIDE DEF page
  <2> QED BY <1>1, <1>3, <2>1, <2>2, <2>6, <2>7, <2>8 DEF P!Read, P!GoTo, Cursor
<1> QED BY <1>2, <1>3 DEF GetBatch, P!Step

LEMMA BeginLinkPages ==
  ASSUME IInv, IInv', NEW p \in Passes, NEW k \in DOMAIN worker[p], BeginLink(p, k)
  PROVE  \E id \in IDs : P!Begin(p, id)
<1>1. PICK id \in chunks[p][k] :
        /\ chunks' = [chunks EXCEPT ![p][k] = @ \ {id}]
        /\ visits' = [visits EXCEPT ![p][id] = @ + 1]
  BY DEF BeginLink
<1>2. /\ worker[p][k] = "loop" /\ worker' = [worker EXCEPT ![p][k] = "busy"]
      /\ UNCHANGED <<links, pc, lastID>>
  BY DEF BeginLink, table
<1>3. /\ chunks[p] \in Seq(SUBSET IDs) /\ worker[p] \in Seq({"loop", "busy", "done"})
      /\ Len(chunks[p]) = Len(worker[p])
  BY DEF IInv, TypeOK, SplitInv
<1>4. DOMAIN chunks[p] = DOMAIN worker[p] /\ k \in 1..Len(worker[p]) /\ k \in DOMAIN chunks[p]
  BY <1>3
<1>5. id \in IDs /\ id \in InChunks(p) BY <1>3, <1>4 DEF InChunks
<1>6. /\ chunks'[p] = [chunks[p] EXCEPT ![k] = @ \ {id}]
      /\ worker'[p] = [worker[p] EXCEPT ![k] = "busy"]
      /\ visits'[p] = [visits[p] EXCEPT ![id] = @ + 1]
  BY <1>1, <1>2 DEF IInv, TypeOK
<1>7. \A q \in Passes : q # p => UNCHANGED <<chunks[q], worker[q], visits[q]>>
  BY <1>1, <1>2 DEF IInv, TypeOK
<1>8. InChunks(p)' = InChunks(p) \ {id}
  <2>1. DOMAIN chunks'[p] = DOMAIN chunks[p] BY <1>6
  <2>2. \A j \in DOMAIN chunks[p] : j # k => chunks'[p][j] = chunks[p][j] /\ id \notin chunks[p][j]
    BY <1>4, <1>6 DEF IInv, VisitInv
  <2>3. chunks'[p][k] = chunks[p][k] \ {id} BY <1>4, <1>6
  <2>4. \A j \in DOMAIN chunks[p] : chunks'[p][j] = chunks[p][j] \ {id} BY <2>2, <2>3
  <2> QED BY <2>1, <2>4 DEF InChunks
<1>9. /\ Busy(p)' = Busy(p) \cup {k} /\ k \notin Busy(p)
      /\ Cardinality(Busy(p)') = Cardinality(Busy(p)) + 1
      /\ Cardinality(Busy(p)) < Workers
  <2>1. Busy(p)' = Busy(p) \cup {k} /\ k \notin Busy(p)
    <3>1. DOMAIN worker'[p] = DOMAIN worker[p] /\ worker'[p][k] = "busy" BY <1>3, <1>6
    <3>2. \A j \in DOMAIN worker[p] : j # k => worker'[p][j] = worker[p][j] BY <1>6
    <3> QED BY <1>2, <3>1, <3>2 DEF Busy
  <2>2. Cardinality(Busy(p)') = Cardinality(Busy(p)) + 1
    BY <2>1, BusyIsFinite, FS_AddElement DEF IInv
  <2>3. Cardinality(Busy(p)') <= Len(worker[p])
    <3>1. Busy(p)' \in SUBSET (1..Len(worker[p])) BY <1>4, <2>1, BusyIsFinite DEF IInv
    <3>2. IsFiniteSet(1..Len(worker[p])) /\ Cardinality(1..Len(worker[p])) = Len(worker[p])
      BY BusyIsFinite DEF IInv
    <3> QED BY <3>1, <3>2, FS_Subset
  <2>4. Len(worker[p]) <= Workers BY <1>2, WorkersRunInRun DEF IInv, SplitInv
  <2> QED BY <2>1, <2>2, <2>3, <2>4, BusyIsFinite, MonitorAssumption DEF IInv
<1>10. {x \in IDs : visits'[p][x] > 0} = {x \in IDs : visits[p][x] > 0} \cup {id}
  <2>1. visits[p] \in [IDs -> Nat] BY DEF IInv, TypeOK
  <2>2. visits'[p][id] = visits[p][id] + 1 /\ visits[p][id] \in Nat BY <1>5, <1>6, <2>1
  <2>3. \A x \in IDs : x # id => visits'[p][x] = visits[p][x] BY <1>6, <2>1
  <2> QED BY <1>5, <2>2, <2>3
<1>11. pc[p] = "run" BY <1>2, WorkersRunInRun
<1>12. /\ [q \in Passes |-> InChunks(q)'] =
             [[q \in Passes |-> InChunks(q)] EXCEPT ![p] = InChunks(p) \ {id}]
       /\ [q \in Passes |-> Cardinality(Busy(q)')] =
             [[q \in Passes |-> Cardinality(Busy(q))] EXCEPT ![p] = Cardinality(Busy(p)) + 1]
       /\ [q \in Passes |-> {x \in IDs : visits'[q][x] > 0}] =
             [[q \in Passes |-> {x \in IDs : visits[q][x] > 0}]
                EXCEPT ![p] = {x \in IDs : visits[p][x] > 0} \cup {id}]
  BY <1>7, <1>8, <1>9, <1>10, OthersSeen
<1> QED BY <1>2, <1>5, <1>9, <1>11, <1>12 DEF P!Begin, IDs

LEMMA EndLinkPages ==
  ASSUME IInv, IInv', NEW p \in Passes, NEW k \in DOMAIN worker[p], EndLink(p, k)
  PROVE  P!Finish(p)
<1>1. /\ worker[p][k] = "busy" /\ worker' = [worker EXCEPT ![p][k] = "loop"]
      /\ UNCHANGED <<links, pc, lastID, chunks, visits>>
  BY DEF EndLink, table
<1>2. worker'[p] = [worker[p] EXCEPT ![k] = "loop"] BY <1>1 DEF IInv, TypeOK
<1>3. \A q \in Passes : q # p => UNCHANGED <<chunks[q], worker[q], visits[q]>>
  BY <1>1 DEF IInv, TypeOK
<1>4. InChunks(p)' = InChunks(p) /\ {x \in IDs : visits'[p][x] > 0} = {x \in IDs : visits[p][x] > 0}
  BY <1>1 DEF InChunks
<1>5. Busy(p)' = Busy(p) \ {k} /\ k \in Busy(p) BY <1>1, <1>2 DEF Busy
<1>6. Cardinality(Busy(p)') = Cardinality(Busy(p)) - 1 /\ Cardinality(Busy(p)) > 0
  <2>1. Cardinality(Busy(p)') = Cardinality(Busy(p)) - 1
    BY <1>5, BusyIsFinite, FS_RemoveElement DEF IInv
  <2>2. Cardinality(Busy(p)) # 0 BY <1>5, BusyIsFinite, FS_EmptySet DEF IInv
  <2> QED BY <2>1, <2>2, BusyIsFinite DEF IInv
<1>7. pc[p] = "run" BY <1>1, WorkersRunInRun
<1>8. /\ \A q \in Passes : InChunks(q)' = InChunks(q)
      /\ [q \in Passes |-> Cardinality(Busy(q)')] =
            [[q \in Passes |-> Cardinality(Busy(q))] EXCEPT ![p] = Cardinality(Busy(p)) - 1]
  BY <1>3, <1>4, <1>6, OthersSeen
<1> QED BY <1>1, <1>6, <1>7, <1>8 DEF P!Finish, IDs

LEMMA WorkerDonePages ==
  ASSUME IInv, IInv', NEW p \in Passes, NEW k \in DOMAIN worker[p], WorkerDone(p, k)
  PROVE  UNCHANGED P!vars
<1>1. /\ worker[p][k] = "loop" /\ worker' = [worker EXCEPT ![p][k] = "done"]
      /\ UNCHANGED <<links, pc, lastID, chunks, visits>>
  BY DEF WorkerDone, table
<1>2. worker'[p] = [worker[p] EXCEPT ![k] = "done"] BY <1>1 DEF IInv, TypeOK
<1>3. \A q \in Passes : q # p => worker'[q] = worker[q]
  BY <1>1 DEF IInv, TypeOK
<1>4. \A q \in Passes : Busy(q)' = Busy(q) BY <1>1, <1>2, <1>3 DEF Busy
<1>5. \A q \in Passes : InChunks(q)' = InChunks(q) BY <1>1 DEF InChunks
<1> QED BY <1>1, <1>4, <1>5 DEF P!vars, P!pass, IDs

LEMMA WaitPages ==
  ASSUME IInv, IInv', NEW p \in Passes, Wait(p)
  PROVE  P!ReadOn(p)
<1>1. pc[p] = "run" /\ pc' = [pc EXCEPT ![p] = "fetch"]
      /\ UNCHANGED <<links, lastID, chunks, worker, visits>>
  BY DEF Wait, table
<1>2. InChunks(p) = {} /\ Busy(p) = {} BY ZeroMeansAllDone, AllDoneIsNothing DEF Wait
<1>3. Cardinality(Busy(p)) = 0 BY <1>2, FS_EmptySet
<1>4. \A q \in Passes : InChunks(q)' = InChunks(q) /\ Busy(q)' = Busy(q)
  BY <1>1 DEF InChunks, Busy
<1> QED BY <1>1, <1>2, <1>3, <1>4 DEF P!ReadOn, P!GoTo, IDs

(* Whatever Batch and Workers are and however the table changes: a pass takes the rows
   page by page without gaps, begins every link of a page once, never has more than
   config.Workers under way, and reads on only when it is through with all of them. *)
THEOREM MonitorImplementsPaging == Spec => ImplementsPaging
<1>1. ASSUME IInv, IInv', Next PROVE [P!Next]_(P!vars)
  <2>1. CASE InsertRow \/ \E id \in IDs : CommitRow(id) \/ AbortRow(id) \/ RemoveRow(id)
    BY <1>1, <2>1, TablePages DEF P!Next
  <2>2. ASSUME NEW p \in Passes, Tick(p) \/ GetBatchFails(p) PROVE P!Step(p)
    <3>1. UNCHANGED <<links, lastID, chunks, worker, visits>>
      BY <2>2 DEF Tick, GetBatchFails, table
    <3>2. \A q \in Passes : InChunks(q)' = InChunks(q) /\ Busy(q)' = Busy(q)
      BY <3>1 DEF InChunks, Busy
    <3>3. ASSUME Tick(p) PROVE P!Start(p)
      <4>1. pc[p] = "idle" /\ pc' = [pc EXCEPT ![p] = IF Workers > 0 THEN "fetch" ELSE "done"]
        <5>1. Workers <= 0 <=> ~(Workers > 0) BY MonitorAssumption
        <5> QED BY <3>3, <5>1 DEF Tick
      <4> QED BY <3>1, <3>2, <4>1 DEF P!Start, P!GoTo
    <3>4. ASSUME GetBatchFails(p) PROVE P!Cut(p)
      BY <3>1, <3>2, <3>4 DEF GetBatchFails, P!Cut, P!GoTo
    <3> QED BY <2>2, <3>3, <3>4 DEF P!Step
  <2>3. ASSUME NEW p \in Passes, PassStep(p) PROVE P!Step(p) \/ UNCHANGED P!vars
    <3>1. CASE \E limit \in {Batch} \cup 1..Batch : GetBatch(p, limit)
      BY <1>1, <3>1, GetBatchPages
    <3>2. CASE GetBatchFails(p) BY <2>2, <3>2
    <3>3. CASE WorkerStep(p)
      BY <1>1, <3>3, BeginLinkPages, EndLinkPages, WorkerDonePages DEF WorkerStep, P!Step
    <3>4. CASE Wait(p) BY <1>1, <3>4, WaitPages DEF P!Step
    <3> QED BY <2>3, <3>1, <3>2, <3>3, <3>4 DEF PassStep
  <2> QED BY <1>1, <2>1, <2>2, <2>3 DEF Next, P!Next
<1>2. ASSUME UNCHANGED vars PROVE UNCHANGED P!vars
  <2>1. UNCHANGED <<links, pc, lastID, chunks, worker, visits>>
    BY <1>2 DEF vars, table, pass
  <2>2. \A q \in Passes : InChunks(q)' = InChunks(q) /\ Busy(q)' = Busy(q)
    BY <2>1 DEF InChunks, Busy
  <2> QED BY <2>1, <2>2 DEF P!vars, P!pass, IDs
<1>3. IInv /\ IInv' /\ [Next]_vars => [P!Next]_(P!vars) BY <1>1, <1>2
<1> QED BY <1>3, InitPages, Invariance, PTL DEF Spec, ImplementsPaging, P!Spec

=============================================================================
