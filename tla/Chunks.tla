------------------------------- MODULE Chunks -------------------------------
(***************************************************************************)
(* How a pass of the scrapper cuts the table of links: GetBatchOfLinks     *)
(* pages through it by id, splitIntoChunks cuts one page into the parts    *)
(* that the workers get.  A page is the set of its ids: the query orders   *)
(* by id, so the place of a row in the page is its rank in that set.       *)
(***************************************************************************)
EXTENDS Integers, FiniteSets

(* The place of id in the page ids, from 1. *)
Rank(ids, id) == Cardinality({x \in ids : x <= id})

(* Mutant: WHERE id >= after. *)
GetBatchFromCursor(rows, after, limit) ==
  LET above == {id \in rows : id >= after}
  IN  {id \in above : Rank(above, id) <= limit}

(* SELECT id FROM links WHERE id > after ORDER BY id LIMIT limit.  A limit
   of zero selects nothing; a negative one is an error, which the function
   also answers with an empty list. *)
GetBatchOfLinks(rows, after, limit) ==
  LET above == {id \in rows : id > after}
  IN  {id \in above : Rank(above, id) <= limit}

(* math.Ceil(float64(a) / float64(b)): exact while a and b are far below
   2^53, and they are sizes of a page. *)
CeilDiv(a, b) == (a + b - 1) \div b

(* Mutant: the quotient rounded down. *)
FloorChunkSize(len, numChunks) == IF len < numChunks THEN 1 ELSE len \div numChunks

ChunkSize(len, numChunks) == CeilDiv(len, numChunks)

(* The loop "for i := 0; i < len(links); i += chunkSize" runs this often. *)
ChunkCount(len, numChunks) == CeilDiv(len, ChunkSize(len, numChunks))

(* Mutant: links[i : end-1]. *)
splitShort(ids, numChunks) ==
  LET len  == Cardinality(ids)
      size == ChunkSize(len, numChunks)
  IN  [k \in 1..ChunkCount(len, numChunks) |->
         {id \in ids : (k - 1) * size < Rank(ids, id) /\ Rank(ids, id) < k * size}]

(* The k-th chunk is links[(k-1)*chunkSize : min(k*chunkSize, len(links))]. *)
splitIntoChunks(ids, numChunks) ==
  LET len  == Cardinality(ids)
      size == ChunkSize(len, numChunks)
  IN  [k \in 1..ChunkCount(len, numChunks) |->
         {id \in ids : (k - 1) * size < Rank(ids, id) /\ Rank(ids, id) <= k * size}]
=============================================================================
