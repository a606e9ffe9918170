------------------------------ MODULE Monitor -------------------------------
(***************************************************************************)
(* The monitoring pass of the scrapper (scrapper/server.go, monitorLinks): *)
(* every two minutes a new goroutine pages through the table of links,     *)
(* hands each page to worker goroutines in chunks and waits for them on a  *)
(* WaitGroup before it reads the next page.  Passes overlap when one takes *)
(* longer than the interval, and the table changes under them.             *)
(*                                                                         *)
(* What a worker does with one link (processLink) is here the pair of its  *)
(* beginning and its return.                                               *)
(***************************************************************************)
EXTENDS Chunks, Sequences

CONSTANTS
  Batch,     \* config.Batch, any integer of the environment
  Workers,   \* config.Workers, likewise
  Passes,    \* the passes the scheduler starts (a bound)
  MaxID      \* the ids the links table can hand out (a bound)

ASSUME MonitorAssumption == Batch \in Int /\ Workers \in Int /\ MaxID \in Nat

VARIABLES
  links,     \* ids of the committed rows of the table links
  inserting, \* ids drawn by INSERTs whose transaction is still open
  nextID,    \* the next id of the identity column
  pc,        \* pc[p]: where pass p is; "cut" is a return after a failed query
  lastID,    \* lastID[p]: the id the next page starts after
  chunks,    \* chunks[p][k]: what worker k of pass p has still to begin
  worker,    \* worker[p][k]: where that worker is
  wg,        \* wg[p]: the counter of the pass's WaitGroup
  visits,    \* history: visits[p][id], how often pass p began processLink(id)
  startRows  \* history: the rows committed when pass p began

table == <<links, inserting, nextID>>
pass  == <<pc, lastID, chunks, worker, wg, visits, startRows>>
vars  == <<table, pass>>

IDs == 1..MaxID

Done(p) == {k \in DOMAIN worker[p] : worker[p][k] = "done"}

TypeOK ==
  /\ links \subseteq IDs
  /\ inserting \subseteq IDs
  /\ nextID \in 1..(MaxID + 1)
  /\ pc \in [Passes -> {"idle", "fetch", "run", "done", "cut"}]
  /\ lastID \in [Passes -> 0..MaxID]
  /\ chunks \in [Passes -> Seq(SUBSET IDs)]
  /\ worker \in [Passes -> Seq({"loop", "busy", "done"})]
  /\ wg \in [Passes -> Int]
  /\ visits \in [Passes -> [IDs -> Nat]]
  /\ startRows \in [Passes -> SUBSET IDs]

(* The scrapper may start on a table of earlier runs, with gaps in it. *)
Init ==
  /\ nextID \in 1..(MaxID + 1)
  /\ links \in SUBSET (1..(nextID - 1))
  /\ inserting = {}
  /\ pc = [p \in Passes |-> "idle"]
  /\ lastID = [p \in Passes |-> 0]
  /\ chunks = [p \in Passes |-> <<>>]
  /\ worker = [p \in Passes |-> <<>>]
  /\ wg = [p \in Passes |-> 0]
  /\ visits = [p \in Passes |-> [id \in IDs |-> 0]]
  /\ startRows = [p \in Passes |-> {}]

-----------------------------------------------------------------------------
(* The table, as requests to the scrapper change it. *)

(* AddLink's INSERT INTO links draws an id; its row is not yet visible. *)
InsertRow ==
  /\ nextID <= MaxID
  /\ inserting' = inserting \cup {nextID}
  /\ nextID' = nextID + 1
  /\ UNCHANGED <<links, pass>>

CommitRow(id) ==
  /\ id \in inserting
  /\ inserting' = inserting \ {id}
  /\ links' = links \cup {id}
  /\ UNCHANGED <<nextID, pass>>

(* The transaction fails after the INSERT; the id is not given back. *)
AbortRow(id) ==
  /\ id \in inserting
  /\ inserting' = inserting \ {id}
  /\ UNCHANGED <<links, nextID, pass>>

(* RemoveLink deletes the row of a link that nobody tracks any more. *)
RemoveRow(id) ==
  /\ id \in links
  /\ links' = links \ {id}
  /\ UNCHANGED <<inserting, nextID, pass>>

-----------------------------------------------------------------------------
(* The pass. *)

(* The scheduler starts the goroutine; it returns at once when the number
   of workers is not positive. *)
Tick(p) ==
  /\ pc[p] = "idle"
  /\ pc' = [pc EXCEPT ![p] = IF Workers <= 0 THEN "done" ELSE "fetch"]
  /\ startRows' = [startRows EXCEPT ![p] = links]
  /\ UNCHANGED <<table, lastID, chunks, worker, wg, visits>>

(* Mutant: the next page is to start one id further. *)
CursorPast(last) == last + 1

(* The function returns the id of the last row it read. *)
Cursor(last) == last

(* GetBatchOfLinks answers and the loop's condition is evaluated: an empty
   page ends the pass, another one is split, wg.Add(config.Workers) is
   called and one goroutine is started per chunk.  limit is config.Batch, or
   less when the connection breaks among the rows: rows.Err() is not asked. *)
GetBatch(p, limit) ==
  LET page == GetBatchOfLinks(links, lastID[p], limit)
  IN  /\ pc[p] = "fetch"
      /\ \/ /\ page = {}
            /\ pc' = [pc EXCEPT ![p] = "done"]
            /\ UNCHANGED <<lastID, chunks, worker, wg>>
         \/ \E last \in page :
              /\ \A id \in page : id <= last
              /\ pc' = [pc EXCEPT ![p] = "run"]
              /\ lastID' = [lastID EXCEPT ![p] = Cursor(last)]
              /\ chunks' = [chunks EXCEPT ![p] = splitIntoChunks(page, Workers)]
              /\ worker' = [worker EXCEPT ![p] =
                              [k \in 1..ChunkCount(Cardinality(page), Workers) |-> "loop"]]
              /\ wg' = [wg EXCEPT ![p] = Workers]
      /\ UNCHANGED <<table, visits, startRows>>

(* The query fails: an empty list, which the pass takes for the end. *)
GetBatchFails(p) ==
  /\ pc[p] = "fetch"
  /\ pc' = [pc EXCEPT ![p] = "cut"]
  /\ UNCHANGED <<table, lastID, chunks, worker, wg, visits, startRows>>

(* Worker k takes the next link of its chunk and enters processLink. *)
BeginLink(p, k) ==
  /\ worker[p][k] = "loop"
  /\ \E id \in chunks[p][k] :
       /\ \A x \in chunks[p][k] : id <= x
       /\ chunks' = [chunks EXCEPT ![p][k] = @ \ {id}]
       /\ visits' = [visits EXCEPT ![p][id] = @ + 1]
  /\ worker' = [worker EXCEPT ![p][k] = "busy"]
  /\ UNCHANGED <<table, pc, lastID, wg, startRows>>

(* processLink returns, with whatever outcome: it reports none. *)
EndLink(p, k) ==
  /\ worker[p][k] = "busy"
  /\ worker' = [worker EXCEPT ![p][k] = "loop"]
  /\ UNCHANGED <<table, pc, lastID, chunks, wg, visits, startRows>>

(* Mutant: the goroutine returns without wg.Done(). *)
WorkerReturns(p, k) ==
  /\ worker[p][k] = "loop"
  /\ chunks[p][k] = {}
  /\ worker' = [worker EXCEPT ![p][k] = "done"]
  /\ UNCHANGED <<table, pc, lastID, chunks, wg, visits, startRows>>

(* The chunk is used up: the deferred wg.Done(). *)
WorkerDone(p, k) ==
  /\ worker[p][k] = "loop"
  /\ chunks[p][k] = {}
  /\ worker' = [worker EXCEPT ![p][k] = "done"]
  /\ wg' = [wg EXCEPT ![p] = @ - 1]
  /\ UNCHANGED <<table, pc, lastID, chunks, visits, startRows>>

(* Mutant: the pass goes on while one worker is still out. *)
WaitForAllButOne(p) ==
  /\ pc[p] = "run"
  /\ wg[p] <= 1
  /\ pc' = [pc EXCEPT ![p] = "fetch"]
  /\ UNCHANGED <<table, lastID, chunks, worker, wg, visits, startRows>>

(* wg.Wait() returns and the loop goes on to the next page. *)
Wait(p) ==
  /\ pc[p] = "run"
  /\ wg[p] = 0
  /\ pc' = [pc EXCEPT ![p] = "fetch"]
  /\ UNCHANGED <<table, lastID, chunks, worker, wg, visits, startRows>>

WorkerStep(p) ==
  \E k \in DOMAIN worker[p] : BeginLink(p, k) \/ EndLink(p, k) \/ WorkerDone(p, k)

PassStep(p) ==
  \/ \E limit \in {Batch} \cup 1..Batch : GetBatch(p, limit)
  \/ GetBatchFails(p) \/ WorkerStep(p) \/ Wait(p)

Next ==
  \/ InsertRow
  \/ \E id \in IDs : CommitRow(id) \/ AbortRow(id) \/ RemoveRow(id)
  \/ \E p \in Passes : Tick(p) \/ PassStep(p)

Spec == Init /\ [][Next]_vars

(* A started goroutine is scheduled, the database answers, and processLink
   returns: its HTTP clients and queries end. *)
FairSpec == Spec /\ \A p \in Passes : WF_vars(PassStep(p))

-----------------------------------------------------------------------------
(* The WaitGroup counts the slots of config.Workers that no worker has given
   back; it never goes below zero, which would panic (sync.WaitGroup). *)
WaitGroupExact ==
  \A p \in Passes : pc[p] = "run" =>
    /\ wg[p] = Workers - Cardinality(Done(p))
    /\ wg[p] >= 0

(* No worker goroutine of a pass is alive while the pass reads a page or
   after it has returned: the barrier of wg.Wait() in monitorLinks. *)
BarrierHolds ==
  \A p \in Passes : pc[p] # "run" => Done(p) = DOMAIN worker[p]

(* A pass processes a link at most once, whatever is inserted, committed late
   or removed while it pages (GetBatchOfLinks by id, splitIntoChunks). *)
OncePerPass == \A p \in Passes, id \in IDs : visits[p][id] <= 1

(* A pass that is not cut short by an error leaves out no link that was there
   when it began and still is: those up to lastID at every page, all of them at
   the end.  (With BATCH or NUMBER_OF_WORKERS not positive a pass does nothing.) *)
NothingSkipped ==
  Batch > 0 /\ Workers > 0 =>
    \A p \in Passes, id \in IDs :
      /\ id \in startRows[p] \cap links
      /\ pc[p] = "done" \/ (pc[p] = "fetch" /\ id <= lastID[p])
      => visits[p][id] > 0

(* A pass goes past wg.Wait() only when as many chunks as there are workers
   existed and all were worked off: a page that splits into fewer chunks than
   config.Workers is the last thing a pass ever reads (monitorLinks). *)
WaitNeedsEveryWorker ==
  [][\A p \in Passes : pc[p] = "run" /\ pc'[p] # "run" => Done(p) = 1..Workers]_vars

(* A page that splits into config.Workers chunks is worked off and waited for. *)
FullSplitReturns ==
  \A p \in Passes :
    (pc[p] = "run" /\ Len(worker[p]) = Workers) ~> pc[p] # "run"

(* What the configuration check promises ("Invalid number of workers, it must
   be greater than zero": any positive number is fine) and /track's help text
   tells the user: a pass that begins comes to its end. *)
PassReturns == \A p \in Passes : pc[p] = "fetch" ~> pc[p] \in {"done", "cut"}
-----------------------------------------------------------------------------
(* The pass as the rest of the program knows it. *)

InChunks(p) == UNION {chunks[p][k] : k \in DOMAIN chunks[p]}

Busy(p) == {k \in DOMAIN worker[p] : worker[p][k] = "busy"}

P == INSTANCE Paging WITH
       Limit    <- Batch,
       AtOnce   <- Workers,
       state    <- pc,
       last     <- lastID,
       todo     <- [p \in Passes |-> InChunks(p)],
       underway <- [p \in Passes |-> Cardinality(Busy(p))],
       visited  <- [p \in Passes |-> {id \in IDs : visits[p][id] > 0}]

(* Chunks, workers and the WaitGroup make up a pass that takes the table page by page,
   every link of a page once, no more at once than config.Workers, and none left when
   the next page is read (monitorLinks, processChunk). *)
ImplementsPaging == P!Spec

=============================================================================
