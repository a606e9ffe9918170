------------------------------- MODULE Paging -------------------------------
(***************************************************************************)
(* What a monitoring pass is to the rest of the program, whatever chunks,  *)
(* goroutines and counters it is made of (monitorLinks): it takes the rows *)
(* of the table in pages that follow each other, without gaps; it begins   *)
(* each link of a page once, in any order, with at most AtOnce of them     *)
(* under way; and it reads on only when it has finished all of them.       *)
(***************************************************************************)
EXTENDS Integers, FiniteSets

CONSTANTS
  IDs,      \* the ids rows may have, positive
  Passes,
  Limit,    \* the longest page
  AtOnce    \* how many links of a pass may be under way

VARIABLES
  links,    \* the rows one can see
  state,    \* state[p]: "idle", "fetch", "run", "done" or, after a failed query, "cut"
  last,     \* last[p]: the last id of the page read last
  todo,     \* todo[p]: the links of that page that are not begun
  underway, \* underway[p]: how many are begun and not finished
  visited   \* visited[p]: what the pass has begun so far

pass == <<state, last, todo, underway, visited>>
vars == <<links, pass>>

Init ==
  /\ links \in SUBSET IDs
  /\ state = [p \in Passes |-> "idle"]
  /\ last = [p \in Passes |-> 0]
  /\ todo = [p \in Passes |-> {}]
  /\ underway = [p \in Passes |-> 0]
  /\ visited = [p \in Passes |-> {}]

(* Requests to the scrapper commit and delete rows. *)
Change ==
  /\ links' \in SUBSET IDs
  /\ UNCHANGED pass

GoTo(p, st) == state' = [state EXCEPT ![p] = st]

Start(p) ==
  /\ state[p] = "idle"
  /\ GoTo(p, IF AtOnce > 0 THEN "fetch" ELSE "done")
  /\ UNCHANGED <<links, last, todo, underway, visited>>

(* The rows that follow the last page, up to one of them. *)
PageUpTo(p, top) == {id \in links : last[p] < id /\ id <= top}

Read(p) ==
  /\ state[p] = "fetch"
  /\ \E top \in links :
       /\ last[p] < top
       /\ Cardinality(PageUpTo(p, top)) <= Limit
       /\ todo' = [todo EXCEPT ![p] = PageUpTo(p, top)]
       /\ last' = [last EXCEPT ![p] = top]
  /\ GoTo(p, "run")
  /\ UNCHANGED <<links, underway, visited>>

End(p) ==
  /\ state[p] = "fetch"
  /\ Limit > 0 => \A id \in links : id <= last[p]
  /\ GoTo(p, "done")
  /\ UNCHANGED <<links, last, todo, underway, visited>>

Cut(p) ==
  /\ state[p] = "fetch"
  /\ GoTo(p, "cut")
  /\ UNCHANGED <<links, last, todo, underway, visited>>

Begin(p, id) ==
  /\ state[p] = "run"
  /\ id \in todo[p]
  /\ underway[p] < AtOnce
  /\ todo' = [todo EXCEPT ![p] = @ \ {id}]
  /\ underway' = [underway EXCEPT ![p] = @ + 1]
  /\ visited' = [visited EXCEPT ![p] = @ \cup {id}]
  /\ UNCHANGED <<links, state, last>>

Finish(p) ==
  /\ state[p] = "run"
  /\ underway[p] > 0
  /\ underway' = [underway EXCEPT ![p] = @ - 1]
  /\ UNCHANGED <<links, state, last, todo, visited>>

ReadOn(p) ==
  /\ state[p] = "run"
  /\ todo[p] = {} /\ underway[p] = 0
  /\ GoTo(p, "fetch")
  /\ UNCHANGED <<links, last, todo, underway, visited>>

Step(p) ==
  \/ Start(p) \/ Read(p) \/ End(p) \/ Cut(p)
  \/ \E id \in IDs : Begin(p, id)
  \/ Finish(p) \/ ReadOn(p)

Next == Change \/ \E p \in Passes : Step(p)

Spec == Init /\ [][Next]_vars
=============================================================================
