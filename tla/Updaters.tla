------------------------------ MODULE Updaters ------------------------------
(***************************************************************************)
(* What the updaters (scrapper/api) make of the answer of GitHub's search  *)
(* or of StackOverflow's list.  An answer is a set of items, created[i]    *)
(* the second in which item i came to be, prev the link's changed_at.      *)
(* The news is what the message tells; last is the time saved for the link.*)
(***************************************************************************)
EXTENDS Naturals

(* The search asks for what was updated since prev; only what was created since
   then is new. *)
GithubNews(answer, created, prev) == {i \in answer : created[i] > prev}

(* Mutant: the second after the newest item. *)
GithubLastPast(news, created, prev) ==
  CHOOSE t \in {created[i] + 1 : i \in news} : \A i \in news : created[i] < t

(* The newest of them; with no news GetUpdates' time is not used. *)
GithubLast(news, created, prev) ==
  CHOOSE t \in {prev} \cup {created[i] : i \in news} :
    /\ prev <= t
    /\ \A i \in news : created[i] <= t

(* The request says fromdate: the whole answer is news. *)
StackoverflowNews(answer, created, prev) == answer

(* The list comes newest first and the loop assigns the time of each item in
   turn: what remains is the time of the oldest. *)
StackoverflowLast(news, created, prev) ==
  CHOOSE t \in {created[i] : i \in news} : \A i \in news : t <= created[i]
=============================================================================
