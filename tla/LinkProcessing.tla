--------------------------- MODULE LinkProcessing ---------------------------
(***************************************************************************)
(* One link in the hands of the scrapper's workers (scrapper/server.go,    *)
(* processLink): read changed_at, ask the updater for what came since,     *)
(* save the new time, read the chats, post the update to the bot, which    *)
(* sends it to a chat.  Passes overlap, so that several workers may be at  *)
(* the link at once; it may be removed and added again under them; every   *)
(* call may fail and the process may die between any two.                  *)
(*                                                                         *)
(* Monitor has the passes and SqlStore the storage's transactions; here    *)
(* the table has one URL, with its row's changed_at and its chats.  Time   *)
(* counts seconds, which is what the sources' dates resolve.  The scrapper *)
(* and PostgreSQL run in UTC, as their containers do.                      *)
(***************************************************************************)
EXTENDS Updaters, FiniteSets

CONSTANTS
  Sources,   \* of "github" and "stackoverflow", those the link may be of
  Items,     \* what may be published there (a bound)
  PageSize,  \* how many items the source puts into one answer
  Chats,
  Workers,   \* workers at the link at once (a bound on overlapping passes)
  MaxTime,   \* a bound on the clock
  MaxRow     \* a bound on the rows the URL gets, one after the other

ASSUME LinkAssumption ==
  /\ Sources \subseteq {"github", "stackoverflow"}
  /\ IsFiniteSet(Items)
  /\ PageSize \in Nat \ {0} /\ MaxTime \in Nat \ {0} /\ MaxRow \in Nat

VARIABLES
  source,    \* where the link leads
  clock,
  created,   \* created[i]: when item i was published, 0 when it is not yet
  row,       \* the id of the link's row in the table links, 0 without one
  maxRow,    \* the last id given
  changedAt, \* its changed_at
  subs,      \* the chats subscribed to it
  ready,     \* InitUpdaters has filled the map of updaters
  pc,        \* pc[w]: the next call of worker w
  id,        \* id[w]: link.ID of the page it works on
  prev,      \* prev[w]: prevTime
  news,      \* news[w]: the items msg tells
  last,      \* last[w]: lastUpdateTime
  ids,       \* ids[w]: IDs
  told,      \* history: told[c][i], how often chat c was sent item i (2: or more)
  due,       \* history: the items that somebody must still be told of
  again,     \* history: items a second message may tell, for a known reason
  beyond     \* history: items told along with a time that does not reach them

item    == <<source, clock, created>>
link    == <<row, maxRow, changedAt, subs>>
worker  == <<pc, id, prev, news, last, ids>>
history == <<told, due, again, beyond>>
vars    == <<item, link, ready, worker, history>>

Times == 0..MaxTime

TypeOK ==
  /\ source \in Sources
  /\ clock \in Times /\ created \in [Items -> Times]
  /\ maxRow \in 0..MaxRow /\ row \in {0, maxRow}
  /\ changedAt \in Times
  /\ subs \subseteq Chats
  /\ ready \in BOOLEAN
  /\ pc \in [Workers -> {"idle", "prev", "ask", "save", "chats", "send"}]
  /\ id \in [Workers -> 0..MaxRow]
  /\ prev \in [Workers -> Times] /\ last \in [Workers -> Times]
  /\ news \in [Workers -> SUBSET Items]
  /\ ids \in [Workers -> SUBSET Chats]
  /\ told \in [Chats -> [Items -> 0..2]]
  /\ due \subseteq Items /\ again \subseteq Items /\ beyond \subseteq Items

Init ==
  /\ source \in Sources
  /\ clock = 1 /\ created = [i \in Items |-> 0]
  /\ row = 0 /\ maxRow = 0 /\ changedAt = 0 /\ subs = {}
  /\ ready = FALSE
  /\ pc = [w \in Workers |-> "idle"]
  /\ id = [w \in Workers |-> 0]
  /\ prev = [w \in Workers |-> 0] /\ last = [w \in Workers |-> 0]
  /\ news = [w \in Workers |-> {}]
  /\ ids = [w \in Workers |-> {}]
  /\ told = [c \in Chats |-> [i \in Items |-> 0]]
  /\ due = {} /\ again = {} /\ beyond = {}

Published == {i \in Items : created[i] > 0}

-----------------------------------------------------------------------------
(* The source, and the chats' requests to the scrapper. *)

ClockTicks ==
  /\ clock < MaxTime
  /\ clock' = clock + 1
  /\ UNCHANGED <<source, created, link, ready, worker, history>>

(* The current second is covered by changed_at, or by the times a worker has in
   hand that will become changed_at: what is published in it from now on is not
   asked for any more, dates having no fractions. *)
Covered ==
  \/ changedAt >= clock
  \/ \E w \in Workers : \/ pc[w] = "ask" /\ prev[w] >= clock
                        \/ pc[w] = "save" /\ last[w] >= clock

(* An item is due if the link is tracked and its second not covered. *)
Publish(i) ==
  /\ created[i] = 0
  /\ created' = [created EXCEPT ![i] = clock]
  /\ due' = IF row = 0 \/ Covered THEN due ELSE due \cup {i}
  /\ UNCHANGED <<source, clock, link, ready, worker, told, again, beyond>>

(* A new row has changed_at = NOW(); a second chat joins the row (as the other
   storage lets it, or when its AddLink overtook the first one's commit). *)
AddLink(c) ==
  /\ \/ /\ row = 0 /\ maxRow < MaxRow
        /\ maxRow' = maxRow + 1 /\ row' = maxRow + 1
        /\ changedAt' = clock
     \/ /\ row # 0
        /\ UNCHANGED <<row, maxRow, changedAt>>
  /\ subs' = subs \cup {c}
  /\ UNCHANGED <<item, ready, worker, history>>

(* With the last chat the row goes, or stays when that statement fails. *)
RemoveLink(c) ==
  /\ c \in subs
  /\ subs' = subs \ {c}
  /\ \/ UNCHANGED <<row, changedAt, due>>
     \/ subs' = {} /\ row' = 0 /\ changedAt' = 0 /\ due' = {}
  /\ UNCHANGED <<item, maxRow, ready, worker, told, again, beyond>>

-----------------------------------------------------------------------------
(* The process: Start schedules the first pass, then fills the map. *)

InitUpdaters ==
  /\ ~ready
  /\ ready' = TRUE
  /\ UNCHANGED <<item, link, worker, history>>

Saved(w) == IF pc[w] \in {"chats", "send"} THEN news[w] ELSE {}

(* The scrapper dies and is started again. *)
Crash ==
  /\ ready' = FALSE
  /\ pc' = [w \in Workers |-> "idle"]
  /\ id' = [w \in Workers |-> 0]
  /\ prev' = [w \in Workers |-> 0] /\ last' = [w \in Workers |-> 0]
  /\ news' = [w \in Workers |-> {}]
  /\ ids' = [w \in Workers |-> {}]
  /\ due' = due \ UNION {Saved(w) : w \in Workers}
  /\ UNCHANGED <<item, link, told, again, beyond>>

-----------------------------------------------------------------------------
(* processLink. *)

(* A local that is not read any more is set back. *)
GoTo(w, step) == pc' = [pc EXCEPT ![w] = step]

Return(w) ==
  /\ GoTo(w, "idle")
  /\ id' = [id EXCEPT ![w] = 0]
  /\ prev' = [prev EXCEPT ![w] = 0] /\ last' = [last EXCEPT ![w] = 0]
  /\ news' = [news EXCEPT ![w] = {}]
  /\ ids' = [ids EXCEPT ![w] = {}]

(* A worker of some pass comes to the link, which its page had. *)
processLink(w) ==
  /\ pc[w] = "idle" /\ row # 0
  /\ GoTo(w, "prev")
  /\ id' = [id EXCEPT ![w] = row]
  /\ UNCHANGED <<item, link, ready, prev, news, last, ids, history>>

(* Without the row, and after an error, the answer is the zero time: everything
   the source has is then news. *)
GetPreviousUpdate(w) ==
  /\ pc[w] = "prev"
  /\ \E t \in {0} \cup (IF id[w] = row THEN {changedAt} ELSE {}) :
       /\ prev' = [prev EXCEPT ![w] = t]
       /\ again' = IF t = 0 THEN again \cup Published ELSE again
  /\ GoTo(w, "ask")
  /\ UNCHANGED <<item, link, ready, id, news, last, ids, told, due, beyond>>

(* Mutant: fromdate without the second that GetResponse adds. *)
SinceThen(t) == {i \in Published : created[i] >= t}

(* What the source's answer may be.  GitHub finds what was updated since, later
   comments included, and answers with a page of the best matches, or with less
   when its search ran out of time; StackOverflow with a page of the newest. *)
Since(t) == {i \in Published : created[i] > t}

Answers(t) ==
  IF source = "github" THEN {page \in SUBSET Published : Cardinality(page) <= PageSize}
  ELSE {page \in SUBSET Since(t) :
          /\ IF page = Since(t) THEN Cardinality(page) <= PageSize
                                ELSE Cardinality(page) = PageSize
          /\ \A i \in page, j \in Since(t) \ page : created[i] >= created[j]}

News(answer, t) == IF source = "github" THEN GithubNews(answer, created, t)
                                        ELSE StackoverflowNews(answer, created, t)
Last(items, t)  == IF source = "github" THEN GithubLast(items, created, t)
                                        ELSE StackoverflowLast(items, created, t)

(* GetUpdates answers: without a message processLink returns.  What the answer
   left out and its time covers is not waited for any more. *)
GetUpdates(w) ==
  /\ pc[w] = "ask" /\ ready
  /\ \E answer \in Answers(prev[w]) :
       LET found == News(answer, prev[w])
           time  == Last(found, prev[w])
       IN  IF found = {} THEN Return(w) /\ UNCHANGED due
           ELSE /\ news' = [news EXCEPT ![w] = found]
                /\ last' = [last EXCEPT ![w] = time]
                /\ due' = due \ {i \in Since(prev[w]) \ answer : created[i] <= time}
                /\ GoTo(w, "save")
                /\ UNCHANGED <<id, prev, ids>>
  /\ UNCHANGED <<item, link, ready, told, again, beyond>>

(* The source does not answer, or not as expected: no message. *)
GetUpdatesFails(w) ==
  /\ pc[w] = "ask" /\ ready
  /\ Return(w)
  /\ UNCHANGED <<item, link, ready, history>>

(* The map has no updater yet: a nil one is called and the process dies. *)
NilUpdater(w) == pc[w] = "ask" /\ ~ready /\ Crash

(* Mutant: the time of the save is saved. *)
SavesNow(w) == /\ changedAt' = IF id[w] = row THEN clock ELSE changedAt
               /\ UNCHANGED <<again, beyond>>

(* UPDATE links SET changed_at, whatever it has become since it was read.  News
   that it has come to cover is told twice, and what it covers no more as well;
   so is news of a row that is gone, when another row has its own time.  News that
   is newer than last comes again with the next answer. *)
SaveLastUpdate(w) ==
  LET fresh == {i \in news[w] : created[i] > prev[w]}
  IN  IF id[w] = row
      THEN /\ changedAt' = last[w]
           /\ again' = again \cup {i \in Published : /\ created[i] <= changedAt
                                                    /\ (i \in fresh \/ created[i] > last[w])}
           /\ beyond' = beyond \cup {i \in news[w] : created[i] > last[w]}
      ELSE /\ again' = again \cup fresh
           /\ UNCHANGED <<changedAt, beyond>>

Save(w) ==
  /\ pc[w] = "save"
  /\ SaveLastUpdate(w)
  /\ id' = [id EXCEPT ![w] = 0]
  /\ prev' = [prev EXCEPT ![w] = 0] /\ last' = [last EXCEPT ![w] = 0]
  /\ GoTo(w, "chats")
  /\ UNCHANGED <<item, row, maxRow, subs, ready, news, ids, told, due>>

(* An error, which ends processLink: the time may be saved all the same. *)
SaveFails(w) ==
  /\ pc[w] = "save"
  /\ \/ SaveLastUpdate(w) /\ due' = due \ news[w]
     \/ UNCHANGED <<changedAt, again, beyond, due>>
  /\ Return(w)
  /\ UNCHANGED <<item, row, maxRow, subs, ready, told>>

(* The chats are found by the URL.  An error hides all of them, a connection that
   breaks among the rows some.  With none processLink returns. *)
GetTgChatIDsForLink(w) ==
  /\ pc[w] = "chats"
  /\ \E chats \in SUBSET subs :
       IF chats = {} THEN Return(w) /\ due' = due \ news[w]
       ELSE /\ ids' = [ids EXCEPT ![w] = chats]
            /\ GoTo(w, "send")
            /\ UNCHANGED <<id, prev, news, last, due>>
  /\ UNCHANGED <<item, link, ready, told, again, beyond>>

(* The bot answers 200 and then sends the message to the first chat of the list;
   it does not look at what becomes of it. *)
handleUpdates(c, items) ==
  \/ told' = [told EXCEPT ![c] = [i \in Items |-> IF i \in items /\ @[i] < 2
                                                 THEN @[i] + 1 ELSE @[i]]]
  \/ UNCHANGED told

(* The update is posted to the bot, or fails to get there: an error is dropped.
   The rows came without ORDER BY, so that any chat may be the first. *)
SendUpdate(w) ==
  /\ pc[w] = "send"
  /\ (\E c \in ids[w] : handleUpdates(c, news[w])) \/ UNCHANGED told
  /\ due' = due \ news[w]
  /\ Return(w)
  /\ UNCHANGED <<item, link, ready, again, beyond>>

Step(w) ==
  \/ processLink(w) \/ GetPreviousUpdate(w) \/ GetUpdates(w) \/ GetUpdatesFails(w)
  \/ NilUpdater(w) \/ Save(w) \/ SaveFails(w) \/ GetTgChatIDsForLink(w) \/ SendUpdate(w)

Next ==
  \/ ClockTicks \/ \E i \in Items : Publish(i)
  \/ \E c \in Chats : AddLink(c) \/ RemoveLink(c)
  \/ InitUpdaters \/ Crash
  \/ \E w \in Workers : Step(w)

Spec == Init /\ [][Next]_vars

-----------------------------------------------------------------------------
(* No item of a tracked link drops out unnoticed: what is due is either still
   after changed_at, so that a next pass will find it, or in the hands of a
   worker that has saved and not yet sent.  The known ways out (a failed save,
   query or post, a crash, a full page, a second that was already covered) take
   it from due where they happen. *)
NoneStranded ==
  \A i \in due :
    \/ created[i] > changedAt
    \/ \E w \in Workers : i \in Saved(w)

(* A chat is told an item twice only when overlapping workers saved their times
   over each other, when changed_at could not be read, or when the row was
   replaced under a worker; the message says that the item is new. *)
RepeatsExplained ==
  \A c \in Chats, i \in Items : told[c][i] = 2 => i \in again

(* Whatever the source, a chat is told an item twice for the same reasons only, or
   because the time saved when it was told was that of an older item of its answer,
   which is how StackOverflow's lastTime comes out. *)
RepeatsAccountedFor ==
  \A c \in Chats, i \in Items : told[c][i] = 2 =>
    i \in again \/ (source = "stackoverflow" /\ i \in beyond)
=============================================================================
