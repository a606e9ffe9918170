----------------------------- MODULE LinkProofs -----------------------------
(***************************************************************************)
(* LinkProcessing's types and NoneStranded, for any source, any number of  *)
(* items, chats and overlapping workers.  A worker is dangerous from the   *)
(* moment it knows the time it will save: the inductive invariant says     *)
(* that neither a time that was read (AskInv) nor one that is to be saved  *)
(* (SaveInv) covers an item that is due and in nobody's hands.             *)
(*                                                                         *)
(* Then RepeatsAccountedFor, and RepeatsExplained for GitHub: an item that *)
(* no reason to repeat was found for is covered by changed_at from the     *)
(* first save on, and in the hands of one worker until it is told          *)
(* (OnceInv).                                                              *)
(***************************************************************************)
EXTENDS LinkProcessing, WellFoundedInduction, TLAPS

(* Some worker has saved the time of i and not yet sent it. *)
Held(i) == \E w \in Workers : i \in Saved(w)

ClockInv == clock > 0

(* Only what is published is due, and only while the link has a row. *)
DueInv == due \subseteq Published /\ (row = 0 => due = {})

AskInv ==
  \A w \in Workers : pc[w] = "ask" =>
    \A i \in due : created[i] > prev[w] \/ Held(i)

SaveInv ==
  \A w \in Workers : pc[w] = "save" =>
    \A i \in due : created[i] > last[w] \/ i \in news[w] \/ Held(i)

IInv ==
  /\ TypeOK
  /\ ClockInv
  /\ DueInv
  /\ NoneStranded
  /\ AskInv
  /\ SaveInv

-----------------------------------------------------------------------------
(* A non-empty set of naturals has a least element. *)
LEMMA LeastNatural ==
  ASSUME NEW S \in SUBSET Nat, S # {}
  PROVE  \E s \in S : \A t \in S : s <= t
<1>1. \E s \in S : \A t \in S : ~(<<t, s>> \in OpToRel(<, Nat))
  BY NatLessThanWellFounded, WFMin
<1>2. PICK s \in S : \A t \in S : ~(<<t, s>> \in OpToRel(<, Nat)) BY <1>1
<1>3. \A t \in S : ~(t < s) BY <1>2 DEF OpToRel
<1> QED BY <1>3

(* One that is bounded has a greatest. *)
LEMMA GreatestNatural ==
  ASSUME NEW n \in Nat, NEW S \in SUBSET (0..n), S # {}
  PROVE  \E s \in S : \A t \in S : t <= s
<1> DEFINE D == {n - t : t \in S}
<1>1. D \in SUBSET Nat
  <2>1. \A t \in S : n - t \in Nat OBVIOUS
  <2> QED BY <2>1
<1>2. D # {} OBVIOUS
<1>3. PICK d \in D : \A e \in D : d <= e BY <1>1, <1>2, LeastNatural
<1>4. PICK s \in S : d = n - s OBVIOUS
<1>5. \A t \in S : n - s <= n - t BY <1>3, <1>4
<1> QED BY <1>5

(* The time of an answer is one of its items', or the time that was read. *)
LEMMA LastType ==
  ASSUME TypeOK, NEW items \in SUBSET Items, items # {}, NEW t \in Times
  PROVE  Last(items, t) \in Times
<1> USE LinkAssumption DEF Times
<1>1. {created[i] : i \in items} \in SUBSET Times BY DEF TypeOK
<1>2. CASE source = "github"
  <2> DEFINE S == {t} \cup {created[i] : i \in items}
  <2>1. S \in SUBSET (0..MaxTime) /\ S # {} BY <1>1
  <2>2. PICK s \in S : \A u \in S : u <= s
    <3> HIDE DEF S
    <3> QED BY <2>1, GreatestNatural
  <2>3. t <= s /\ \A i \in items : created[i] <= s BY <2>2
  <2>4. GithubLast(items, created, t) \in S BY <2>2, <2>3 DEF GithubLast
  <2> QED BY <1>2, <2>1, <2>4 DEF Last
<1>3. CASE source # "github"
  <2> DEFINE S == {created[i] : i \in items}
  <2>1. S \in SUBSET Nat /\ S # {} BY <1>1
  <2>2. PICK s \in S : \A u \in S : s <= u
    <3> HIDE DEF S
    <3> QED BY <2>1, LeastNatural
  <2>3. \A i \in items : s <= created[i] BY <2>2
  <2>4. StackoverflowLast(items, created, t) \in S BY <2>2, <2>3 DEF StackoverflowLast
  <2> QED BY <1>1, <1>3, <2>4 DEF Last
<1> QED BY <1>2, <1>3

(* The news of an answer is published, and has all of the answer that is newer
   than the time it was asked for. *)
LEMMA NewsOfAnswer ==
  ASSUME TypeOK, NEW t \in Times, NEW answer \in Answers(t)
  PROVE  /\ News(answer, t) \subseteq Items
         /\ Since(t) \cap answer \subseteq News(answer, t)
<1>1. answer \subseteq Items BY DEF Answers, Since, Published
<1> QED BY <1>1 DEF News, GithubNews, StackoverflowNews, Since

LEMMA InitIInv == Init => IInv
<1> SUFFICES ASSUME Init PROVE IInv OBVIOUS
<1> USE LinkAssumption DEF Init, Times
<1>1. TypeOK
  <2>1. clock \in Times /\ changedAt \in Times /\ maxRow \in 0..MaxRow /\ row \in {0, maxRow}
    OBVIOUS
  <2>2. created \in [Items -> Times] /\ told \in [Chats -> [Items -> 0..2]] OBVIOUS
  <2>3. pc \in [Workers -> {"idle", "prev", "ask", "save", "chats", "send"}] OBVIOUS
  <2>4. id \in [Workers -> 0..MaxRow] /\ prev \in [Workers -> Times]
        /\ last \in [Workers -> Times]
    OBVIOUS
  <2>5. news \in [Workers -> SUBSET Items] /\ ids \in [Workers -> SUBSET Chats] OBVIOUS
  <2> QED BY <2>1, <2>2, <2>3, <2>4, <2>5 DEF TypeOK
<1> QED BY <1>1 DEF IInv, ClockInv, DueInv, NoneStranded, AskInv, SaveInv, Published

-----------------------------------------------------------------------------
(* What returning does, whichever return it is: the worker is idle, and nothing
   that is still due was in its hands. *)
LEMMA ReturnTypes ==
  ASSUME TypeOK, NEW w \in Workers, Return(w)
  PROVE  /\ pc' \in [Workers -> {"idle", "prev", "ask", "save", "chats", "send"}]
         /\ id' \in [Workers -> 0..MaxRow]
         /\ prev' \in [Workers -> Times] /\ last' \in [Workers -> Times]
         /\ news' \in [Workers -> SUBSET Items]
         /\ ids' \in [Workers -> SUBSET Chats]
<1> USE LinkAssumption DEF TypeOK, Return, GoTo, Times
<1>1. pc' \in [Workers -> {"idle", "prev", "ask", "save", "chats", "send"}] OBVIOUS
<1>2. id' \in [Workers -> 0..MaxRow] OBVIOUS
<1>3. prev' \in [Workers -> Times] /\ last' \in [Workers -> Times] OBVIOUS
<1>4. news' \in [Workers -> SUBSET Items] /\ ids' \in [Workers -> SUBSET Chats] OBVIOUS
<1> QED BY <1>1, <1>2, <1>3, <1>4

LEMMA ReturnKeeps ==
  ASSUME IInv, NEW w \in Workers, Return(w), created' = created, due' \subseteq due,
         pc[w] \in {"chats", "send"} => due' \cap news[w] = {}
  PROVE  /\ \A i \in due' : Held(i) => Held(i)'
         /\ AskInv'
         /\ SaveInv'
<1>1. /\ pc'[w] = "idle"
      /\ \A v \in Workers \ {w} : /\ pc'[v] = pc[v] /\ prev'[v] = prev[v]
                                  /\ last'[v] = last[v] /\ news'[v] = news[v]
  BY DEF IInv, TypeOK, Return, GoTo
<1>2. ASSUME NEW i \in due', Held(i) PROVE Held(i)'
  <2>1. PICK v \in Workers : i \in Saved(v) BY <1>2 DEF Held
  <2>2. v # w BY <2>1 DEF Saved
  <2> QED BY <1>1, <2>1, <2>2 DEF Held, Saved
<1>3. AskInv' BY <1>1, <1>2 DEF IInv, AskInv
<1>4. SaveInv' BY <1>1, <1>2 DEF IInv, SaveInv
<1> QED BY <1>2, <1>3, <1>4

(* What holds of the items that are due is not disturbed by a step that leaves
   them, the table and the workers alone. *)
LEMMA DueKept ==
  ASSUME IInv, UNCHANGED <<created, row, changedAt, due, pc, prev, last, news>>
  PROVE  DueInv' /\ NoneStranded' /\ AskInv' /\ SaveInv'
<1> USE DEF IInv
<1>1. \A w \in Workers : Saved(w)' = Saved(w) BY DEF Saved
<1>2. \A i \in Items : Held(i)' = Held(i) BY <1>1 DEF Held
<1>3. due \subseteq Items BY DEF TypeOK
<1>4. DueInv' BY DEF DueInv, Published
<1>5. NoneStranded' BY <1>1 DEF NoneStranded
<1>6. AskInv' BY <1>2, <1>3 DEF AskInv
<1>7. SaveInv' BY <1>2, <1>3 DEF SaveInv
<1> QED BY <1>4, <1>5, <1>6, <1>7

-----------------------------------------------------------------------------
(* The source and the requests. *)

LEMMA ClockTicksIInv == IInv /\ ClockTicks => IInv'
<1> SUFFICES ASSUME IInv, ClockTicks PROVE IInv' OBVIOUS
<1> USE DEF IInv, ClockTicks, link, worker, history
<1>1. TypeOK' BY LinkAssumption DEF TypeOK, Times
<1>2. ClockInv' BY DEF ClockInv, TypeOK, Times
<1> QED BY <1>1, <1>2, DueKept

LEMMA PublishIInv == ASSUME IInv, NEW i \in Items, Publish(i) PROVE IInv'
<1> USE DEF Publish, link, worker, history
<1>1. TypeOK' BY DEF IInv, TypeOK
<1>2. ClockInv' BY DEF IInv, ClockInv
<1>3. /\ created'[i] = clock
      /\ \A j \in Items \ {i} : created'[j] = created[j]
      /\ clock > 0
  BY DEF IInv, TypeOK, ClockInv
<1>4. i \notin due BY DEF IInv, DueInv, Published
<1>5. \A j \in Items : Held(j)' = Held(j) BY DEF Held, Saved
<1>6. due \subseteq Items /\ due' \subseteq Items BY <1>1 DEF IInv, TypeOK
<1>7. i \in due' => row # 0 /\ ~Covered BY <1>4
<1>8. \A j \in due' : j # i => j \in due OBVIOUS
<1>9. DueInv'
  <2>1. \A j \in due' : created'[j] > 0
    BY <1>3, <1>6, <1>8 DEF IInv, DueInv, Published, TypeOK, Times
  <2> QED BY <1>6, <1>7, <1>8, <2>1 DEF IInv, DueInv, Published
<1>10. NoneStranded'
  <2> SUFFICES ASSUME NEW j \in due' PROVE created'[j] > changedAt \/ Held(j)
    BY <1>5, <1>6 DEF NoneStranded, Held
  <2>1. CASE j = i BY <1>3, <1>7, <2>1 DEF Covered, IInv, TypeOK, Times
  <2>2. CASE j # i BY <1>3, <1>6, <1>8, <2>2 DEF IInv, NoneStranded, Held
  <2> QED BY <2>1, <2>2
<1>11. AskInv'
  <2> SUFFICES ASSUME NEW w \in Workers, pc[w] = "ask", NEW j \in due'
               PROVE  created'[j] > prev[w] \/ Held(j)
    BY <1>5, <1>6 DEF AskInv
  <2>1. CASE j = i BY <1>3, <1>7, <2>1 DEF Covered, IInv, TypeOK, Times
  <2>2. CASE j # i BY <1>3, <1>6, <1>8, <2>2 DEF IInv, AskInv
  <2> QED BY <2>1, <2>2
<1>12. SaveInv'
  <2> SUFFICES ASSUME NEW w \in Workers, pc[w] = "save", NEW j \in due'
               PROVE  created'[j] > last[w] \/ j \in news[w] \/ Held(j)
    BY <1>5, <1>6 DEF SaveInv
  <2>1. CASE j = i BY <1>3, <1>7, <2>1 DEF Covered, IInv, TypeOK, Times
  <2>2. CASE j # i BY <1>3, <1>6, <1>8, <2>2 DEF IInv, SaveInv
  <2> QED BY <2>1, <2>2
<1> QED BY <1>1, <1>2, <1>9, <1>10, <1>11, <1>12 DEF IInv

LEMMA AddLinkIInv == ASSUME IInv, NEW c \in Chats, AddLink(c) PROVE IInv'
<1> USE LinkAssumption DEF AddLink, item, worker, history
<1>1. TypeOK'
  <2>1. maxRow' \in 0..MaxRow /\ row' \in {0, maxRow'} /\ changedAt' \in Times
    BY DEF IInv, TypeOK
  <2> QED BY <2>1 DEF IInv, TypeOK
<1>2. ClockInv' BY DEF IInv, ClockInv
<1>3. CASE row = 0
  <2>1. due' = {} BY <1>3 DEF IInv, DueInv
  <2> QED BY <1>1, <1>2, <2>1 DEF IInv, DueInv, NoneStranded, AskInv, SaveInv
<1>4. CASE row # 0 BY <1>1, <1>2, <1>4, DueKept DEF IInv
<1> QED BY <1>3, <1>4

LEMMA RemoveLinkIInv == ASSUME IInv, NEW c \in Chats, RemoveLink(c) PROVE IInv'
<1> USE DEF RemoveLink, item, worker
<1>1. TypeOK' BY LinkAssumption DEF IInv, TypeOK, Times
<1>2. ClockInv' BY DEF IInv, ClockInv
<1>3. CASE UNCHANGED <<row, changedAt, due>> BY <1>1, <1>2, <1>3, DueKept DEF IInv
<1>4. CASE due' = {}
  BY <1>1, <1>2, <1>4 DEF IInv, DueInv, NoneStranded, AskInv, SaveInv
<1> QED BY <1>3, <1>4

-----------------------------------------------------------------------------
(* The process. *)

LEMMA InitUpdatersIInv == IInv /\ InitUpdaters => IInv'
<1> SUFFICES ASSUME IInv, InitUpdaters PROVE IInv' OBVIOUS
<1> USE DEF InitUpdaters, item, link, worker, history
<1>1. TypeOK' BY DEF IInv, TypeOK
<1>2. ClockInv' BY DEF IInv, ClockInv
<1> QED BY <1>1, <1>2, DueKept DEF IInv

(* What was in a worker's hands is lost; the rest of what is due is after
   changed_at. *)
LEMMA CrashIInv == IInv /\ Crash => IInv'
<1> SUFFICES ASSUME IInv, Crash PROVE IInv' OBVIOUS
<1> USE LinkAssumption DEF Crash, item, link
<1>1. TypeOK'
  <2>1. pc' \in [Workers -> {"idle", "prev", "ask", "save", "chats", "send"}] OBVIOUS
  <2>2. id' \in [Workers -> 0..MaxRow] OBVIOUS
  <2>3. prev' \in [Workers -> Times] /\ last' \in [Workers -> Times] BY DEF Times
  <2>4. news' \in [Workers -> SUBSET Items] /\ ids' \in [Workers -> SUBSET Chats] OBVIOUS
  <2>5. due' \subseteq Items BY DEF IInv, TypeOK
  <2> QED BY <2>1, <2>2, <2>3, <2>4, <2>5 DEF IInv, TypeOK
<1>2. ClockInv' BY DEF IInv, ClockInv
<1>3. DueInv' BY DEF IInv, DueInv, Published
<1>4. NoneStranded' BY DEF IInv, NoneStranded
<1>5. \A w \in Workers : pc'[w] = "idle" OBVIOUS
<1> QED BY <1>1, <1>2, <1>3, <1>4, <1>5 DEF IInv, AskInv, SaveInv

-----------------------------------------------------------------------------
(* processLink. *)

(* A worker that goes from one call to the next before it has saved takes
   nothing out of anybody's hands. *)
LEMMA HeldKept ==
  ASSUME IInv, NEW w \in Workers, Saved(w) = {},
         \A v \in Workers \ {w} : pc'[v] = pc[v] /\ news'[v] = news[v]
  PROVE  \A i \in Items : Held(i) => Held(i)'
  BY DEF Held, Saved

LEMMA processLinkIInv == ASSUME IInv, NEW w \in Workers, processLink(w) PROVE IInv'
<1> USE LinkAssumption DEF processLink, GoTo, item, link, history
<1>1. TypeOK'
  <2>1. pc' \in [Workers -> {"idle", "prev", "ask", "save", "chats", "send"}]
    BY DEF IInv, TypeOK
  <2>2. id' \in [Workers -> 0..MaxRow] BY DEF IInv, TypeOK
  <2> QED BY <2>1, <2>2 DEF IInv, TypeOK
<1>2. ClockInv' BY DEF IInv, ClockInv
<1>3. DueInv' BY DEF IInv, DueInv, Published
<1>4. /\ pc'[w] = "prev" /\ Saved(w) = {}
      /\ \A v \in Workers \ {w} : pc'[v] = pc[v]
  BY DEF IInv, TypeOK, Saved
<1>5. \A i \in due : Held(i) => Held(i)' BY <1>4, HeldKept DEF IInv, TypeOK
<1>6. NoneStranded' BY <1>5 DEF IInv, NoneStranded, Held
<1>7. AskInv' BY <1>4, <1>5 DEF IInv, AskInv
<1>8. SaveInv' BY <1>4, <1>5 DEF IInv, SaveInv
<1> QED BY <1>1, <1>2, <1>3, <1>6, <1>7, <1>8 DEF IInv

(* The time that is read is changed_at, which covers nothing that is due, or
   zero, which covers nothing that is published. *)
LEMMA GetPreviousUpdateIInv ==
  ASSUME IInv, NEW w \in Workers, GetPreviousUpdate(w) PROVE IInv'
<1> USE LinkAssumption DEF GetPreviousUpdate, GoTo, item, link
<1>1. PICK t \in {0} \cup (IF id[w] = row THEN {changedAt} ELSE {}) :
        /\ prev' = [prev EXCEPT ![w] = t]
        /\ again' = IF t = 0 THEN again \cup Published ELSE again
  OBVIOUS
<1>2. t \in {0, changedAt} /\ t \in Times BY DEF IInv, TypeOK, Times
<1>3. TypeOK'
  <2>1. pc' \in [Workers -> {"idle", "prev", "ask", "save", "chats", "send"}]
    BY DEF IInv, TypeOK
  <2>2. prev' \in [Workers -> Times] BY <1>1, <1>2 DEF IInv, TypeOK
  <2>3. again' \subseteq Items BY <1>1 DEF IInv, TypeOK, Published
  <2> QED BY <2>1, <2>2, <2>3 DEF IInv, TypeOK
<1>4. ClockInv' BY DEF IInv, ClockInv
<1>5. DueInv' BY DEF IInv, DueInv, Published
<1>6. /\ pc'[w] = "ask" /\ prev'[w] = t /\ Saved(w) = {}
      /\ \A v \in Workers \ {w} : pc'[v] = pc[v] /\ prev'[v] = prev[v]
  BY <1>1 DEF IInv, TypeOK, Saved
<1>7. \A i \in due : Held(i) => Held(i)' BY <1>6, HeldKept DEF IInv, TypeOK
<1>8. NoneStranded' BY <1>7 DEF IInv, NoneStranded, Held
<1>9. AskInv'
  <2> SUFFICES ASSUME NEW v \in Workers, pc'[v] = "ask", NEW i \in due
               PROVE  created[i] > prev'[v] \/ Held(i)'
    BY DEF AskInv
  <2>1. CASE v = w
    <3>1. created[i] > 0 BY DEF IInv, DueInv, Published
    <3>2. created[i] > changedAt \/ Held(i) BY DEF IInv, NoneStranded, Held
    <3> QED BY <1>2, <1>6, <1>7, <2>1, <3>1, <3>2
  <2>2. CASE v # w BY <1>6, <1>7, <2>2 DEF IInv, AskInv
  <2> QED BY <2>1, <2>2
<1>10. SaveInv' BY <1>6, <1>7 DEF IInv, SaveInv
<1> QED BY <1>3, <1>4, <1>5, <1>8, <1>9, <1>10 DEF IInv

(* Returning before the time is saved: what was due stays due. *)
LEMMA ReturnIInv ==
  ASSUME IInv, NEW w \in Workers, Return(w), pc[w] = "ask",
         UNCHANGED <<item, link, ready, told, due, again, beyond>>
  PROVE  IInv'
<1> USE DEF item, link
<1>1. TypeOK' BY ReturnTypes DEF IInv, TypeOK
<1>2. ClockInv' BY DEF IInv, ClockInv
<1>3. DueInv' BY DEF IInv, DueInv, Published
<1>4. (\A i \in due : Held(i) => Held(i)') /\ AskInv' /\ SaveInv' BY ReturnKeeps
<1>5. NoneStranded' BY <1>4 DEF IInv, NoneStranded, Held
<1> QED BY <1>1, <1>2, <1>3, <1>4, <1>5 DEF IInv

(* What is due and covered by the answer's time is in the answer, and then in
   the news; the rest of it was covered before it was asked for. *)
LEMMA GetUpdatesIInv == ASSUME IInv, NEW w \in Workers, GetUpdates(w) PROVE IInv'
<1> USE LinkAssumption
<1>1. pc[w] = "ask" /\ UNCHANGED <<item, link, ready, told, again, beyond>> BY DEF GetUpdates
<1>2. PICK answer \in Answers(prev[w]) :
        LET found == News(answer, prev[w])
            time  == Last(found, prev[w])
        IN  IF found = {} THEN Return(w) /\ UNCHANGED due
            ELSE /\ news' = [news EXCEPT ![w] = found]
                 /\ last' = [last EXCEPT ![w] = time]
                 /\ due' = due \ {i \in Since(prev[w]) \ answer : created[i] <= time}
                 /\ GoTo(w, "save")
                 /\ UNCHANGED <<id, prev, ids>>
  BY DEF GetUpdates
<1> DEFINE found == News(answer, prev[w])
           time  == Last(found, prev[w])
<1>3. CASE found = {} BY <1>1, <1>2, <1>3, ReturnIInv
<1>4. CASE found # {}
  <2>1. /\ news' = [news EXCEPT ![w] = found]
        /\ last' = [last EXCEPT ![w] = time]
        /\ due' = due \ {i \in Since(prev[w]) \ answer : created[i] <= time}
        /\ pc' = [pc EXCEPT ![w] = "save"]
        /\ UNCHANGED <<id, prev, ids>>
    BY <1>2, <1>4 DEF GoTo
  <2>2. prev[w] \in Times BY DEF IInv, TypeOK
  <2>3. found \subseteq Items /\ Since(prev[w]) \cap answer \subseteq found
    BY <2>2, NewsOfAnswer DEF IInv
  <2>4. time \in Times
    <3> HIDE DEF found
    <3> QED BY <1>4, <2>2, <2>3, LastType DEF IInv
  <2> HIDE DEF found, time
  <2>5. TypeOK'
    <3>1. pc' \in [Workers -> {"idle", "prev", "ask", "save", "chats", "send"}]
      BY <2>1 DEF IInv, TypeOK
    <3>2. last' \in [Workers -> Times] BY <2>1, <2>4 DEF IInv, TypeOK
    <3>3. news' \in [Workers -> SUBSET Items] BY <2>1, <2>3 DEF IInv, TypeOK
    <3>4. due' \subseteq Items BY <2>1 DEF IInv, TypeOK
    <3> QED BY <1>1, <2>1, <3>1, <3>2, <3>3, <3>4 DEF IInv, TypeOK, item, link
  <2>6. ClockInv' BY <1>1 DEF IInv, ClockInv, item
  <2>7. due' \subseteq due /\ due' \subseteq Items BY <2>1 DEF IInv, TypeOK
  <2>8. DueInv' BY <1>1, <2>7 DEF IInv, DueInv, Published, item, link
  <2>9. /\ pc'[w] = "save" /\ last'[w] = time /\ news'[w] = found /\ Saved(w) = {}
        /\ \A v \in Workers \ {w} : pc'[v] = pc[v] /\ last'[v] = last[v] /\ news'[v] = news[v]
    BY <1>1, <2>1 DEF IInv, TypeOK, Saved
  <2>10. \A i \in due' : Held(i) => Held(i)' BY <2>7, <2>9, HeldKept
  <2>11. NoneStranded'
    BY <1>1, <2>7, <2>10 DEF IInv, NoneStranded, Held, item, link
  <2>12. AskInv' BY <1>1, <2>1, <2>7, <2>9, <2>10 DEF IInv, AskInv, item
  <2>13. SaveInv'
    <3> SUFFICES ASSUME NEW v \in Workers, pc'[v] = "save", NEW i \in due'
                 PROVE  created[i] > last'[v] \/ i \in news'[v] \/ Held(i)'
      BY <1>1 DEF SaveInv, item
    <3>1. CASE v = w
      <4> SUFFICES ASSUME ~Held(i), ~(created[i] > time) PROVE i \in found
        BY <2>9, <2>10, <3>1
      <4>1. i \in Items /\ created[i] \in Times BY <2>7 DEF IInv, TypeOK
      <4>2. created[i] <= time BY <2>4, <4>1 DEF Times
      <4>3. created[i] > prev[w] BY <1>1, <2>7 DEF IInv, AskInv
      <4>4. i \in Since(prev[w])
        BY <2>7, <4>3 DEF Since, IInv, DueInv
      <4>5. i \in answer BY <2>1, <4>2, <4>4
      <4> QED BY <2>3, <4>4, <4>5
    <3>2. CASE v # w BY <2>7, <2>9, <2>10, <3>2 DEF IInv, SaveInv
    <3> QED BY <3>1, <3>2
  <2> QED BY <2>5, <2>6, <2>8, <2>11, <2>12, <2>13 DEF IInv
<1> QED BY <1>3, <1>4

LEMMA GetUpdatesFailsIInv ==
  ASSUME IInv, NEW w \in Workers, GetUpdatesFails(w) PROVE IInv'
  BY ReturnIInv DEF GetUpdatesFails, history

(* The time that is saved lies in the past of the clock or not; what matters is
   that it is one, and that the table changes in nothing else. *)
LEMMA SaveLastUpdateTypes ==
  ASSUME TypeOK, NEW w \in Workers, SaveLastUpdate(w)
  PROVE  /\ changedAt' \in {changedAt, last[w]} /\ changedAt' \in Times
         /\ again' \subseteq Items /\ beyond' \subseteq Items
<1>1. changedAt' \in {changedAt, last[w]} BY DEF SaveLastUpdate
<1>2. again' \subseteq Items /\ beyond' \subseteq Items
  BY DEF TypeOK, SaveLastUpdate, Published
<1> QED BY <1>1, <1>2 DEF TypeOK

(* What the saved time covers passes into the hands of the worker. *)
LEMMA SaveIInv == ASSUME IInv, NEW w \in Workers, Save(w) PROVE IInv'
<1> USE LinkAssumption DEF Save, GoTo, item
<1>1. /\ changedAt' \in {changedAt, last[w]} /\ changedAt' \in Times
      /\ again' \subseteq Items /\ beyond' \subseteq Items
  BY SaveLastUpdateTypes DEF IInv
<1>2. TypeOK'
  <2>1. pc' \in [Workers -> {"idle", "prev", "ask", "save", "chats", "send"}]
    BY DEF IInv, TypeOK
  <2>2. id' \in [Workers -> 0..MaxRow] BY DEF IInv, TypeOK
  <2>3. prev' \in [Workers -> Times] /\ last' \in [Workers -> Times]
    BY DEF IInv, TypeOK, Times
  <2> QED BY <1>1, <2>1, <2>2, <2>3 DEF IInv, TypeOK
<1>3. ClockInv' BY DEF IInv, ClockInv
<1>4. DueInv' BY DEF IInv, DueInv, Published
<1>5. /\ pc[w] = "save" /\ pc'[w] = "chats" /\ Saved(w) = {} /\ Saved(w)' = news[w]
      /\ \A v \in Workers \ {w} : /\ pc'[v] = pc[v] /\ prev'[v] = prev[v]
                                  /\ last'[v] = last[v]
  BY DEF IInv, TypeOK, Saved
<1>6. \A i \in due : Held(i) => Held(i)' BY <1>5, HeldKept DEF IInv, TypeOK
<1>7. NoneStranded'
  <2> SUFFICES ASSUME NEW i \in due PROVE created[i] > changedAt' \/ Held(i)'
    BY DEF NoneStranded, Held
  <2>1. i \in news[w] => Held(i)' BY <1>5 DEF Held
  <2>2. created[i] > changedAt \/ Held(i) BY DEF IInv, NoneStranded, Held
  <2>3. created[i] > last[w] \/ i \in news[w] \/ Held(i) BY <1>5 DEF IInv, SaveInv
  <2> QED BY <1>1, <1>6, <2>1, <2>2, <2>3
<1>8. AskInv' BY <1>5, <1>6 DEF IInv, AskInv
<1>9. SaveInv' BY <1>5, <1>6 DEF IInv, SaveInv
<1> QED BY <1>2, <1>3, <1>4, <1>7, <1>8, <1>9 DEF IInv

LEMMA SaveFailsIInv == ASSUME IInv, NEW w \in Workers, SaveFails(w) PROVE IInv'
<1>1. /\ pc[w] = "save" /\ Return(w)
      /\ UNCHANGED <<item, row, maxRow, subs, ready, told>>
      /\ due' \subseteq due
  BY DEF SaveFails
<1>2. /\ changedAt' \in {changedAt, last[w]} /\ changedAt' \in Times
      /\ again' \subseteq Items /\ beyond' \subseteq Items
      /\ changedAt' = changedAt \/ due' = due \ news[w]
  BY SaveLastUpdateTypes DEF IInv, TypeOK, SaveFails
<1>3. TypeOK' BY <1>1, <1>2, ReturnTypes DEF IInv, TypeOK, item
<1>4. ClockInv' BY <1>1 DEF IInv, ClockInv, item
<1>5. DueInv' BY <1>1 DEF IInv, DueInv, Published, item
<1>6. (\A i \in due' : Held(i) => Held(i)') /\ AskInv' /\ SaveInv'
  BY <1>1, ReturnKeeps DEF item
<1>7. NoneStranded'
  <2> SUFFICES ASSUME NEW i \in due' PROVE created[i] > changedAt' \/ Held(i)'
    BY <1>1 DEF NoneStranded, Held, item
  <2>1. created[i] > changedAt \/ Held(i) BY <1>1 DEF IInv, NoneStranded, Held
  <2>2. created[i] > last[w] \/ i \in news[w] \/ Held(i) BY <1>1 DEF IInv, SaveInv
  <2> QED BY <1>2, <1>6, <2>1, <2>2
<1> QED BY <1>3, <1>4, <1>5, <1>6, <1>7 DEF IInv

(* Returning after the time is saved: the news is not due any more. *)
LEMMA ReturnWithNewsIInv ==
  ASSUME IInv, NEW w \in Workers, Return(w), due' = due \ news[w],
         UNCHANGED <<item, link, ready, again, beyond>>, told' \in [Chats -> [Items -> 0..2]]
  PROVE  IInv'
<1> USE DEF item, link
<1>1. TypeOK' BY ReturnTypes DEF IInv, TypeOK
<1>2. ClockInv' BY DEF IInv, ClockInv
<1>3. DueInv' BY DEF IInv, DueInv, Published
<1>4. (\A i \in due' : Held(i) => Held(i)') /\ AskInv' /\ SaveInv' BY ReturnKeeps
<1>5. NoneStranded' BY <1>4 DEF IInv, NoneStranded, Held
<1> QED BY <1>1, <1>2, <1>3, <1>4, <1>5 DEF IInv

LEMMA GetTgChatIDsForLinkIInv ==
  ASSUME IInv, NEW w \in Workers, GetTgChatIDsForLink(w) PROVE IInv'
<1>1. pc[w] = "chats" /\ UNCHANGED <<item, link, ready, told, again, beyond>>
  BY DEF GetTgChatIDsForLink
<1>2. CASE Return(w) /\ due' = due \ news[w]
  BY <1>1, <1>2, ReturnWithNewsIInv DEF IInv, TypeOK
<1>3. ASSUME NEW chats \in SUBSET subs, ids' = [ids EXCEPT ![w] = chats],
             GoTo(w, "send"), UNCHANGED <<id, prev, news, last, due>>
      PROVE  IInv'
  <2> USE <1>1, <1>3 DEF GoTo, item, link
  <2>1. TypeOK'
    <3>1. pc' \in [Workers -> {"idle", "prev", "ask", "save", "chats", "send"}]
      BY DEF IInv, TypeOK
    <3>2. ids' \in [Workers -> SUBSET Chats] BY DEF IInv, TypeOK
    <3> QED BY <3>1, <3>2 DEF IInv, TypeOK
  <2>2. ClockInv' BY DEF IInv, ClockInv
  <2>3. DueInv' BY DEF IInv, DueInv, Published
  <2>4. pc'[w] = "send" /\ \A v \in Workers \ {w} : pc'[v] = pc[v] BY DEF IInv, TypeOK
  <2>5. \A v \in Workers : Saved(v)' = Saved(v) BY <2>4 DEF Saved
  <2>6. \A i \in due : Held(i)' = Held(i) BY <2>5 DEF Held
  <2>7. NoneStranded' BY <2>6 DEF IInv, NoneStranded, Held
  <2>8. AskInv' BY <2>4, <2>6 DEF IInv, AskInv
  <2>9. SaveInv' BY <2>4, <2>6 DEF IInv, SaveInv
  <2> QED BY <2>1, <2>2, <2>3, <2>7, <2>8, <2>9 DEF IInv
<1> QED BY <1>2, <1>3 DEF GetTgChatIDsForLink

LEMMA SendUpdateIInv == ASSUME IInv, NEW w \in Workers, SendUpdate(w) PROVE IInv'
<1>1. told' \in [Chats -> [Items -> 0..2]]
  <2>1. CASE UNCHANGED told BY <2>1 DEF IInv, TypeOK
  <2>2. ASSUME NEW c \in ids[w],
               told' = [told EXCEPT ![c] = [i \in Items |-> IF i \in news[w] /\ @[i] < 2
                                                            THEN @[i] + 1 ELSE @[i]]]
        PROVE  told' \in [Chats -> [Items -> 0..2]]
    <3>1. c \in Chats /\ told[c] \in [Items -> 0..2] BY DEF IInv, TypeOK
    <3>2. [i \in Items |-> IF i \in news[w] /\ told[c][i] < 2
                           THEN told[c][i] + 1 ELSE told[c][i]] \in [Items -> 0..2]
      BY <3>1
    <3> QED BY <2>2, <3>1, <3>2 DEF IInv, TypeOK
  <2> QED BY <2>1, <2>2 DEF SendUpdate, handleUpdates
<1> QED BY <1>1, ReturnWithNewsIInv DEF SendUpdate

LEMMA NextIInv == IInv /\ [Next]_vars => IInv'
<1> SUFFICES ASSUME IInv, [Next]_vars PROVE IInv' OBVIOUS
<1>1. CASE ClockTicks BY <1>1, ClockTicksIInv
<1>2. ASSUME NEW i \in Items, Publish(i) PROVE IInv' BY <1>2, PublishIInv
<1>3. ASSUME NEW c \in Chats, AddLink(c) PROVE IInv' BY <1>3, AddLinkIInv
<1>4. ASSUME NEW c \in Chats, RemoveLink(c) PROVE IInv' BY <1>4, RemoveLinkIInv
<1>5. CASE InitUpdaters BY <1>5, InitUpdatersIInv
<1>6. CASE Crash BY <1>6, CrashIInv
<1>7. ASSUME NEW w \in Workers, Step(w) PROVE IInv'
  <2>1. CASE processLink(w) BY <2>1, processLinkIInv
  <2>2. CASE GetPreviousUpdate(w) BY <2>2, GetPreviousUpdateIInv
  <2>3. CASE GetUpdates(w) BY <2>3, GetUpdatesIInv
  <2>4. CASE GetUpdatesFails(w) BY <2>4, GetUpdatesFailsIInv
  <2>5. CASE NilUpdater(w) BY <2>5, CrashIInv DEF NilUpdater
  <2>6. CASE Save(w) BY <2>6, SaveIInv
  <2>7. CASE SaveFails(w) BY <2>7, SaveFailsIInv
  <2>8. CASE GetTgChatIDsForLink(w) BY <2>8, GetTgChatIDsForLinkIInv
  <2>9. CASE SendUpdate(w) BY <2>9, SendUpdateIInv
  <2> QED BY <1>7, <2>1, <2>2, <2>3, <2>4, <2>5, <2>6, <2>7, <2>8, <2>9 DEF Step
<1>8. CASE UNCHANGED vars
  <2> USE <1>8 DEF vars, item, link, worker, history
  <2>1. TypeOK' BY DEF IInv, TypeOK
  <2>2. ClockInv' BY DEF IInv, ClockInv
  <2> QED BY <2>1, <2>2, DueKept DEF IInv
<1> QED BY <1>1, <1>2, <1>3, <1>4, <1>5, <1>6, <1>7, <1>8 DEF Next

-----------------------------------------------------------------------------
(* The inductive invariant of processLink's calls. *)
THEOREM LinkInvariance == Spec => []IInv
<1> QED BY InitIInv, NextIInv, PTL DEF Spec

(* Every state of a link and its workers is of its type: a saved time is a
   second of the clock, news are items, the chats told are known ones. *)
THEOREM LinkTypeCorrect == Spec => []TypeOK
<1>1. IInv => TypeOK BY DEF IInv
<1> QED BY <1>1, LinkInvariance, PTL

(* processLink saves the time before it sends, and overwrites what another
   worker saved: for all that, an item that is due is after changed_at or in
   the hands of a worker that is about to send it. *)
THEOREM NothingStranded == Spec => []NoneStranded
<1>1. IInv => NoneStranded BY DEF IInv
<1> QED BY <1>1, LinkInvariance, PTL

-----------------------------------------------------------------------------
(* Why a message comes twice.  The news of both sources is newer than the time that
   was read; GitHub's is not newer than the time that is saved either.  Two messages
   about an item are far apart: the invariant follows the item from the save that
   covers it. *)

Taken(i) == Held(i) \/ \E c \in Chats : told[c][i] # 0

TimeInv ==
  /\ \A i \in Items : created[i] <= clock
  /\ \A w \in Workers : pc[w] \in {"prev", "ask", "save"} => id[w] # 0
  /\ \A w \in Workers : pc[w] = "save" =>
       \A i \in news[w] : /\ prev[w] < created[i]
                          /\ source = "github" => created[i] <= last[w]
  /\ \A w \in Workers : \A i \in news[w] : created[i] # 0
  /\ \A c \in Chats, i \in Items : told[c][i] # 0 => created[i] # 0
  /\ source = "github" => beyond = {}

Excused == again \cup beyond

(* An item that nothing explains a second message of: once a worker has saved its
   time changed_at covers it, and one worker at most has it, until it is told. *)
OnceInv ==
  \A i \in Items \ Excused :
    /\ Taken(i) => row = 0 \/ created[i] <= changedAt
    /\ \A v, w \in Workers : i \in Saved(v) /\ i \in Saved(w) => v = w
    /\ Held(i) => \A c \in Chats : told[c][i] = 0
    /\ \A c \in Chats : told[c][i] # 2

RInv == IInv /\ TimeInv /\ OnceInv

(* GithubLast is the newest of the items. *)
LEMMA NewestLast ==
  ASSUME TypeOK, source = "github", NEW items \in SUBSET Items, NEW t \in Times
  PROVE  \A i \in items : created[i] <= Last(items, t)
<1> USE LinkAssumption DEF Times
<1> DEFINE S == {t} \cup {created[i] : i \in items}
<1>1. {created[i] : i \in items} \in SUBSET Times BY DEF TypeOK
<1>2. S \in SUBSET (0..MaxTime) /\ S # {} BY <1>1
<1>3. PICK s \in S : \A u \in S : u <= s
  <2> HIDE DEF S
  <2> QED BY <1>2, GreatestNatural
<1>4. t <= s /\ \A i \in items : created[i] <= s BY <1>3
<1>5. \A i \in items : created[i] <= GithubLast(items, created, t)
  BY <1>3, <1>4 DEF GithubLast
<1> QED BY <1>5 DEF Last

LEMMA InitRInv == Init => RInv
<1> SUFFICES ASSUME Init PROVE RInv OBVIOUS
<1>1. IInv BY InitIInv
<1>2. TimeInv BY LinkAssumption DEF Init, TimeInv
<1>3. OnceInv BY DEF Init, OnceInv, Taken, Held, Saved
<1> QED BY <1>1, <1>2, <1>3 DEF RInv

(* A step that puts no item into a worker's hands and tells none. *)
LEMMA OnceKept ==
  ASSUME OnceInv, Excused \subseteq Excused', told' = told,
         \A w \in Workers : Saved(w)' \subseteq Saved(w),
         \A i \in Items \ Excused' :
           Taken(i) /\ (row = 0 \/ created[i] <= changedAt)
             => row' = 0 \/ created'[i] <= changedAt'
  PROVE  OnceInv'
<1>1. \A i : Held(i)' => Held(i) BY DEF Held
<1>2. \A i : Taken(i)' => Taken(i) BY <1>1 DEF Taken
<1> QED BY <1>1, <1>2 DEF OnceInv

(* One that a worker's return ends, or that only moves it on. *)
LEMMA OnceStays ==
  ASSUME RInv, again \subseteq again', beyond' = beyond, told' = told,
         UNCHANGED <<created, row, changedAt>>,
         \A w \in Workers : Saved(w)' \subseteq Saved(w)
  PROVE  OnceInv'
BY OnceKept DEF RInv, Excused

LEMMA ReturnTimes ==
  ASSUME RInv, NEW w \in Workers, Return(w), UNCHANGED item,
         source = "github" => beyond' = {}
  PROVE  /\ \A v \in Workers : Saved(v)' \subseteq Saved(v)
         /\ told' = told => TimeInv'
<1> USE DEF RInv, item
<1>1. /\ pc' = [pc EXCEPT ![w] = "idle"] /\ id' = [id EXCEPT ![w] = 0]
      /\ prev' = [prev EXCEPT ![w] = 0] /\ last' = [last EXCEPT ![w] = 0]
      /\ news' = [news EXCEPT ![w] = {}]
  BY DEF Return, GoTo
<1>2. /\ pc'[w] = "idle" /\ news'[w] = {}
      /\ \A v \in Workers \ {w} : /\ pc'[v] = pc[v] /\ id'[v] = id[v] /\ prev'[v] = prev[v]
                                  /\ last'[v] = last[v] /\ news'[v] = news[v]
  BY <1>1 DEF IInv, TypeOK
<1>3. \A v \in Workers : Saved(v)' \subseteq Saved(v) BY <1>2 DEF Saved
<1>4. told' = told => TimeInv' BY <1>2 DEF TimeInv
<1> QED BY <1>3, <1>4

LEMMA EnvironmentRInv ==
  ASSUME RInv, UNCHANGED worker,
         \/ ClockTicks \/ (\E i \in Items : Publish(i))
         \/ (\E c \in Chats : AddLink(c) \/ RemoveLink(c))
         \/ InitUpdaters
  PROVE  TimeInv' /\ OnceInv'
<1> USE DEF worker
<1>0. /\ clock \in Nat /\ created \in [Items -> Nat] /\ row \in Nat
      /\ told' = told /\ again' = again /\ beyond' = beyond /\ Excused' = Excused
  BY LinkAssumption DEF RInv, IInv, TypeOK, Times, ClockTicks, Publish, AddLink, RemoveLink,
     InitUpdaters, history, Excused
<1>1. \A w \in Workers : Saved(w)' = Saved(w) BY DEF Saved
<1>2. CASE ClockTicks
  <2>1. clock' = clock + 1 /\ UNCHANGED <<source, created, row, changedAt>>
    BY <1>2 DEF ClockTicks, link
  <2>2. TimeInv' BY <1>0, <2>1 DEF RInv, TimeInv
  <2> QED BY <1>0, <1>1, <2>1, <2>2, OnceStays
<1>3. ASSUME NEW i \in Items, Publish(i) PROVE TimeInv' /\ OnceInv'
  <2>1. /\ created[i] = 0 /\ created' = [created EXCEPT ![i] = clock]
        /\ UNCHANGED <<source, clock, row, changedAt>>
    BY <1>3 DEF Publish, link
  <2>2. clock # 0 BY <1>0 DEF RInv, IInv, ClockInv
  <2>3. created'[i] = clock /\ \A j \in Items \ {i} : created'[j] = created[j]
    BY <1>0, <2>1
  <2>4. ~Taken(i)
    <3>1. \A w \in Workers : i \notin news[w] BY <2>1 DEF RInv, TimeInv
    <3>2. \A c \in Chats : told[c][i] = 0 BY <2>1 DEF RInv, TimeInv
    <3> QED BY <3>1, <3>2 DEF Taken, Held, Saved
  <2>5. TimeInv'
    <3>1. \A w \in Workers : i \notin news[w] /\ news[w] \subseteq Items
      BY <2>1 DEF RInv, TimeInv, IInv, TypeOK
    <3> QED BY <1>0, <2>1, <2>2, <2>3, <3>1 DEF RInv, TimeInv
  <2>6. OnceInv'
    <3>1. \A j \in Items \ Excused' :
            Taken(j) /\ (row = 0 \/ created[j] <= changedAt)
              => row' = 0 \/ created'[j] <= changedAt'
      BY <2>1, <2>3, <2>4
    <3> QED BY <1>0, <1>1, <3>1, OnceKept DEF RInv
  <2> QED BY <2>5, <2>6
<1>4. ASSUME NEW c \in Chats, AddLink(c) PROVE TimeInv' /\ OnceInv'
  <2>1. source' = source /\ clock' = clock /\ created' = created
    BY <1>4 DEF AddLink, item
  <2>2. TimeInv' BY <1>0, <2>1 DEF RInv, TimeInv
  <2>3. changedAt' = clock \/ (row' = row /\ changedAt' = changedAt) BY <1>4 DEF AddLink
  <2>4. \A i \in Items : created[i] <= clock BY DEF RInv, TimeInv
  <2>5. row = 0 => changedAt' = clock \/ row' = 0 BY <2>3
  <2> QED BY <1>0, <1>1, <2>1, <2>2, <2>3, <2>4, <2>5, OnceKept DEF RInv
<1>5. ASSUME NEW c \in Chats, RemoveLink(c) PROVE TimeInv' /\ OnceInv'
  <2>1. source' = source /\ clock' = clock /\ created' = created
    BY <1>5 DEF RemoveLink, item
  <2>2. TimeInv' BY <1>0, <2>1 DEF RInv, TimeInv
  <2>3. row' = 0 \/ (row' = row /\ changedAt' = changedAt) BY <1>5 DEF RemoveLink
  <2> QED BY <1>0, <1>1, <2>1, <2>2, <2>3, OnceKept DEF RInv
<1>6. CASE InitUpdaters
  <2>1. UNCHANGED <<source, clock, created, row, changedAt>> BY <1>6 DEF InitUpdaters, item, link
  <2>2. TimeInv' BY <1>0, <2>1 DEF RInv, TimeInv
  <2> QED BY <1>0, <1>1, <2>1, <2>2, OnceStays
<1> QED BY <1>2, <1>3, <1>4, <1>5, <1>6

LEMMA CrashRInv == ASSUME RInv, Crash PROVE TimeInv' /\ OnceInv'
<1> USE DEF Crash, item, link
<1>1. \A w \in Workers : Saved(w)' = {} BY DEF Saved
<1>2. TimeInv' BY DEF RInv, TimeInv
<1> QED BY <1>1, <1>2, OnceStays

-----------------------------------------------------------------------------
LEMMA BeginRInv ==
  ASSUME RInv, NEW w \in Workers, processLink(w) \/ GetPreviousUpdate(w)
  PROVE  TimeInv' /\ OnceInv'
<1> USE DEF processLink, GetPreviousUpdate, GoTo, item, link, history
<1>1. /\ UNCHANGED <<source, clock, created, row, changedAt, told, beyond, news>>
      /\ again \subseteq again'
      /\ pc' = [pc EXCEPT ![w] = IF pc[w] = "idle" THEN "prev" ELSE "ask"]
      /\ pc[w] \in {"idle", "prev"}
  OBVIOUS
<1>2. pc'[w] \in {"prev", "ask"} /\ \A v \in Workers \ {w} : pc'[v] = pc[v]
  BY <1>1 DEF RInv, IInv, TypeOK
<1>3. \A v \in Workers : Saved(v)' \subseteq Saved(v) BY <1>1, <1>2 DEF Saved
<1>4. id'[w] # 0 /\ \A v \in Workers \ {w} : /\ id'[v] = id[v] /\ prev'[v] = prev[v]
                                             /\ last'[v] = last[v]
  BY DEF RInv, IInv, TypeOK, TimeInv
<1>5. TimeInv' BY <1>1, <1>2, <1>4 DEF RInv, TimeInv
<1> QED BY <1>1, <1>3, <1>5, OnceStays

LEMMA GetUpdatesRInv ==
  ASSUME RInv, NEW w \in Workers, GetUpdates(w) \/ GetUpdatesFails(w)
  PROVE  TimeInv' /\ OnceInv'
<1> USE DEF GetUpdates, GetUpdatesFails, item, link, history
<1>1. /\ pc[w] = "ask"
      /\ UNCHANGED <<source, clock, created, row, changedAt, told, again, beyond>>
  OBVIOUS
<1>2. CASE Return(w)
  <2>1. UNCHANGED item BY <1>1
  <2> QED BY <1>1, <1>2, <2>1, ReturnTimes, OnceStays DEF RInv, TimeInv
<1>3. CASE ~Return(w)
  <2>1. PICK answer \in Answers(prev[w]) :
          /\ news' = [news EXCEPT ![w] = News(answer, prev[w])]
          /\ last' = [last EXCEPT ![w] = Last(News(answer, prev[w]), prev[w])]
          /\ pc' = [pc EXCEPT ![w] = "save"]
          /\ UNCHANGED <<id, prev>>
    BY <1>3 DEF GoTo
  <2> DEFINE found == News(answer, prev[w])
  <2>2. /\ pc'[w] = "save" /\ news'[w] = found /\ last'[w] = Last(found, prev[w])
        /\ \A v \in Workers \ {w} : pc'[v] = pc[v] /\ news'[v] = news[v] /\ last'[v] = last[v]
    BY <2>1 DEF RInv, IInv, TypeOK
  <2>3. /\ prev[w] \in Times /\ created \in [Items -> Times] /\ Times \subseteq Nat
        /\ answer \subseteq Items
    <3>1. answer \subseteq Items BY DEF Answers, Since, Published
    <3> QED BY <3>1, LinkAssumption DEF RInv, IInv, TypeOK, Times
  <2>4. /\ found \subseteq Items /\ \A i \in found : created[i] > prev[w]
    <3>1. CASE source = "github" BY <2>3, <3>1 DEF News, GithubNews
    <3>2. CASE source # "github"
      <4>1. found = answer /\ answer \subseteq Since(prev[w])
        BY <3>2 DEF News, StackoverflowNews, Answers
      <4> QED BY <4>1 DEF Since, Published
    <3> QED BY <3>1, <3>2
  <2>5. source = "github" => \A i \in found : created[i] <= Last(found, prev[w])
    BY <2>3, <2>4, NewestLast DEF RInv, IInv
  <2> HIDE DEF found
  <2>6. ASSUME NEW i \in found PROVE created[i] # 0
    <3>1. created[i] \in Nat /\ prev[w] \in Nat /\ created[i] > prev[w] BY <2>3, <2>4
    <3> QED BY <3>1
  <2>7. \A v \in Workers : Saved(v)' \subseteq Saved(v) BY <2>2 DEF Saved
  <2>8. TimeInv'
    <3>1. \A v \in Workers : pc'[v] \in {"prev", "ask", "save"} => id'[v] # 0
      BY <1>1, <2>1, <2>2 DEF RInv, TimeInv
    <3>2. \A v \in Workers : pc'[v] = "save" =>
            \A i \in news'[v] : /\ prev'[v] < created'[i]
                                /\ source = "github" => created'[i] <= last'[v]
      BY <1>1, <2>1, <2>2, <2>3, <2>4, <2>5 DEF RInv, TimeInv
    <3>3. \A v \in Workers : \A i \in news'[v] : created'[i] # 0
      BY <1>1, <2>2, <2>6 DEF RInv, TimeInv
    <3> QED BY <1>1, <3>1, <3>2, <3>3 DEF RInv, TimeInv
  <2> QED BY <1>1, <2>7, <2>8, OnceStays
<1> QED BY <1>2, <1>3

(* What the save writes over is explained: of the rest what was taken is still
   covered, and of the worker's own news nothing had been taken. *)
LEMMA SaveLastUpdateOnce ==
  ASSUME RInv, NEW w \in Workers, pc[w] = "save", SaveLastUpdate(w)
  PROVE  /\ again \subseteq again' /\ Excused \subseteq Excused'
         /\ source = "github" => beyond' = {}
         /\ \A i \in Items \ Excused' :
              /\ Taken(i) /\ (row = 0 \/ created[i] <= changedAt)
                   => row = 0 \/ created[i] <= changedAt'
              /\ i \in news[w] => ~Taken(i) /\ created[i] <= changedAt'
<1>1. /\ created \in [Items -> Nat] /\ changedAt \in Nat /\ last[w] \in Nat /\ prev[w] \in Nat
      /\ row \in Nat /\ id[w] # 0
  BY LinkAssumption DEF RInv, IInv, TypeOK, Times, TimeInv
<1>2. \A i \in news[w] : prev[w] < created[i] /\ i \in Items
  BY DEF RInv, TimeInv, IInv, TypeOK
<1>3. \A i \in Items : Taken(i) /\ i \notin Excused => row = 0 \/ created[i] <= changedAt
  BY DEF RInv, OnceInv
<1>4. CASE id[w] = row
  <2>1. /\ changedAt' = last[w] /\ row # 0
        /\ again' = again \cup {i \in Published :
                      /\ created[i] <= changedAt
                      /\ i \in {j \in news[w] : created[j] > prev[w]} \/ created[i] > last[w]}
        /\ beyond' = beyond \cup {i \in news[w] : created[i] > last[w]}
    BY <1>1, <1>4 DEF SaveLastUpdate
  <2>2. \A i \in news[w] : i \in Published BY <1>1, <1>2 DEF Published
  <2>3. \A i \in Items : created[i] > last[w] => i \in Published BY <1>1 DEF Published
  <2>4. source = "github" => beyond' = {}
    <3>1. source = "github" => beyond = {} /\ \A i \in news[w] : created[i] <= last[w]
      BY DEF RInv, TimeInv
    <3> QED BY <1>1, <1>2, <2>1, <3>1
  <2>5. \A i \in news[w] \ beyond' : created[i] <= changedAt' BY <1>1, <1>2, <2>1
  <2> QED BY <1>1, <1>2, <1>3, <2>1, <2>2, <2>3, <2>4, <2>5 DEF Excused
<1>5. CASE id[w] # row
  <2>1. /\ changedAt' = changedAt /\ beyond' = beyond
        /\ again' = again \cup {j \in news[w] : created[j] > prev[w]}
    BY <1>5 DEF SaveLastUpdate
  <2> QED BY <1>1, <1>2, <1>3, <2>1 DEF Excused, RInv, TimeInv
<1> QED BY <1>4, <1>5

LEMMA SaveRInv ==
  ASSUME RInv, NEW w \in Workers, Save(w)
  PROVE  TimeInv' /\ OnceInv'
<1> USE DEF Save, item
<1>1. /\ pc[w] = "save" /\ SaveLastUpdate(w)
      /\ UNCHANGED <<source, clock, created, row, told, news>>
      /\ pc' = [pc EXCEPT ![w] = "chats"]
  BY DEF GoTo
<1>2. /\ pc'[w] = "chats"
      /\ \A v \in Workers \ {w} : /\ pc'[v] = pc[v] /\ id'[v] = id[v] /\ prev'[v] = prev[v]
                                  /\ last'[v] = last[v]
  BY <1>1 DEF RInv, IInv, TypeOK
<1>3. TimeInv' BY <1>1, <1>2, SaveLastUpdateOnce DEF RInv, TimeInv
<1>4. /\ Excused \subseteq Excused'
      /\ \A i \in Items \ Excused' :
           /\ Taken(i) /\ (row = 0 \/ created[i] <= changedAt)
                => row = 0 \/ created[i] <= changedAt'
           /\ i \in news[w] => ~Taken(i) /\ created[i] <= changedAt'
  BY <1>1, SaveLastUpdateOnce
<1>5. /\ Saved(w) = {} /\ Saved(w)' = news[w]
      /\ \A v \in Workers \ {w} : Saved(v)' = Saved(v)
  BY <1>1, <1>2 DEF Saved
<1>6. ASSUME NEW i \in Items \ Excused'
      PROVE  /\ Taken(i)' => row' = 0 \/ created'[i] <= changedAt'
             /\ \A u, v \in Workers : i \in Saved(u)' /\ i \in Saved(v)' => u = v
             /\ Held(i)' => \A c \in Chats : told'[c][i] = 0
             /\ \A c \in Chats : told'[c][i] # 2
  <2>1. i \in Items \ Excused BY <1>4
  <2>2. CASE i \in news[w]
    <3>1. ~Taken(i) /\ created[i] <= changedAt' BY <1>4, <2>2
    <3>2. \A v \in Workers : i \notin Saved(v) BY <3>1 DEF Taken, Held
    <3>3. \A c \in Chats : told[c][i] = 0 BY <3>1 DEF Taken
    <3> QED BY <1>1, <1>5, <3>1, <3>2, <3>3
  <2>3. CASE i \notin news[w]
    <3>1. \A v \in Workers : i \in Saved(v)' <=> i \in Saved(v) BY <1>5, <2>3
    <3>2. (Held(i)' <=> Held(i)) /\ (Taken(i)' <=> Taken(i)) BY <1>1, <3>1 DEF Taken, Held
    <3> QED BY <1>1, <1>4, <2>1, <3>1, <3>2 DEF RInv, OnceInv
  <2> QED BY <2>2, <2>3
<1>7. OnceInv' BY <1>6 DEF OnceInv
<1> QED BY <1>3, <1>7

LEMMA SaveFailsRInv ==
  ASSUME RInv, NEW w \in Workers, SaveFails(w)
  PROVE  TimeInv' /\ OnceInv'
<1> USE DEF SaveFails
<1>1. pc[w] = "save" /\ Return(w) /\ UNCHANGED <<item, row, told>> OBVIOUS
<1>2. TimeInv' /\ \A v \in Workers : Saved(v)' \subseteq Saved(v)
  BY <1>1, SaveLastUpdateOnce, ReturnTimes DEF RInv, TimeInv
<1>3. CASE SaveLastUpdate(w)
  BY <1>1, <1>2, <1>3, SaveLastUpdateOnce, OnceKept DEF RInv, item
<1>4. CASE UNCHANGED <<changedAt, again, beyond>> BY <1>1, <1>2, <1>4, OnceStays DEF item
<1> QED BY <1>3, <1>4

LEMMA GetTgChatIDsRInv ==
  ASSUME RInv, NEW w \in Workers, GetTgChatIDsForLink(w)
  PROVE  TimeInv' /\ OnceInv'
<1> USE DEF GetTgChatIDsForLink, link
<1>1. pc[w] = "chats" /\ UNCHANGED <<item, row, changedAt, told, again, beyond>> OBVIOUS
<1>2. CASE Return(w) BY <1>1, <1>2, ReturnTimes, OnceStays DEF item, RInv, TimeInv
<1>3. CASE GoTo(w, "send") /\ UNCHANGED <<id, prev, news, last>>
  <2>1. pc'[w] = "send" /\ \A v \in Workers \ {w} : pc'[v] = pc[v]
    BY <1>3 DEF GoTo, RInv, IInv, TypeOK
  <2>2. \A v \in Workers : Saved(v)' = Saved(v) BY <1>1, <1>3, <2>1 DEF Saved
  <2>3. TimeInv' BY <1>1, <1>3, <2>1 DEF RInv, TimeInv, item
  <2> QED BY <1>1, <2>2, <2>3, OnceStays DEF item
<1> QED BY <1>2, <1>3

(* The message of an item that is told for the first time, by the only worker that
   had it. *)
LEMMA SendUpdateRInv ==
  ASSUME RInv, NEW w \in Workers, SendUpdate(w)
  PROVE  TimeInv' /\ OnceInv'
<1> USE DEF SendUpdate, link
<1>1. pc[w] = "send" /\ Return(w) /\ UNCHANGED <<item, row, changedAt, again, beyond>> OBVIOUS
<1>2. /\ \A v \in Workers : Saved(v)' \subseteq Saved(v)
      /\ told' = told => TimeInv'
  BY <1>1, ReturnTimes DEF RInv, TimeInv
<1>3. CASE told' = told BY <1>1, <1>2, <1>3, OnceStays DEF item
<1>4. CASE told' # told
  <2>1. PICK c \in ids[w] :
          told' = [told EXCEPT ![c] = [i \in Items |-> IF i \in news[w] /\ @[i] < 2
                                                      THEN @[i] + 1 ELSE @[i]]]
    BY <1>4 DEF handleUpdates
  <2>2. c \in Chats /\ told \in [Chats -> [Items -> 0..2]] BY DEF RInv, IInv, TypeOK
  <2>3. /\ \A i \in Items : told'[c][i] = IF i \in news[w] /\ told[c][i] < 2
                                          THEN told[c][i] + 1 ELSE told[c][i]
        /\ \A d \in Chats \ {c} : told'[d] = told[d]
    BY <2>1, <2>2
  <2>4. \A d \in Chats, i \in Items : i \notin news[w] => told'[d][i] = told[d][i]
    BY <2>3
  <2>5. Saved(w) = news[w] /\ Saved(w)' = {}
    <3>1. pc'[w] = "idle" BY <1>1 DEF Return, GoTo, RInv, IInv, TypeOK
    <3> QED BY <1>1, <3>1 DEF Saved
  <2>6. TimeInv'
    <3>1. \A d \in Chats, i \in Items : told'[d][i] # 0 => created'[i] # 0
      BY <1>1, <2>4 DEF RInv, TimeInv, item
    <3>2. /\ pc' = [pc EXCEPT ![w] = "idle"] /\ id' = [id EXCEPT ![w] = 0]
          /\ prev' = [prev EXCEPT ![w] = 0] /\ last' = [last EXCEPT ![w] = 0]
          /\ news' = [news EXCEPT ![w] = {}]
      BY <1>1 DEF Return, GoTo
    <3>3. /\ pc'[w] = "idle" /\ news'[w] = {}
          /\ \A v \in Workers \ {w} :
               /\ pc'[v] = pc[v] /\ id'[v] = id[v] /\ prev'[v] = prev[v]
               /\ last'[v] = last[v] /\ news'[v] = news[v]
      BY <3>2 DEF RInv, IInv, TypeOK
    <3> QED BY <1>1, <3>1, <3>3 DEF RInv, TimeInv, item
  <2>7. ASSUME NEW i \in Items \ Excused'
        PROVE  /\ Taken(i)' => row' = 0 \/ created'[i] <= changedAt'
               /\ \A u, v \in Workers : i \in Saved(u)' /\ i \in Saved(v)' => u = v
               /\ Held(i)' => \A d \in Chats : told'[d][i] = 0
               /\ \A d \in Chats : told'[d][i] # 2
    <3>1. i \in Items \ Excused /\ (Held(i)' => Held(i)) BY <1>1, <1>2 DEF Held, Excused
    <3>2. \A u, v \in Workers : i \in Saved(u)' /\ i \in Saved(v)' => u = v
      BY <1>2, <3>1 DEF RInv, OnceInv
    <3>3. CASE i \in news[w]
      <4>1. Held(i) BY <2>5, <3>3 DEF Held
      <4>2. \A d \in Chats : told[d][i] = 0 BY <3>1, <4>1 DEF RInv, OnceInv
      <4>3. \A d \in Chats : told'[d][i] # 2 BY <2>2, <2>3, <4>2
      <4>4. ~Held(i)'
        <5>1. \A v \in Workers : i \in Saved(v) => v = w
          BY <2>5, <3>1, <3>3 DEF RInv, OnceInv
        <5> QED BY <1>2, <2>5, <5>1 DEF Held
      <4>5. row = 0 \/ created[i] <= changedAt BY <3>1, <4>1 DEF RInv, OnceInv, Taken
      <4> QED BY <1>1, <3>2, <4>3, <4>4, <4>5 DEF item
    <3>4. CASE i \notin news[w]
      <4>1. \A d \in Chats : told'[d][i] = told[d][i] BY <2>4, <3>4
      <4>2. Taken(i)' => Taken(i) BY <3>1, <4>1 DEF Taken
      <4> QED BY <1>1, <3>1, <3>2, <4>1, <4>2 DEF RInv, OnceInv, item
    <3> QED BY <3>3, <3>4
  <2>8. OnceInv' BY <2>7 DEF OnceInv
  <2> QED BY <2>6, <2>8
<1> QED BY <1>3, <1>4

LEMMA NextRInv == ASSUME RInv, [Next]_vars PROVE RInv'
<1>1. IInv' BY NextIInv DEF RInv
<1>2. TimeInv' /\ OnceInv'
  <2>1. CASE \/ ClockTicks \/ (\E i \in Items : Publish(i))
             \/ (\E c \in Chats : AddLink(c) \/ RemoveLink(c)) \/ InitUpdaters
    <3>1. UNCHANGED worker
      BY <2>1 DEF ClockTicks, Publish, AddLink, RemoveLink, InitUpdaters
    <3> QED BY <2>1, <3>1, EnvironmentRInv
  <2>2. CASE Crash BY <2>2, CrashRInv
  <2>3. ASSUME NEW w \in Workers, Step(w) PROVE TimeInv' /\ OnceInv'
    BY <2>3, BeginRInv, GetUpdatesRInv, CrashRInv, SaveRInv, SaveFailsRInv, GetTgChatIDsRInv,
       SendUpdateRInv DEF Step, NilUpdater
  <2>4. CASE UNCHANGED vars
    <3> USE <2>4 DEF vars, item, link, worker, history
    <3>1. TimeInv' BY DEF RInv, TimeInv
    <3>2. \A w \in Workers : Saved(w)' = Saved(w) BY DEF Saved
    <3> QED BY <3>1, <3>2, OnceStays
  <2> QED BY <2>1, <2>2, <2>3, <2>4 DEF Next
<1> QED BY <1>1, <1>2 DEF RInv

THEOREM RepeatsInvariance == Spec => []RInv
<1> QED BY InitRInv, NextRInv, PTL DEF Spec

(* Whichever source a link has, a chat is told an item twice only for one of the
   reasons that the model names, or because an older item's time was saved with it,
   whatever passes overlap, calls fail, rows come and go. *)
THEOREM LinkRepeatsAccountedFor == Spec => []RepeatsAccountedFor
<1>1. RInv => source \in {"github", "stackoverflow"}
  BY LinkAssumption DEF RInv, IInv, TypeOK
<1>2. RInv => RepeatsAccountedFor
  BY <1>1 DEF RInv, TimeInv, OnceInv, Excused, RepeatsAccountedFor
<1> QED BY <1>2, RepeatsInvariance, PTL

(* With GitHub the time that is saved covers all that is told: only the other
   reasons remain. *)
THEOREM GithubRepeatsExplained ==
  ASSUME Sources = {"github"}
  PROVE  Spec => []RepeatsExplained
<1>1. RInv => source = "github" BY DEF RInv, IInv, TypeOK
<1>2. RInv => RepeatsExplained
  BY <1>1 DEF RInv, TimeInv, OnceInv, Excused, RepeatsExplained
<1> QED BY <1>2, RepeatsInvariance, PTL
=============================================================================
