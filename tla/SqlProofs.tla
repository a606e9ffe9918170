----------------------------- MODULE SqlProofs ------------------------------
(***************************************************************************)
(* Proofs about the SQL storage, for any numbers of chats, links, tags,    *)
(* requests and connections.  The inductive invariant IInv takes, beside   *)
(* types, what each request has in hand at each statement (Shape), that an *)
(* identity value stands for one URL as long as a row or a request         *)
(* mentions it (IdInv), the count of the pool (PoolInv), and the           *)
(* references that the foreign keys and their locks keep (RefInv).         *)
(* SaveInv adds what SavedMeansStored rests on.                            *)
(***************************************************************************)
EXTENDS SqlStore, WaitGraphProofs, SequenceTheorems

Writing == {"SaveTags", "Commit"}
Removing == {"DeleteUser", "CheckUsers", "DeleteLink"}

(* What a request has in hand: nothing before its INSERTs and after its answer, an id
   once it has found or made the link, and no row without the subscription. *)
Shape(s) ==
  /\ pc[s] \notin {"GetLinkID", "InsertUser"} \cup Writing => tx[s] = NoTx
  /\ pc[s] \notin {"GetLinkID", "InsertUser"} \cup Writing \cup Removing => linkID[s] = 0
  /\ pc[s] \in {"GetLinkID", "InsertUser"} =>
       ~tx[s].sub /\ tx[s].tags = {} /\ tx[s].names = {} /\ ~tx[s].failed
  /\ pc[s] \in {"InsertUser"} \cup Writing \cup Removing => linkID[s] # 0
  /\ tx[s].failed => ~tx[s].row /\ ~tx[s].sub /\ tx[s].tags = {}
  /\ pc[s] \in Writing /\ tx[s].row => tx[s].sub

ShapeInv == \A s \in Slots : Shape(s)

-----------------------------------------------------------------------------
LEMMA RequestTypes ==
  ASSUME NEW r \in AnyRequest
  PROVE  r.user \in Users /\ r.url \in URLs /\ r.tags \in Seq(Tags)
BY DEF AnyRequest

LEMMA NoRequestType == NoRequest \in AnyRequest
BY SqlStoreAssumption DEF NoRequest

LEMMA StepNames ==
  /\ AddSteps \subseteq Steps /\ RemoveSteps \subseteq Steps /\ Results \subseteq Steps
  /\ {"idle", "Begin", "FindLink", "InsertLink", "GetLinkID", "InsertUser", "SaveTags",
      "Commit"} \subseteq Steps
  /\ {"FindID", "DeleteUser", "CheckUsers", "DeleteLink"} \subseteq Steps
  /\ {"nil", "ErrLinkAlreadyExists", "ErrLinkNotFound", "error"} \subseteq Steps
BY DEF Steps, AddSteps, RemoveSteps, Results

LEMMA NoneTypes == NoTx \in AnyTx /\ [NoTx EXCEPT !.failed = TRUE] \in AnyTx
BY DEF NoTx, AnyTx

LEMMA IDTypes == IDs \subseteq Nat \ {0} /\ IsFiniteSet(IDs)
                 /\ Cardinality(IDs) = Cardinality(URLs) + Cardinality(Slots)
<1>1. Cardinality(URLs) \in Nat /\ Cardinality(Slots) \in Nat
  BY SqlStoreAssumption, FS_CardinalityType
<1> DEFINE n == Cardinality(URLs) + Cardinality(Slots)
<1>2. n \in Nat BY <1>1
<1>3. IDs = 1..n BY DEF IDs
<1> HIDE DEF n
<1>4. IsFiniteSet(1..n) /\ Cardinality(1..n) = n
  <2>1. Cardinality(1..n) = IF 1 > n THEN 0 ELSE n - 1 + 1 BY <1>2, FS_Interval
  <2>2. IsFiniteSet(1..n) BY <1>2, FS_Interval
  <2> QED BY <1>2, <2>1, <2>2
<1> QED BY <1>2, <1>3, <1>4 DEF n

SlotTypes ==
  /\ pc \in [Slots -> Steps]
  /\ req \in [Slots -> AnyRequest]
  /\ linkID \in [Slots -> IDs \cup {0}]
  /\ tx \in [Slots -> AnyTx]
  /\ left \in [Slots -> Seq(Tags)]

TableTypes ==
  /\ users \subseteq Users
  /\ links \subseteq IDs \X URLs
  /\ linkUsers \subseteq Users \X IDs
  /\ linkTags \subseteq Users \X IDs \X Tags
  /\ tagNames \subseteq Tags
  /\ excused \subseteq IDs

(* A row of links has its id, and an id that some request has in hand is of its URL:
   ids of rows that are gone do not come back while a request mentions them. *)
IdInv ==
  /\ \A r, q \in links : r[1] = q[1] => r = q
  /\ \A s \in Slots : tx[s].row =>
       /\ linkID[s] # 0
       /\ \A url \in URLs : <<linkID[s], url>> \notin links
       /\ \A t \in Slots \ {s} : linkID[t] # linkID[s]
  /\ \A s \in Slots : \A url \in URLs : <<linkID[s], url>> \in links => url = Url(s)

-----------------------------------------------------------------------------
(* A step of one request leaves the others alone. *)

SlotStep(s) ==
  \/ \E r \in Requests : CallAddLink(s, r) \/ CallRemoveLink(s, r.user, r.url)
  \/ Step(s) \/ AddLinkFails(s) \/ RemoveLinkFails(s)

Same(t) ==
  /\ pc'[t] = pc[t] /\ req'[t] = req[t] /\ linkID'[t] = linkID[t] /\ tx'[t] = tx[t]
  /\ left'[t] = left[t]

LEMMA Returned ==
  ASSUME SlotTypes, NEW s \in Slots, NEW r, Return(s, r)
  PROVE  /\ pc'[s] = r /\ linkID'[s] = 0 /\ tx'[s] = NoTx /\ left'[s] = <<>>
         /\ req' = req
         /\ \A t \in Slots \ {s} : Same(t)
BY DEF SlotTypes, Return, GoTo, Same

LEMMA ReturnTypes ==
  ASSUME SlotTypes, NEW s \in Slots, NEW r \in Results, Return(s, r)
  PROVE  SlotTypes'
<1>1. <<>> \in Seq(Tags) BY EmptySeq
<1> QED BY <1>1, StepNames, NoneTypes DEF SlotTypes, Return, GoTo

LEMMA OthersStay ==
  ASSUME SlotTypes, NEW s \in Slots, SlotStep(s)
  PROVE  \A t \in Slots \ {s} : Same(t)
<1> USE DEF tables, requests, GoTo, Same
<1>1. ASSUME NEW r \in Requests, CallAddLink(s, r) \/ CallRemoveLink(s, r.user, r.url)
      PROVE  \A t \in Slots \ {s} : Same(t)
  BY <1>1 DEF SlotTypes, CallAddLink, CallRemoveLink
<1>2. ASSUME NEW r, Return(s, r)
      PROVE  \A t \in Slots \ {s} : Same(t)
  BY <1>2, Returned
<1>3. CASE Begin(s) \/ SavedTags(s) \/ Respond(s)
  BY <1>3 DEF SlotTypes, Begin, SavedTags, Respond
<1>4. CASE FindLink(s) BY <1>2, <1>4 DEF SlotTypes, FindLink
<1>5. CASE InsertLink(s) BY <1>5 DEF SlotTypes, InsertLink
<1>6. CASE GetLinkID(s) BY <1>2, <1>6 DEF SlotTypes, GetLinkID
<1>7. CASE InsertUser(s) BY <1>7 DEF SlotTypes, InsertUser, Abort
<1>8. CASE SaveTag(s)
  <2>1. CASE tx' = tx BY <1>8, <2>1 DEF SlotTypes, SaveTag
  <2>2. CASE tx' # tx BY <1>8, <2>2 DEF SlotTypes, SaveTag, Abort
  <2> QED BY <2>1, <2>2
<1>9. CASE DeadlockVictim(s) BY <1>9 DEF SlotTypes, DeadlockVictim, Abort
<1>10. CASE Commit(s) BY <1>2, <1>10 DEF Commit
<1>11. CASE AddLinkFails(s)
  <2>1. CASE pc[s] \in {"InsertUser", "SaveTags"}
    BY <1>11, <2>1 DEF SlotTypes, AddLinkFails, Abort
  <2>2. CASE pc[s] \notin {"InsertUser", "SaveTags"} BY <1>2, <1>11, <2>2 DEF AddLinkFails
  <2> QED BY <2>1, <2>2
<1>12. CASE FindID(s) BY <1>2, <1>12 DEF SlotTypes, FindID
<1>13. CASE DeleteUser(s) BY <1>2, <1>13 DEF SlotTypes, DeleteUser
<1>14. CASE CheckUsers(s) BY <1>2, <1>14 DEF SlotTypes, CheckUsers
<1>15. CASE DeleteLink(s) \/ RemoveLinkFails(s)
  BY <1>2, <1>15 DEF DeleteLink, RemoveLinkFails
<1> QED BY <1>1, <1>3, <1>4, <1>5, <1>6, <1>7, <1>8, <1>9, <1>10, <1>11, <1>12, <1>13, <1>14,
           <1>15 DEF SlotStep, Step, AddLinkStep, RemoveLinkStep

-----------------------------------------------------------------------------
LEMMA ImageSize ==
  ASSUME NEW S, IsFiniteSet(S), NEW f
  PROVE  /\ IsFiniteSet({f[x] : x \in S})
         /\ Cardinality({f[x] : x \in S}) <= Cardinality(S)
<1> DEFINE T == {f[x] : x \in S}
           g == [x \in S |-> f[x]]
<1>1. g \in Surjection(S, T) BY DEF Surjection
<1> HIDE DEF g, T
<1>2. IsFiniteSet(T) /\ Cardinality(T) <= Cardinality(S) BY <1>1, FS_Surjection
<1> QED BY <1>2 DEF T

(* The sequence of identity values never runs out: rows have different URLs, and the
   request that inserts has no id in hand. *)
LEMMA FreshID ==
  ASSUME SlotTypes, TableTypes, UniqueUrl, NEW s \in Slots, linkID[s] = 0
  PROVE  \E id \in IDs : id \notin {row[1] : row \in links} \cup {linkID[t] : t \in Slots}
<1> DEFINE idOf(url) == CHOOSE id \in IDs : <<id, url>> \in links
           idOfUrl == [url \in URLs |-> idOf(url)]
           byUrl == {idOfUrl[url] : url \in URLs}
           bySlot == {linkID[t] : t \in Slots \ {s}}
<1>1. IsFiniteSet(byUrl) /\ Cardinality(byUrl) <= Cardinality(URLs)
  BY SqlStoreAssumption, ImageSize
<1>2. IsFiniteSet(Slots \ {s}) /\ Cardinality(Slots \ {s}) = Cardinality(Slots) - 1
  BY SqlStoreAssumption, FS_RemoveElement
<1>3. IsFiniteSet(bySlot) /\ Cardinality(bySlot) <= Cardinality(Slots \ {s})
  BY <1>2, ImageSize
<1>4. {row[1] : row \in links} \subseteq byUrl
  <2>1. ASSUME NEW row \in links PROVE row[1] \in byUrl
    <3>1. row = <<row[1], row[2]>> /\ row[1] \in IDs /\ row[2] \in URLs BY DEF TableTypes
    <3>2. idOf(row[2]) \in IDs /\ <<idOf(row[2]), row[2]>> \in links BY <3>1
    <3>3. <<idOf(row[2]), row[2]>> = row BY <3>2 DEF UniqueUrl
    <3>4. idOfUrl[row[2]] = row[1] BY <3>1, <3>3
    <3> QED BY <3>1, <3>4
  <2> QED BY <2>1
<1>5. {linkID[t] : t \in Slots} \subseteq bySlot \cup {0} OBVIOUS
<1>6. /\ Cardinality(byUrl) \in Nat /\ Cardinality(bySlot) \in Nat
      /\ Cardinality(URLs) \in Nat /\ Cardinality(Slots) \in Nat
  BY <1>1, <1>3, SqlStoreAssumption, FS_CardinalityType
<1> HIDE DEF byUrl, bySlot
<1>7. /\ IsFiniteSet(byUrl \cup bySlot) /\ Cardinality(byUrl \cup bySlot) \in Nat
      /\ Cardinality(byUrl \cup bySlot) <= Cardinality(byUrl) + Cardinality(bySlot)
  <2>1. IsFiniteSet(byUrl \cup bySlot) BY <1>1, <1>3, FS_Union
  <2>2. Cardinality(byUrl \cup bySlot) =
          Cardinality(byUrl) + Cardinality(bySlot) - Cardinality(byUrl \cap bySlot)
    BY <1>1, <1>3, FS_Union
  <2>3. Cardinality(byUrl \cap bySlot) \in Nat
    BY <1>1, <1>3, FS_Intersection, FS_CardinalityType
  <2>4. Cardinality(byUrl \cup bySlot) \in Nat BY <2>1, FS_CardinalityType
  <2> QED BY <1>6, <2>1, <2>2, <2>3, <2>4
<1>8. ~(IDs \subseteq byUrl \cup bySlot)
  <2> SUFFICES ASSUME IDs \subseteq byUrl \cup bySlot PROVE FALSE
    OBVIOUS
  <2>1. Cardinality(IDs) <= Cardinality(byUrl \cup bySlot) BY <1>7, FS_Subset
  <2> QED BY <1>1, <1>2, <1>3, <1>6, <1>7, <2>1, IDTypes
<1>9. PICK id \in IDs : id \notin byUrl \cup bySlot BY <1>8
<1>10. id # 0 BY IDTypes
<1> QED BY <1>4, <1>5, <1>9, <1>10

LEMMA Inserted ==
  ASSUME SlotTypes, TableTypes, UniqueUrl, ShapeInv, NEW s \in Slots, InsertLink(s)
  PROVE  /\ pc[s] = "InsertLink" /\ pc'[s] = "GetLinkID" /\ req' = req /\ left' = left
         /\ tx[s] = NoTx /\ linkID[s] = 0
         /\ \/ linkID' = linkID /\ tx' = tx
            \/ /\ ~WaitsForUrl(s)
               /\ \A id \in IDs : <<id, Url(s)>> \notin links
               /\ tx' = [tx EXCEPT ![s] = [NoTx EXCEPT !.row = TRUE]]
               /\ linkID'[s] \in IDs
               /\ \A row \in links : row[1] # linkID'[s]
               /\ \A t \in Slots : linkID[t] # linkID'[s]
               /\ linkID' = [linkID EXCEPT ![s] = linkID'[s]]
<1>1. pc[s] = "InsertLink" /\ tx[s] = NoTx /\ linkID[s] = 0
  BY DEF InsertLink, ShapeInv, Shape, Writing, Removing
<1>2. pc'[s] = "GetLinkID" /\ req' = req /\ left' = left
  BY DEF InsertLink, GoTo, SlotTypes
<1>3. CASE \E id \in IDs : <<id, Url(s)>> \in links
  BY <1>1, <1>2, <1>3 DEF InsertLink
<1>4. CASE \A id \in IDs : <<id, Url(s)>> \notin links
  <2> DEFINE used == {row[1] : row \in links} \cup {linkID[t] : t \in Slots}
             new  == CHOOSE id \in IDs : id \notin used
  <2>1. new \in IDs /\ new \notin used BY <1>1, FreshID
  <2>2. linkID' = [linkID EXCEPT ![s] = new] /\ tx' = [tx EXCEPT ![s].row = TRUE]
    BY <1>4 DEF InsertLink
  <2>3. tx' = [tx EXCEPT ![s] = [NoTx EXCEPT !.row = TRUE]] BY <1>1, <2>2
  <2>4. (\A row \in links : row[1] # new) /\ (\A t \in Slots : linkID[t] # new) BY <2>1
  <2> HIDE DEF new, used
  <2>5. linkID'[s] = new BY <2>2 DEF SlotTypes
  <2> QED BY <1>1, <1>2, <1>4, <2>1, <2>2, <2>3, <2>4, <2>5 DEF InsertLink
<1> QED BY <1>3, <1>4

FailedTx == [NoTx EXCEPT !.failed = TRUE]

LEMMA FailedTxIs ==
  /\ FailedTx \in AnyTx /\ FailedTx.failed
  /\ ~FailedTx.row /\ ~FailedTx.sub /\ FailedTx.tags = {}
BY DEF FailedTx, NoTx, AnyTx

LEMMA UserInserted ==
  ASSUME SlotTypes, NEW s \in Slots, InsertUser(s)
  PROVE  /\ pc[s] = "InsertUser" /\ pc'[s] = "SaveTags" /\ pc' \in [Slots -> Steps]
         /\ req' = req /\ linkID' = linkID /\ left' = left /\ tx' \in [Slots -> AnyTx]
         /\ \/ tx'[s] = FailedTx
            \/ /\ Sees(s, linkID[s])
               /\ tx'[s] \in AnyTx
               /\ tx'[s].row = tx[s].row /\ tx'[s].tags = tx[s].tags
               /\ tx'[s].failed = tx[s].failed
               /\ tx'[s].sub <=> <<User(s), linkID[s]>> \notin linkUsers
<1>1. /\ pc[s] = "InsertUser" /\ pc'[s] = "SaveTags" /\ pc' \in [Slots -> Steps]
      /\ req' = req /\ linkID' = linkID /\ left' = left
  BY StepNames DEF SlotTypes, InsertUser, GoTo
<1>2. CASE User(s) \notin users \/ ~Sees(s, linkID[s])
  BY <1>1, <1>2, FailedTxIs DEF SlotTypes, InsertUser, Abort, FailedTx
<1>3. CASE ~(User(s) \notin users \/ ~Sees(s, linkID[s]))
  <2> DEFINE new == (<<User(s), linkID[s]>> \notin linkUsers)
  <2>1. tx' = [tx EXCEPT ![s] = [tx[s] EXCEPT !.sub = new]] BY <1>3 DEF InsertUser
  <2>2. new \in BOOLEAN OBVIOUS
  <2>3. tx[s] \in AnyTx BY DEF SlotTypes
  <2> HIDE DEF new
  <2>4. [tx[s] EXCEPT !.sub = new] \in AnyTx BY <2>2, <2>3 DEF AnyTx
  <2>5. tx'[s] = [tx[s] EXCEPT !.sub = new] BY <2>1 DEF SlotTypes
  <2>6. /\ tx'[s].row = tx[s].row /\ tx'[s].tags = tx[s].tags
        /\ tx'[s].failed = tx[s].failed /\ tx'[s].sub = new
    BY <2>3, <2>5 DEF AnyTx
  <2>7. tx' \in [Slots -> AnyTx] BY <2>1, <2>4 DEF SlotTypes
  <2> QED BY <1>1, <1>3, <2>4, <2>5, <2>6, <2>7 DEF new
<1> QED BY <1>2, <1>3

(* What SaveTag, or a deadlock's victim or failure there, does to the transaction. *)
TagSaved(s) ==
  /\ tx'[s].row = tx[s].row /\ tx'[s].sub = tx[s].sub /\ ~tx'[s].failed /\ ~tx[s].failed
  /\ tx[s].sub \/ <<User(s), linkID[s]>> \in linkUsers
  /\ tx[s].tags \subseteq tx'[s].tags
  /\ tx'[s].tags \subseteq tx[s].tags \cup {Head(left[s])}
  /\ <<User(s), linkID[s], Head(left[s])>> \notin linkTags => Head(left[s]) \in tx'[s].tags

LEMMA TagEffect ==
  ASSUME SlotTypes, NEW s \in Slots, SaveTag(s)
  PROVE  /\ pc[s] = "SaveTags" /\ pc' = pc /\ req' = req /\ linkID' = linkID
         /\ left[s] # <<>> /\ left' = [left EXCEPT ![s] = Tail(left[s])]
         /\ tx' \in [Slots -> AnyTx]
         /\ tx'[s] = FailedTx \/ (tx[s].failed /\ tx'[s] = tx[s]) \/ TagSaved(s)
<1>1. /\ pc[s] = "SaveTags" /\ pc' = pc /\ req' = req /\ linkID' = linkID
      /\ left[s] # <<>> /\ left' = [left EXCEPT ![s] = Tail(left[s])]
  BY DEF SaveTag
<1>2. tx[s] \in AnyTx /\ left[s] \in Seq(Tags) BY DEF SlotTypes
<1>3. Head(left[s]) \in Tags BY <1>1, <1>2, HeadTailProperties
<1>4. CASE tx[s].failed BY <1>1, <1>4 DEF SlotTypes, SaveTag
<1>5. CASE ~tx[s].failed /\ ~tx[s].sub /\ <<User(s), linkID[s]>> \notin linkUsers
  BY <1>1, <1>5, FailedTxIs DEF SlotTypes, SaveTag, Abort, FailedTx
<1>6. CASE ~tx[s].failed /\ (tx[s].sub \/ <<User(s), linkID[s]>> \in linkUsers)
  <2> DEFINE tag == Head(left[s])
             tags == IF <<User(s), linkID[s], tag>> \in linkTags THEN tx[s].tags
                     ELSE tx[s].tags \cup {tag}
             names == IF tag \in tagNames THEN tx[s].names ELSE tx[s].names \cup {tag}
  <2>1. tags \in SUBSET Tags /\ names \in SUBSET Tags BY <1>2, <1>3 DEF AnyTx
  <2>2. tx' = [tx EXCEPT ![s] = [[tx[s] EXCEPT !.tags = tags] EXCEPT !.names = names]]
    BY <1>6 DEF SaveTag, SlotTypes
  <2>3. /\ tx[s].tags \subseteq tags /\ tags \subseteq tx[s].tags \cup {tag}
        /\ <<User(s), linkID[s], tag>> \notin linkTags => tag \in tags
    OBVIOUS
  <2> HIDE DEF tags, names
  <2>4. [[tx[s] EXCEPT !.tags = tags] EXCEPT !.names = names] \in AnyTx
    BY <1>2, <2>1 DEF AnyTx
  <2>5. tx'[s] = [[tx[s] EXCEPT !.tags = tags] EXCEPT !.names = names]
    BY <2>2 DEF SlotTypes
  <2>6. /\ tx'[s].row = tx[s].row /\ tx'[s].sub = tx[s].sub
        /\ tx'[s].failed = tx[s].failed /\ tx'[s].tags = tags
    BY <1>2, <2>5 DEF AnyTx
  <2>7. tx' \in [Slots -> AnyTx] BY <2>2, <2>4 DEF SlotTypes
  <2> QED BY <1>1, <1>6, <2>3, <2>6, <2>7 DEF TagSaved
<1> QED BY <1>4, <1>5, <1>6

(* A statement of the transaction fails. *)
Aborted(s) ==
  /\ pc[s] \in {"InsertUser", "SaveTags"} /\ pc'[s] = "SaveTags"
  /\ req' = req /\ linkID' = linkID
  /\ tx' = [tx EXCEPT ![s] = FailedTx]
  /\ UNCHANGED <<tables, leaked, excused>>
  /\ \/ left' = left /\ pc[s] = "InsertUser"
     \/ left' = [left EXCEPT ![s] = Tail(left[s])] /\ left[s] # <<>>

(* PostgreSQL breaks circles of saveTags only. *)
LEMMA DeadlockedWaits ==
  ASSUME NEW s \in Slots, Deadlocked(s)
  PROVE  \E t \in Slots : WaitsForTag(s, t)
<1>1. PICK pair \in TagWaits : pair[1] = s BY OnCycleWaits DEF Deadlocked
<1> QED BY <1>1 DEF TagWaits

LEMMA VictimWaits ==
  ASSUME NEW s \in Slots, DeadlockVictim(s)
  PROVE  pc[s] = "SaveTags" /\ left[s] # <<>> /\ ~tx[s].failed
BY DeadlockedWaits DEF DeadlockVictim, WaitsForTag

LEMMA Aborts ==
  ASSUME SlotTypes, NEW s \in Slots
  PROVE  /\ DeadlockVictim(s) => Aborted(s)
         /\ AddLinkFails(s) =>
              \/ Aborted(s)
              \/ /\ pc[s] \in {"Begin", "InsertLink", "GetLinkID", "Commit"}
                 /\ Return(s, "error") /\ UNCHANGED <<tables, leaked, excused>>
<1>1. ASSUME DeadlockVictim(s) PROVE Aborted(s)
  <2>1. pc[s] = "SaveTags" /\ left[s] # <<>> BY <1>1, VictimWaits
  <2> QED BY <1>1, <2>1 DEF DeadlockVictim, Abort, FailedTx, Aborted
<1>2. ASSUME AddLinkFails(s), pc[s] \in {"InsertUser", "SaveTags"} PROVE Aborted(s)
  BY <1>2 DEF SlotTypes, AddLinkFails, Abort, FailedTx, Aborted, GoTo
<1> QED BY <1>1, <1>2 DEF AddLinkFails

LEMMA AbortedTypes ==
  ASSUME SlotTypes, NEW s \in Slots, Aborted(s), pc' \in [Slots -> Steps]
  PROVE  SlotTypes' /\ tx'[s] = FailedTx /\ \A t \in Slots \ {s} : tx'[t] = tx[t]
<1>1. left' \in [Slots -> Seq(Tags)]
  <2>1. left[s] # <<>> => Tail(left[s]) \in Seq(Tags) BY HeadTailProperties DEF SlotTypes
  <2> QED BY <2>1 DEF SlotTypes, Aborted
<1> QED BY <1>1, FailedTxIs DEF SlotTypes, Aborted

LEMMA SeenID ==
  ASSUME SlotTypes, TableTypes, ShapeInv, IdInv, UniqueUrl,
         NEW s \in Slots, NEW id \in IDs, Sees(s, id)
  PROVE  /\ id # 0
         /\ tx[s].row => id = linkID[s]
         /\ \A url \in URLs : <<id, url>> \in links => url = Url(s)
<1>1. Url(s) \in URLs BY RequestTypes DEF SlotTypes, Url
<1>2. id # 0 BY IDTypes
<1>3. tx[s].row => id = linkID[s] BY DEF Sees, UniqueUrl
<1>4. ASSUME NEW url \in URLs, <<id, url>> \in links PROVE url = Url(s)
  <2>1. CASE id = linkID[s] BY <1>4, <2>1 DEF IdInv
  <2>2. CASE <<id, Url(s)>> \in links BY <1>4, <2>2 DEF IdInv
  <2> QED BY <2>1, <2>2 DEF Sees
<1> QED BY <1>2, <1>3, <1>4

-----------------------------------------------------------------------------
(* Types. *)

LEMMA FoundID ==
  ASSUME SlotTypes, NEW s \in Slots, NEW id \in IDs, linkID' = [linkID EXCEPT ![s] = id]
  PROVE  linkID' \in [Slots -> IDs \cup {0}] /\ linkID'[s] = id
BY DEF SlotTypes

LEMMA SlotTypeStep ==
  ASSUME SlotTypes, TableTypes, ShapeInv, UniqueUrl, NEW s \in Slots, SlotStep(s)
  PROVE  SlotTypes'
<1> USE DEF tables, requests
<1>1. ASSUME NEW r \in Results, Return(s, r) PROVE SlotTypes'
  BY <1>1, ReturnTypes
<1>2. {"nil", "ErrLinkAlreadyExists", "ErrLinkNotFound", "error"} \subseteq Results BY DEF Results
<1>3. ASSUME NEW r \in Requests, CallAddLink(s, r) PROVE SlotTypes'
  BY <1>3, StepNames, RequestTypes, SqlStoreAssumption DEF SlotTypes, CallAddLink, GoTo
<1>4. ASSUME NEW r \in Requests, CallRemoveLink(s, r.user, r.url) PROVE SlotTypes'
  <2>1. <<>> \in Seq(Tags) BY EmptySeq
  <2>2. [user |-> r.user, url |-> r.url, tags |-> <<>>] \in AnyRequest
    BY <2>1, SqlStoreAssumption DEF AnyRequest
  <2> QED BY <1>4, <2>2, StepNames DEF SlotTypes, CallRemoveLink, GoTo
<1>5. CASE Begin(s) \/ SavedTags(s)
  BY <1>5, StepNames DEF SlotTypes, Begin, SavedTags, GoTo
<1>6. CASE Respond(s) BY <1>6, StepNames, NoRequestType DEF SlotTypes, Respond, GoTo
<1>7. CASE FindLink(s) BY <1>1, <1>2, <1>7, StepNames DEF SlotTypes, FindLink, GoTo
<1>8. CASE InsertLink(s)
  <2>1. pc' \in [Slots -> Steps] BY <1>8, StepNames DEF SlotTypes, InsertLink, GoTo
  <2> DEFINE inserted == [NoTx EXCEPT !.row = TRUE]
  <2>2. inserted \in AnyTx BY DEF NoTx, AnyTx
  <2>3. /\ req' = req /\ left' = left
        /\ \/ linkID' = linkID /\ tx' = tx
           \/ /\ linkID' = [linkID EXCEPT ![s] = linkID'[s]] /\ linkID'[s] \in IDs
              /\ tx' = [tx EXCEPT ![s] = inserted]
    BY <1>8, Inserted
  <2> HIDE DEF inserted
  <2> QED BY <2>1, <2>2, <2>3 DEF SlotTypes
<1>9. CASE GetLinkID(s)
  <2>1. CASE Return(s, "error") BY <1>1, <1>2, <2>1
  <2>2. CASE ~Return(s, "error")
    BY <1>9, <2>2, FoundID, StepNames, ZenonT(60) DEF SlotTypes, GetLinkID, GoTo
  <2> QED BY <2>1, <2>2
<1>10. CASE InsertUser(s) BY <1>10, UserInserted DEF SlotTypes
<1>11. CASE SaveTag(s)
  <2>1. left[s] # <<>> /\ left[s] \in Seq(Tags) BY <1>11, TagEffect DEF SlotTypes
  <2>2. Tail(left[s]) \in Seq(Tags) BY <2>1, HeadTailProperties
  <2> QED BY <1>11, <2>2, TagEffect DEF SlotTypes
<1>12. ASSUME Aborted(s), pc' \in [Slots -> Steps] PROVE SlotTypes' BY <1>12, AbortedTypes
<1>13. CASE DeadlockVictim(s)
  BY <1>12, <1>13, Aborts DEF DeadlockVictim, SlotTypes
<1>14. CASE AddLinkFails(s)
  <2>1. CASE Return(s, "error") BY <1>1, <1>2, <2>1
  <2>2. CASE ~Return(s, "error")
    <3>1. pc' \in [Slots -> Steps]
      BY <1>14, <2>2, StepNames DEF AddLinkFails, GoTo, SlotTypes
    <3> QED BY <1>12, <1>14, <2>2, <3>1, Aborts
  <2> QED BY <2>1, <2>2
<1>15. CASE Commit(s) BY <1>1, <1>2, <1>15 DEF Commit
<1>16. CASE FindID(s)
  <2>1. CASE Return(s, "ErrLinkNotFound") BY <1>1, <1>2, <2>1
  <2>2. CASE ~Return(s, "ErrLinkNotFound")
    BY <1>16, <2>2, FoundID, StepNames, ZenonT(60) DEF SlotTypes, FindID, GoTo
  <2> QED BY <2>1, <2>2
<1>17. CASE DeleteUser(s) BY <1>1, <1>2, <1>17, StepNames DEF SlotTypes, DeleteUser, GoTo
<1>18. CASE CheckUsers(s) BY <1>1, <1>2, <1>18, StepNames DEF SlotTypes, CheckUsers, GoTo
<1>19. CASE DeleteLink(s) \/ RemoveLinkFails(s)
  BY <1>1, <1>2, <1>19 DEF DeleteLink, RemoveLinkFails
<1> QED BY <1>3, <1>4, <1>5, <1>6, <1>7, <1>8, <1>9, <1>10, <1>11, <1>13, <1>14, <1>15, <1>16,
           <1>17, <1>18, <1>19 DEF SlotStep, Step, AddLinkStep, RemoveLinkStep

-----------------------------------------------------------------------------
(* Who writes the tables. *)

Committed(s) ==
  /\ pc[s] = "Commit" /\ ~tx[s].failed
  /\ \E r \in {"nil", "error"} : Return(s, r)
  /\ links' = IF tx[s].row THEN links \cup {<<linkID[s], Url(s)>>} ELSE links
  /\ linkUsers' = IF tx[s].sub THEN linkUsers \cup {<<User(s), linkID[s]>>} ELSE linkUsers
  /\ linkTags' = linkTags \cup {<<User(s), linkID[s], tag>> : tag \in tx[s].tags}
  /\ tagNames' = tagNames \cup tx[s].names
  /\ excused' = IF Holds(s) THEN excused \ {linkID[s]} ELSE excused
  /\ UNCHANGED <<users, leaked>>

Unsubscribed(s) ==
  /\ pc[s] = "DeleteUser"
  /\ \A t \in Slots : ~LocksSub(t, User(s), linkID[s])
  /\ <<User(s), linkID[s]>> \in linkUsers
  /\ linkUsers' = linkUsers \ {<<User(s), linkID[s]>>}
  /\ linkTags' = {row \in linkTags : row[1] # User(s) \/ row[2] # linkID[s]}
  /\ GoTo(s, "CheckUsers")
  /\ UNCHANGED <<req, linkID, tx, left, users, links, tagNames, leaked, excused>>

LEMMA Writes ==
  ASSUME NEW s \in Slots, SlotStep(s)
  PROVE  \/ Committed(s) \/ Unsubscribed(s) \/ DeleteLink(s) \/ RemoveLinkFails(s)
         \/ UNCHANGED <<tables, excused>>
<1> USE DEF tables, requests
<1>1. CASE Commit(s) BY <1>1 DEF Commit, Committed
<1>2. CASE DeleteUser(s) BY <1>2 DEF DeleteUser, Unsubscribed
<1>3. CASE FindLink(s) \/ FindID(s) \/ GetLinkID(s) \/ CheckUsers(s)
  BY <1>3 DEF FindLink, FindID, GetLinkID, CheckUsers
<1>4. CASE SaveTag(s) \/ SavedTags(s) \/ DeadlockVictim(s) \/ AddLinkFails(s) \/ Respond(s)
  BY <1>4 DEF SaveTag, SavedTags, DeadlockVictim, AddLinkFails, Respond
<1>5. CASE Begin(s) \/ InsertLink(s) \/ InsertUser(s)
           \/ \E r \in Requests : CallAddLink(s, r) \/ CallRemoveLink(s, r.user, r.url)
  BY <1>5 DEF Begin, InsertLink, InsertUser, CallAddLink, CallRemoveLink
<1> QED BY <1>1, <1>2, <1>3, <1>4, <1>5 DEF SlotStep, Step, AddLinkStep, RemoveLinkStep

(* The requests of one statement. *)
Chats ==
  \E u \in Users : CreateChat(u) \/ DeleteChat(u) \/ \E tag \in Tags : DeleteTag(u, tag)

LEMMA NextIs == Next <=> (\E s \in Slots : SlotStep(s)) \/ Chats
BY DEF Next, SlotStep, Chats

LEMMA TableStep ==
  ASSUME SlotTypes, TableTypes, ShapeInv, Next
  PROVE  TableTypes'
<1> USE DEF TableTypes
<1>1. ASSUME NEW s \in Slots, SlotStep(s) PROVE TableTypes'
  <2>1. /\ User(s) \in Users /\ Url(s) \in URLs /\ tx[s] \in AnyTx
        /\ linkID[s] # 0 => linkID[s] \in IDs
    BY RequestTypes DEF SlotTypes, User, Url
  <2>2. CASE Committed(s)
    <3>1. linkID[s] \in IDs BY <2>1, <2>2 DEF Committed, ShapeInv, Shape, Writing
    <3>2. links' \subseteq IDs \X URLs /\ linkUsers' \subseteq Users \X IDs
      BY <2>1, <2>2, <3>1 DEF Committed
    <3>3. linkTags' \subseteq Users \X IDs \X Tags
      BY <2>1, <2>2, <3>1 DEF Committed, AnyTx
    <3>4. tagNames' \subseteq Tags /\ excused' \subseteq IDs /\ users' \subseteq Users
      BY <2>1, <2>2 DEF Committed, AnyTx
    <3> QED BY <3>2, <3>3, <3>4
  <2>3. CASE Unsubscribed(s) BY <2>3 DEF Unsubscribed
  <2>4. CASE DeleteLink(s) BY <2>4 DEF DeleteLink
  <2>5. CASE RemoveLinkFails(s) BY <2>5 DEF RemoveLinkFails, tables, Orphans
  <2>6. CASE UNCHANGED <<tables, excused>> BY <2>6 DEF tables
  <2> QED BY <1>1, <2>2, <2>3, <2>4, <2>5, <2>6, Writes
<1>2. CASE Chats
  <2>1. ASSUME NEW u \in Users, CreateChat(u) PROVE TableTypes' BY <2>1 DEF CreateChat
  <2>2. ASSUME NEW u \in Users, DeleteChat(u) PROVE TableTypes'
    BY <2>2 DEF DeleteChat, Orphans
  <2>3. ASSUME NEW u \in Users, NEW tag \in Tags, DeleteTag(u, tag) PROVE TableTypes'
    BY <2>3 DEF DeleteTag
  <2> QED BY <1>2, <2>1, <2>2, <2>3 DEF Chats
<1> QED BY <1>1, <1>2, NextIs

-----------------------------------------------------------------------------
(* The shape of a request. *)

LEMMA Idle ==
  ASSUME NEW s \in Slots, tx'[s] = NoTx, linkID'[s] = 0,
         pc'[s] \notin {"GetLinkID", "InsertUser"} \cup Writing \cup Removing
  PROVE  Shape(s)'
BY DEF Shape, NoTx, Writing, Removing

LEMMA ReturnShape ==
  ASSUME SlotTypes, NEW s \in Slots, NEW r \in Results, Return(s, r)
  PROVE  Shape(s)'
<1>1. pc'[s] = r /\ linkID'[s] = 0 /\ tx'[s] = NoTx BY Returned
<1>2. r \notin {"GetLinkID", "InsertUser"} \cup Writing \cup Removing
  BY DEF Results, Writing, Removing
<1> QED BY <1>1, <1>2, Idle

Refers == \A row \in linkUsers : \E url \in URLs : <<row[2], url>> \in links

LEMMA ShapeStep ==
  ASSUME SlotTypes, TableTypes, ShapeInv, IdInv, UniqueUrl, Refers, NEW s \in Slots, SlotStep(s)
  PROVE  ShapeInv'
<1> USE DEF tables, requests
<1>1. ASSUME NEW t \in Slots \ {s} PROVE Shape(t)'
  <2>1. Same(t) BY OthersStay
  <2> QED BY <2>1 DEF ShapeInv, Shape, Same
<1>2. ASSUME NEW r \in Results, Return(s, r) PROVE Shape(s)' BY <1>2, ReturnShape
<1>3. {"nil", "ErrLinkAlreadyExists", "ErrLinkNotFound", "error"} \subseteq Results BY DEF Results
<1>4. Shape(s) BY DEF ShapeInv
<1> SUFFICES Shape(s)' BY <1>1 DEF ShapeInv
<1>5. CASE \E r \in Requests : CallAddLink(s, r) \/ CallRemoveLink(s, r.user, r.url)
  <2>1. /\ pc[s] = "idle" /\ tx' = tx /\ linkID' = linkID
        /\ pc'[s] \in {"Begin", "FindID"}
    BY <1>5 DEF SlotTypes, CallAddLink, CallRemoveLink, GoTo
  <2>2. tx'[s] = NoTx /\ linkID'[s] = 0 BY <1>4, <2>1 DEF Shape, Writing, Removing
  <2> QED BY <2>1, <2>2, Idle DEF Writing, Removing
<1>6. CASE Begin(s) \/ Respond(s)
  <2>1. /\ pc[s] \in {"Begin"} \cup Results /\ tx' = tx /\ linkID' = linkID
        /\ pc'[s] \in {"FindLink", "idle"}
    BY <1>6 DEF SlotTypes, Begin, Respond, GoTo
  <2>2. tx'[s] = NoTx /\ linkID'[s] = 0 BY <1>4, <2>1 DEF Shape, Writing, Removing, Results
  <2> QED BY <2>1, <2>2, Idle DEF Writing, Removing
<1>7. CASE FindLink(s)
  <2>1. CASE Return(s, "ErrLinkAlreadyExists") BY <1>2, <1>3, <2>1
  <2>2. CASE ~Return(s, "ErrLinkAlreadyExists")
    <3>1. pc[s] = "FindLink" /\ pc'[s] = "InsertLink" /\ tx' = tx /\ linkID' = linkID
      BY <1>7, <2>2 DEF SlotTypes, FindLink, GoTo
    <3>2. tx'[s] = NoTx /\ linkID'[s] = 0 BY <1>4, <3>1 DEF Shape, Writing, Removing
    <3> QED BY <3>1, <3>2, Idle DEF Writing, Removing
  <2> QED BY <2>1, <2>2
<1>8. CASE InsertLink(s)
  <2>1. pc'[s] = "GetLinkID" BY <1>8, Inserted
  <2>2. tx'[s] \in {NoTx, [NoTx EXCEPT !.row = TRUE]} BY <1>8, Inserted DEF SlotTypes
  <2> QED BY <2>1, <2>2 DEF Shape, NoTx, Writing, Removing
<1>9. CASE GetLinkID(s)
  <2>1. CASE Return(s, "error") BY <1>2, <1>3, <2>1
  <2>2. CASE ~Return(s, "error")
    <3>1. PICK id \in IDs : linkID' = [linkID EXCEPT ![s] = id] BY <1>9, <2>2 DEF GetLinkID
    <3>2. linkID'[s] # 0 BY <3>1, FoundID, IDTypes
    <3>3. pc[s] = "GetLinkID" /\ pc'[s] = "InsertUser" /\ tx' = tx
      BY <1>9, <2>2 DEF SlotTypes, GetLinkID, GoTo
    <3> QED BY <1>4, <3>2, <3>3 DEF Shape, Writing, Removing
  <2> QED BY <2>1, <2>2
<1>10. CASE InsertUser(s)
  <2>1. pc[s] = "InsertUser" /\ pc'[s] = "SaveTags" /\ linkID' = linkID BY <1>10, UserInserted
  <2>2. linkID[s] # 0 /\ tx[s].tags = {} /\ ~tx[s].failed
    BY <1>4, <2>1 DEF Shape, Writing
  <2>3. CASE tx'[s] = FailedTx BY <2>1, <2>2, <2>3, FailedTxIs DEF Shape, Writing, Removing
  <2>4. CASE tx'[s] # FailedTx
    <3>1. /\ tx'[s].row = tx[s].row /\ tx'[s].tags = {} /\ ~tx'[s].failed
          /\ tx'[s].sub <=> <<User(s), linkID[s]>> \notin linkUsers
      BY <1>10, <2>2, <2>4, UserInserted
    <3>2. tx[s].row => <<User(s), linkID[s]>> \notin linkUsers BY DEF IdInv, Refers
    <3> QED BY <2>1, <2>2, <3>1, <3>2 DEF Shape, Writing, Removing
  <2> QED BY <2>3, <2>4
<1>11. CASE SaveTag(s)
  <2>1. /\ pc[s] = "SaveTags" /\ pc' = pc /\ linkID' = linkID
        /\ tx'[s] = FailedTx \/ (tx[s].failed /\ tx'[s] = tx[s]) \/ TagSaved(s)
    BY <1>11, TagEffect
  <2>2. CASE tx'[s] = FailedTx
    BY <1>4, <2>1, <2>2, FailedTxIs DEF Shape, Writing, Removing
  <2>3. CASE tx[s].failed /\ tx'[s] = tx[s] BY <1>4, <2>1, <2>3 DEF Shape, Writing, Removing
  <2>4. CASE TagSaved(s) BY <1>4, <2>1, <2>4 DEF Shape, TagSaved, Writing, Removing
  <2> QED BY <2>1, <2>2, <2>3, <2>4
<1>12. ASSUME Aborted(s) PROVE Shape(s)'
  <2>1. /\ pc[s] \in {"InsertUser", "SaveTags"} /\ pc'[s] = "SaveTags" /\ linkID' = linkID
        /\ tx'[s] = FailedTx
    BY <1>12 DEF Aborted, SlotTypes
  <2> QED BY <1>4, <2>1, FailedTxIs DEF Shape, Writing, Removing
<1>13. CASE DeadlockVictim(s) \/ AddLinkFails(s) BY <1>2, <1>3, <1>12, <1>13, Aborts
<1>14. CASE SavedTags(s)
  <2>1. pc[s] = "SaveTags" /\ pc'[s] = "Commit" /\ tx' = tx /\ linkID' = linkID
    BY <1>14 DEF SlotTypes, SavedTags, GoTo
  <2> QED BY <1>4, <2>1 DEF Shape, Writing, Removing
<1>15. CASE Commit(s) \/ DeleteLink(s) \/ RemoveLinkFails(s)
  BY <1>2, <1>3, <1>15 DEF Commit, DeleteLink, RemoveLinkFails
<1>16. CASE FindID(s)
  <2>1. CASE Return(s, "ErrLinkNotFound") BY <1>2, <1>3, <2>1
  <2>2. CASE ~Return(s, "ErrLinkNotFound")
    <3>1. PICK id \in IDs : linkID' = [linkID EXCEPT ![s] = id] BY <1>16, <2>2 DEF FindID
    <3>2. linkID'[s] # 0 BY <3>1, FoundID, IDTypes
    <3>3. pc[s] = "FindID" /\ pc'[s] = "DeleteUser" /\ tx' = tx
      BY <1>16, <2>2 DEF SlotTypes, FindID, GoTo
    <3>4. tx'[s] = NoTx BY <1>4, <3>3 DEF Shape, Writing
    <3> QED BY <3>2, <3>3, <3>4 DEF Shape, NoTx, Writing, Removing
  <2> QED BY <2>1, <2>2
<1>17. CASE DeleteUser(s) \/ CheckUsers(s)
  <2>1. CASE \E r \in Results : Return(s, r) BY <1>2, <2>1
  <2>2. CASE ~\E r \in Results : Return(s, r)
    <3>1. /\ pc[s] \in Removing /\ pc'[s] \in Removing /\ tx' = tx /\ linkID' = linkID
      BY <1>3, <1>17, <2>2 DEF SlotTypes, DeleteUser, CheckUsers, GoTo, Removing
    <3> QED BY <1>4, <3>1 DEF Shape, Writing, Removing
  <2> QED BY <2>1, <2>2
<1> QED
  BY <1>5, <1>6, <1>7, <1>8, <1>9, <1>10, <1>11, <1>13, <1>14, <1>15, <1>16, <1>17
  DEF SlotStep, Step, AddLinkStep, RemoveLinkStep

-----------------------------------------------------------------------------
(* Identity values. *)

LEMMA IdKept ==
  ASSUME SlotTypes, TableTypes, IdInv, UniqueUrl, links' \subseteq links, NEW s \in Slots,
         \A t \in Slots \ {s} : Same(t),
         \/ /\ ~tx'[s].row
            /\ \A url \in URLs : <<linkID'[s], url>> \in links => url = Url(s)'
            /\ linkID'[s] # 0 => \A t \in Slots \ {s} : tx[t].row => linkID[t] # linkID'[s]
         \/ /\ tx'[s].row /\ tx[s].row /\ linkID'[s] = linkID[s] /\ req'[s] = req[s]
  PROVE  IdInv' /\ UniqueUrl'
<1> USE DEF Same, Url
<1>1. \A t \in Slots \ {s} : tx'[t] = tx[t] /\ linkID'[t] = linkID[t] /\ Url(t)' = Url(t)
  OBVIOUS
<1>2. tx'[s].row => tx[s].row /\ linkID'[s] = linkID[s] /\ Url(s)' = Url(s) OBVIOUS
<1>3. \A t \in Slots \ {s} : tx[t].row => linkID[t] # linkID'[s] BY <1>2 DEF IdInv
<1>4. \A url \in URLs : <<linkID'[s], url>> \in links => url = Url(s)' BY <1>2 DEF IdInv
<1> HIDE DEF Url, Same
<1>5. \A t, v \in Slots : tx'[t].row /\ tx'[v].row /\ Url(t)' = Url(v)' => t = v
  BY <1>1, <1>2 DEF UniqueUrl
<1>6. \A t \in Slots : tx'[t].row => \A id \in IDs : <<id, Url(t)'>> \notin links'
  BY <1>1, <1>2 DEF UniqueUrl
<1>7. UniqueUrl'
  <2>1. \A r, q \in links' : r[2] = q[2] => r = q BY DEF UniqueUrl
  <2>2. IDs' = IDs BY DEF IDs
  <2> QED BY <1>5, <1>6, <2>1, <2>2 DEF UniqueUrl
<1>8. ASSUME NEW t \in Slots, tx'[t].row
      PROVE  /\ linkID'[t] # 0
             /\ \A url \in URLs : <<linkID'[t], url>> \notin links'
             /\ \A v \in Slots \ {t} : linkID'[v] # linkID'[t]
  BY <1>1, <1>2, <1>3, <1>8 DEF IdInv
<1>9. ASSUME NEW t \in Slots, NEW url \in URLs, <<linkID'[t], url>> \in links'
      PROVE  url = Url(t)'
  BY <1>1, <1>4, <1>9 DEF IdInv
<1>10. \A r, q \in links' : r[1] = q[1] => r = q BY DEF IdInv
<1> QED BY <1>7, <1>8, <1>9, <1>10 DEF IdInv

(* What a step does to the id that a request has in hand. *)
Kept(s)    == tx'[s].row = tx[s].row /\ linkID'[s] = linkID[s] /\ req'[s] = req[s]
Dropped(s) == ~tx'[s].row /\ linkID'[s] = 0
Undone(s)  == ~tx'[s].row /\ linkID'[s] = linkID[s] /\ req'[s] = req[s]
Found(s)   == /\ tx'[s] = tx[s] /\ req'[s] = req[s]
              /\ \E id \in IDs : Sees(s, id) /\ linkID'[s] = id
New(s)     == /\ req'[s] = req[s] /\ links' = links
              /\ tx'[s].row /\ ~WaitsForUrl(s)
              /\ \A id \in IDs : <<id, Url(s)>> \notin links
              /\ linkID'[s] \in IDs
              /\ \A row \in links : row[1] # linkID'[s]
              /\ \A t \in Slots : linkID[t] # linkID'[s]

LEMMA IdMoves ==
  ASSUME SlotTypes, TableTypes, ShapeInv, UniqueUrl, NEW s \in Slots, SlotStep(s)
  PROVE  Kept(s) \/ Dropped(s) \/ Undone(s) \/ Found(s) \/ New(s)
<1> USE DEF tables, requests
<1>1. ASSUME NEW r, Return(s, r) PROVE Dropped(s) BY <1>1, Returned DEF Dropped, NoTx
<1>2. Shape(s) BY DEF ShapeInv
<1>3. CASE \E r \in Requests : CallAddLink(s, r) \/ CallRemoveLink(s, r.user, r.url)
  <2>1. pc[s] = "idle" /\ tx' = tx /\ linkID' = linkID
    BY <1>3 DEF CallAddLink, CallRemoveLink
  <2> QED BY <1>2, <2>1 DEF Shape, NoTx, Dropped, Writing, Removing
<1>4. CASE Respond(s)
  <2>1. pc[s] \in Results /\ tx' = tx /\ linkID' = linkID BY <1>4 DEF Respond
  <2> QED BY <1>2, <2>1 DEF Shape, NoTx, Dropped, Writing, Removing, Results
<1>5. CASE Begin(s) \/ SavedTags(s) BY <1>5 DEF Begin, SavedTags, Kept
<1>6. CASE FindLink(s) BY <1>1, <1>6 DEF FindLink, Kept
<1>7. CASE InsertLink(s)
  <2>1. links' = links /\ req' = req BY <1>7 DEF InsertLink
  <2>2. CASE linkID' = linkID /\ tx' = tx BY <2>1, <2>2 DEF Kept
  <2>3. CASE ~(linkID' = linkID /\ tx' = tx)
    <3> DEFINE inserted == [NoTx EXCEPT !.row = TRUE]
    <3>1. tx' = [tx EXCEPT ![s] = inserted] BY <1>7, <2>3, Inserted
    <3>2. inserted.row BY DEF NoTx
    <3> HIDE DEF inserted
    <3>3. tx'[s].row BY <3>1, <3>2 DEF SlotTypes
    <3> QED BY <1>7, <2>1, <2>3, <3>3, Inserted DEF New
  <2> QED BY <2>2, <2>3
<1>8. CASE GetLinkID(s)
  <2>1. CASE Return(s, "error") BY <1>1, <2>1
  <2>2. CASE ~Return(s, "error")
    <3>1. PICK id \in IDs : Sees(s, id) /\ linkID' = [linkID EXCEPT ![s] = id]
      BY <1>8, <2>2 DEF GetLinkID
    <3>2. tx' = tx /\ req' = req BY <1>8, <2>2 DEF GetLinkID
    <3> QED BY <3>1, <3>2, FoundID DEF Found
  <2> QED BY <2>1, <2>2
<1>9. CASE InsertUser(s) BY <1>9, UserInserted, FailedTxIs DEF Kept, Undone
<1>10. CASE SaveTag(s)
  <2>1. /\ req' = req /\ linkID' = linkID
        /\ tx'[s] = FailedTx \/ tx'[s] = tx[s] \/ TagSaved(s)
    BY <1>10, TagEffect
  <2> QED BY <2>1, FailedTxIs DEF TagSaved, Kept, Undone
<1>11. ASSUME Aborted(s) PROVE Undone(s)
  BY <1>11, FailedTxIs DEF Aborted, Undone, SlotTypes
<1>12. CASE DeadlockVictim(s) \/ AddLinkFails(s) BY <1>1, <1>11, <1>12, Aborts
<1>13. CASE Commit(s) \/ DeleteLink(s) \/ RemoveLinkFails(s)
  BY <1>1, <1>13 DEF Commit, DeleteLink, RemoveLinkFails
<1>14. CASE FindID(s)
  <2>1. CASE Return(s, "ErrLinkNotFound") BY <1>1, <2>1
  <2>2. CASE ~Return(s, "ErrLinkNotFound")
    <3>1. PICK id \in IDs : <<id, Url(s)>> \in links /\ linkID' = [linkID EXCEPT ![s] = id]
      BY <1>14, <2>2 DEF FindID
    <3>2. tx' = tx /\ req' = req BY <1>14, <2>2 DEF FindID
    <3> QED BY <3>1, <3>2, FoundID DEF Found, Sees
  <2> QED BY <2>1, <2>2
<1>15. CASE DeleteUser(s) \/ CheckUsers(s)
  BY <1>1, <1>15 DEF DeleteUser, CheckUsers, Kept
<1> QED BY <1>3, <1>4, <1>5, <1>6, <1>7, <1>8, <1>9, <1>10, <1>12, <1>13, <1>14, <1>15
    DEF SlotStep, Step, AddLinkStep, RemoveLinkStep

LEMMA IdStep ==
  ASSUME SlotTypes, TableTypes, ShapeInv, IdInv, UniqueUrl, NEW s \in Slots, SlotStep(s)
  PROVE  IdInv' /\ UniqueUrl'
<1>1. \A t \in Slots \ {s} : Same(t) BY OthersStay
<1>2. tx[s] \in AnyTx /\ tx[s].row \in BOOLEAN BY DEF SlotTypes, AnyTx
<1>3. CASE links' \subseteq links /\ ~New(s)
  <2>1. CASE Kept(s)
    <3>1. CASE tx[s].row BY <1>1, <1>3, <2>1, <3>1, IdKept DEF Kept
    <3>2. CASE ~tx[s].row
      <4>1. Url(s)' = Url(s) BY <2>1 DEF Kept, Url
      <4> QED BY <1>1, <1>3, <2>1, <3>2, <4>1, IdKept DEF Kept, IdInv
    <3> QED BY <3>1, <3>2
  <2>2. CASE Dropped(s)
    <3>1. \A url \in URLs : <<0, url>> \notin links BY IDTypes DEF TableTypes
    <3> QED BY <1>1, <1>3, <2>2, <3>1, IdKept DEF Dropped
  <2>3. CASE Undone(s)
    <3>1. Url(s)' = Url(s) BY <2>3 DEF Undone, Url
    <3> QED BY <1>1, <1>3, <2>3, <3>1, IdKept DEF Undone, IdInv
  <2>4. CASE Found(s)
    <3>1. PICK id \in IDs : Sees(s, id) /\ linkID'[s] = id BY <2>4 DEF Found
    <3>2. Url(s)' = Url(s) /\ tx'[s] = tx[s] /\ req'[s] = req[s] BY <2>4 DEF Found, Url
    <3>3. CASE tx[s].row BY <1>1, <1>3, <3>1, <3>2, <3>3, SeenID, IdKept
    <3>4. CASE ~tx[s].row
      <4>1. <<id, Url(s)>> \in links BY <3>1, <3>4 DEF Sees
      <4>2. Url(s) \in URLs BY RequestTypes DEF SlotTypes, Url
      <4>3. \A url \in URLs : <<id, url>> \in links => url = Url(s) BY <3>1, SeenID
      <4>4. \A t \in Slots \ {s} : tx[t].row => linkID[t] # id BY <4>1, <4>2 DEF IdInv
      <4> QED BY <1>1, <1>3, <3>1, <3>2, <3>4, <4>3, <4>4, IdKept
    <3> QED BY <3>3, <3>4
  <2> QED BY <1>3, <2>1, <2>2, <2>3, <2>4, IdMoves
<1>4. CASE New(s)
  <2> DEFINE new == linkID'[s]
  <2>1. Url(s)' = Url(s) /\ links' = links BY <1>4 DEF New, Url
  <2>2. \A t \in Slots \ {s} : tx'[t] = tx[t] /\ linkID'[t] = linkID[t] /\ Url(t)' = Url(t)
    BY <1>1 DEF Same, Url
  <2>3. \A t \in Slots \ {s} : tx[t].row => Url(t) # Url(s)
    BY <1>4 DEF New, WaitsForUrl
  <2>4. /\ new # 0 /\ \A url \in URLs : <<new, url>> \notin links
        /\ \A t \in Slots \ {s} : linkID[t] # new
    BY <1>4, IDTypes DEF New
  <2>5. /\ \A id \in IDs : <<id, Url(s)>> \notin links
        /\ IDs' = IDs
    BY <1>4 DEF New, IDs
  <2> HIDE DEF new
  <2>6. UniqueUrl' BY <2>1, <2>2, <2>3, <2>5 DEF UniqueUrl
  <2>7. ASSUME NEW t \in Slots, tx'[t].row
        PROVE  /\ linkID'[t] # 0
               /\ \A url \in URLs : <<linkID'[t], url>> \notin links
               /\ \A v \in Slots \ {t} : linkID'[v] # linkID'[t]
    BY <2>2, <2>4, <2>7 DEF IdInv, new
  <2>8. ASSUME NEW t \in Slots, NEW url \in URLs, <<linkID'[t], url>> \in links
        PROVE  url = Url(t)'
    BY <2>2, <2>4, <2>8 DEF IdInv, new
  <2> QED BY <2>1, <2>6, <2>7, <2>8 DEF IdInv
<1>5. CASE ~(links' \subseteq links)
  <2>1. Committed(s) /\ tx[s].row
    BY <1>5, Writes DEF Committed, Unsubscribed, DeleteLink, RemoveLinkFails, tables
  <2>2. /\ linkID'[s] = 0 /\ ~tx'[s].row
        /\ links' = links \cup {<<linkID[s], Url(s)>>}
    BY <2>1, Returned DEF Committed, NoTx
  <2>3. \A t \in Slots \ {s} : tx'[t] = tx[t] /\ linkID'[t] = linkID[t] /\ Url(t)' = Url(t)
    BY <1>1 DEF Same, Url
  <2>4. Url(s) \in URLs /\ linkID[s] \in IDs
    BY <2>1, RequestTypes DEF SlotTypes, Url, IdInv
  <2>5. /\ \A id \in IDs : <<id, Url(s)>> \notin links
        /\ \A url \in URLs : <<linkID[s], url>> \notin links
        /\ \A t \in Slots \ {s} : linkID[t] # linkID[s]
        /\ \A t \in Slots \ {s} : tx[t].row => Url(t) # Url(s)
    BY <2>1 DEF IdInv, UniqueUrl
  <2>6. \A row \in links : row = <<row[1], row[2]>> /\ row[1] \in IDs /\ row[2] \in URLs
    BY DEF TableTypes
  <2>7. \A row \in links : row[1] # linkID[s] /\ row[2] # Url(s)
    BY <2>5, <2>6
  <2>8. \A r, q \in links' : (r[1] = q[1] => r = q) /\ (r[2] = q[2] => r = q)
    <3> TAKE r \in links', q \in links'
    <3>1. CASE r \in links /\ q \in links BY <3>1 DEF IdInv, UniqueUrl
    <3>2. CASE r \notin links BY <2>2, <2>7, <3>2
    <3>3. CASE q \notin links BY <2>2, <2>7, <3>3
    <3> QED BY <3>1, <3>2, <3>3
  <2>9. UniqueUrl'
    <3>1. IDs' = IDs BY DEF IDs
    <3>2. \A t, v \in Slots : tx'[t].row /\ tx'[v].row /\ Url(t)' = Url(v)' => t = v
      BY <2>2, <2>3 DEF UniqueUrl
    <3>3. \A t \in Slots : tx'[t].row => \A id \in IDs : <<id, Url(t)'>> \notin links'
      BY <2>2, <2>3, <2>5 DEF UniqueUrl
    <3> QED BY <2>8, <3>1, <3>2, <3>3 DEF UniqueUrl
  <2>10. ASSUME NEW t \in Slots, tx'[t].row
         PROVE  /\ linkID'[t] # 0
                /\ \A url \in URLs : <<linkID'[t], url>> \notin links'
                /\ \A v \in Slots \ {t} : linkID'[v] # linkID'[t]
    BY <2>2, <2>3, <2>5, <2>10 DEF IdInv
  <2>11. ASSUME NEW t \in Slots, NEW url \in URLs, <<linkID'[t], url>> \in links'
         PROVE  url = Url(t)'
    <3>1. CASE t = s
      <4>1. linkID'[s] \notin IDs BY <2>2, IDTypes
      <4>2. links' \subseteq IDs \X URLs BY <2>2, <2>4 DEF TableTypes
      <4> QED BY <2>11, <3>1, <4>1, <4>2
    <3>2. CASE t # s BY <2>2, <2>3, <2>5, <2>11, <3>2 DEF IdInv
    <3> QED BY <3>1, <3>2
  <2> QED BY <2>8, <2>9, <2>10, <2>11 DEF IdInv
<1> QED BY <1>3, <1>4, <1>5

-----------------------------------------------------------------------------
(* What refers to what. *)

(* Subscriptions are of links that are there, and so is what a transaction is about to
   add: the foreign keys and the locks that they take. *)
RefInv ==
  /\ Refers
  /\ \A s \in Slots : Holds(s) => Sees(s, linkID[s])
  /\ \A s \in Slots : tx[s].tags # {} /\ ~tx[s].sub => <<User(s), linkID[s]>> \in linkUsers

(* What a step does to the subscription and the tags of its transaction. *)
Quiet(s) == /\ tx'[s].row = tx[s].row /\ tx'[s].sub = tx[s].sub /\ tx'[s].tags = tx[s].tags
            /\ linkID'[s] = linkID[s] /\ req'[s] = req[s]
Empty(s) == ~tx'[s].sub /\ tx'[s].tags = {}
Subscribes(s) == /\ pc[s] = "InsertUser" /\ tx'[s].row = tx[s].row /\ tx'[s].tags = {}
                 /\ linkID'[s] = linkID[s] /\ req'[s] = req[s] /\ Sees(s, linkID[s])
                 /\ tx'[s].sub <=> <<User(s), linkID[s]>> \notin linkUsers
                 /\ \A t \in Slots :
                      ~(tx[t].sub /\ User(t) = User(s) /\ linkID[t] = linkID[s])
Tagging(s)    == /\ tx'[s].row = tx[s].row /\ tx'[s].sub = tx[s].sub
                 /\ linkID'[s] = linkID[s] /\ req'[s] = req[s] /\ pc[s] = "SaveTags"
                 /\ tx[s].sub \/ <<User(s), linkID[s]>> \in linkUsers

LEMMA TxMoves ==
  ASSUME SlotTypes, TableTypes, ShapeInv, UniqueUrl, NEW s \in Slots, SlotStep(s)
  PROVE  Quiet(s) \/ Empty(s) \/ Subscribes(s) \/ Tagging(s)
<1> USE DEF tables, requests
<1>1. ASSUME NEW r, Return(s, r) PROVE Empty(s) BY <1>1, Returned DEF Empty, NoTx
<1>2. Shape(s) BY DEF ShapeInv
<1>3. ASSUME tx' = tx, pc[s] \notin Writing PROVE Empty(s)
  BY <1>2, <1>3 DEF Shape, NoTx, Empty
<1>4. CASE \E r \in Requests : CallAddLink(s, r) \/ CallRemoveLink(s, r.user, r.url)
  BY <1>3, <1>4 DEF CallAddLink, CallRemoveLink, Writing
<1>5. CASE Respond(s) \/ Begin(s) \/ FindLink(s) \/ GetLinkID(s) \/ FindID(s)
           \/ DeleteUser(s) \/ CheckUsers(s)
  BY <1>1, <1>3, <1>5 DEF Respond, Begin, FindLink, GetLinkID, FindID, DeleteUser, CheckUsers,
    Writing, Results
<1>6. CASE SavedTags(s) BY <1>6 DEF SavedTags, Quiet
<1>7. CASE InsertLink(s)
  <2>1. CASE tx' = tx
    <3>1. pc[s] = "InsertLink" BY <1>7, Inserted
    <3> QED BY <1>3, <2>1, <3>1 DEF Writing
  <2>2. CASE tx' # tx
    <3> DEFINE inserted == [NoTx EXCEPT !.row = TRUE]
    <3>1. tx' = [tx EXCEPT ![s] = inserted] BY <1>7, <2>2, Inserted
    <3>2. ~inserted.sub /\ inserted.tags = {} BY DEF NoTx
    <3> HIDE DEF inserted
    <3> QED BY <3>1, <3>2 DEF SlotTypes, Empty
  <2> QED BY <2>1, <2>2
<1>8. CASE InsertUser(s)
  <2>1. pc[s] = "InsertUser" /\ linkID' = linkID /\ req' = req BY <1>8, UserInserted
  <2>2. tx[s].tags = {} BY <1>2, <2>1 DEF Shape
  <2>3. CASE tx'[s] = FailedTx BY <2>3, FailedTxIs DEF Empty
  <2>4. CASE tx'[s] # FailedTx
    BY <1>8, <2>1, <2>2, <2>4, UserInserted DEF Subscribes, InsertUser, WaitsForSub
  <2> QED BY <2>3, <2>4
<1>9. CASE SaveTag(s)
  <2>1. /\ req' = req /\ linkID' = linkID /\ pc[s] = "SaveTags"
        /\ tx'[s] = FailedTx \/ tx'[s] = tx[s] \/ TagSaved(s)
    BY <1>9, TagEffect
  <2>2. CASE tx'[s] = FailedTx BY <2>2, FailedTxIs DEF Empty
  <2>3. CASE tx'[s] = tx[s] BY <2>1, <2>3 DEF Quiet
  <2>4. CASE TagSaved(s) BY <2>1, <2>4 DEF TagSaved, Tagging
  <2> QED BY <2>1, <2>2, <2>3, <2>4
<1>10. ASSUME Aborted(s) PROVE Empty(s) BY <1>10, FailedTxIs DEF Aborted, Empty, SlotTypes
<1>11. CASE DeadlockVictim(s) \/ AddLinkFails(s) BY <1>1, <1>10, <1>11, Aborts
<1>12. CASE Commit(s) \/ DeleteLink(s) \/ RemoveLinkFails(s)
  BY <1>1, <1>12 DEF Commit, DeleteLink, RemoveLinkFails
<1> QED BY <1>4, <1>5, <1>6, <1>7, <1>8, <1>9, <1>11, <1>12
    DEF SlotStep, Step, AddLinkStep, RemoveLinkStep

(* Rows that open transactions refer to stay. *)
LEMMA RowsStay ==
  ASSUME SlotTypes, TableTypes, ShapeInv, NEW s \in Slots, SlotStep(s), NEW t \in Slots \ {s}
  PROVE  /\ Holds(t) /\ <<linkID[t], Url(t)>> \in links => <<linkID[t], Url(t)>> \in links'
         /\ tx[t].tags # {} /\ <<User(t), linkID[t]>> \in linkUsers =>
              <<User(t), linkID[t]>> \in linkUsers'
<1>1. CASE Committed(s) BY <1>1 DEF Committed
<1>2. CASE Unsubscribed(s)
  <2>1. tx[t].tags # {} => <<User(t), linkID[t]>> # <<User(s), linkID[s]>>
    BY <1>2 DEF Unsubscribed, LocksSub
  <2> QED BY <1>2, <2>1 DEF Unsubscribed
<1>3. CASE DeleteLink(s)
  <2>1. Holds(t) => linkID[t] # linkID[s] BY <1>3 DEF DeleteLink, LocksLink, Holds
  <2>2. tx[t].tags # {} => linkID[t] # linkID[s] BY <2>1 DEF Holds
  <2> QED BY <1>3, <2>1, <2>2 DEF DeleteLink
<1>4. CASE RemoveLinkFails(s) \/ UNCHANGED <<tables, excused>>
  BY <1>4 DEF RemoveLinkFails, tables
<1> QED BY <1>1, <1>2, <1>3, <1>4, Writes

LEMMA RefStep ==
  ASSUME SlotTypes, TableTypes, ShapeInv, IdInv, UniqueUrl, RefInv, NEW s \in Slots, SlotStep(s)
  PROVE  RefInv'
<1>1. \A t \in Slots \ {s} :
        tx'[t] = tx[t] /\ linkID'[t] = linkID[t] /\ Url(t)' = Url(t) /\ User(t)' = User(t)
  BY OthersStay DEF Same, Url, User
<1>2. User(s) \in Users /\ Url(s) \in URLs BY RequestTypes DEF SlotTypes, Url, User
<1>3. Refers'
  <2>1. CASE Committed(s)
    <3>1. CASE tx[s].sub
      <4>1. Sees(s, linkID[s]) BY <3>1 DEF RefInv, Holds
      <4>2. <<linkID[s], Url(s)>> \in links' BY <2>1, <4>1 DEF Committed, Sees
      <4>3. links \subseteq links' /\ linkUsers' = linkUsers \cup {<<User(s), linkID[s]>>}
        BY <2>1, <3>1 DEF Committed
      <4> QED BY <1>2, <4>2, <4>3 DEF RefInv, Refers
    <3>2. CASE ~tx[s].sub BY <2>1, <3>2 DEF Committed, RefInv, Refers
    <3> QED BY <3>1, <3>2
  <2>2. CASE Unsubscribed(s) BY <2>2 DEF Unsubscribed, RefInv, Refers
  <2>3. CASE DeleteLink(s) BY <2>3 DEF DeleteLink, RefInv, Refers
  <2>4. CASE RemoveLinkFails(s) \/ UNCHANGED <<tables, excused>>
    BY <2>4 DEF RemoveLinkFails, tables, RefInv, Refers
  <2> QED BY <2>1, <2>2, <2>3, <2>4, Writes
<1>4. ASSUME NEW t \in Slots, Holds(t)' PROVE Sees(t, linkID[t])'
  <2>1. CASE t # s
    <3>1. Holds(t) /\ Sees(t, linkID[t]) BY <1>1, <1>4, <2>1 DEF Holds, RefInv
    <3>2. tx[t].row \/ <<linkID[t], Url(t)>> \in links' BY <2>1, <3>1, RowsStay DEF Sees
    <3> QED BY <1>1, <2>1, <3>2 DEF Sees
  <2>2. CASE t = s
    <3>1. ~Empty(s) BY <1>4, <2>2 DEF Empty, Holds
    <3>2. /\ tx'[s].row = tx[s].row /\ linkID'[s] = linkID[s] /\ Url(s)' = Url(s)
      BY <3>1, TxMoves DEF Quiet, Subscribes, Tagging, Url
    <3>3. Sees(s, linkID[s])
      <4>1. CASE Quiet(s) \/ (Tagging(s) /\ tx[s].sub)
        BY <1>4, <2>2, <4>1 DEF Quiet, Tagging, Holds, RefInv
      <4>2. CASE Subscribes(s) BY <4>2 DEF Subscribes
      <4>3. CASE Tagging(s) /\ ~tx[s].sub
        <5>1. <<User(s), linkID[s]>> \in linkUsers BY <4>3 DEF Tagging
        <5>2. PICK url \in URLs : <<linkID[s], url>> \in links BY <5>1 DEF RefInv, Refers
        <5>3. url = Url(s) BY <5>2 DEF IdInv
        <5> QED BY <5>2, <5>3 DEF Sees
      <4> QED BY <3>1, <4>1, <4>2, <4>3, TxMoves
    <3>4. CASE links \subseteq links' BY <2>2, <3>2, <3>3, <3>4 DEF Sees
    <3>5. CASE ~(links \subseteq links')
      <4>1. DeleteLink(s)
        BY <3>5, Writes DEF Committed, Unsubscribed, RemoveLinkFails, tables
      <4>2. Return(s, "nil") BY <4>1 DEF DeleteLink
      <4> QED BY <3>1, <4>2, Returned DEF Empty, NoTx
    <3> QED BY <3>4, <3>5
  <2> QED BY <2>1, <2>2
<1>5. ASSUME NEW t \in Slots, tx'[t].tags # {}, ~tx'[t].sub
      PROVE  <<User(t)', linkID'[t]>> \in linkUsers'
  <2>1. CASE t # s BY <1>1, <1>5, <2>1, RowsStay DEF RefInv
  <2>2. CASE t = s
    <3>1. Quiet(s) \/ Tagging(s) BY <1>5, <2>2, TxMoves DEF Empty, Subscribes
    <3>2. /\ linkID'[s] = linkID[s] /\ User(s)' = User(s) /\ <<User(s), linkID[s]>> \in linkUsers
      BY <1>5, <2>2, <3>1 DEF Quiet, Tagging, RefInv, User
    <3>3. tx'[s] # NoTx BY <1>5, <2>2 DEF NoTx
    <3>4. ~DeleteLink(s) /\ ~RemoveLinkFails(s) /\ ~Unsubscribed(s)
      <4>1. ~DeleteLink(s) /\ ~RemoveLinkFails(s)
        BY <3>3, Returned DEF DeleteLink, RemoveLinkFails
      <4>2. ASSUME Unsubscribed(s) PROVE FALSE
        <5>1. pc[s] = "DeleteUser" /\ tx' = tx BY <4>2 DEF Unsubscribed
        <5> QED BY <3>3, <5>1 DEF ShapeInv, Shape, Writing
      <4> QED BY <4>1, <4>2
    <3>5. linkUsers \subseteq linkUsers' BY <3>4, Writes DEF Committed, tables
    <3> QED BY <2>2, <3>2, <3>5
  <2> QED BY <2>1, <2>2
<1> QED BY <1>3, <1>4, <1>5 DEF RefInv

-----------------------------------------------------------------------------
(* The pool. *)

Conns == {s \in Slots : HoldsConn(s)}

(* Connections in use and connections lost are no more than there are. *)
PoolInv == leaked \in Nat /\ leaked + Cardinality(Conns) <= MaxConns

ConnsKept    == Conns' \subseteq Conns /\ leaked' = leaked
ConnTaken(s) == FreeConn /\ Conns' \subseteq Conns \cup {s} /\ leaked' = leaked
ConnLeft(s)  == s \in Conns /\ Conns' \subseteq Conns \ {s} /\ leaked' = leaked + 1

LEMMA ConnMoves ==
  ASSUME SlotTypes, NEW s \in Slots, SlotStep(s)
  PROVE  ConnsKept \/ ConnTaken(s) \/ ConnLeft(s)
<1> USE DEF tables, requests, AddSteps
<1>1. /\ Conns' \subseteq Conns \cup {s}
      /\ ~HoldsConn(s)' => Conns' \subseteq Conns \ {s}
      /\ (HoldsConn(s)' => HoldsConn(s)) => Conns' \subseteq Conns
  BY OthersStay DEF Conns, HoldsConn, Same
<1>2. ASSUME NEW r \in Results, Return(s, r) PROVE ~HoldsConn(s)'
  BY <1>2, Returned DEF HoldsConn, Results
<1>3. ASSUME NEW r \in Results, Return(s, r), leaked' = leaked PROVE ConnsKept
  BY <1>1, <1>2, <1>3 DEF ConnsKept
<1>4. ASSUME HoldsConn(s)' => HoldsConn(s), leaked' = leaked PROVE ConnsKept
  BY <1>1, <1>4 DEF ConnsKept
<1>5. {"nil", "ErrLinkAlreadyExists", "ErrLinkNotFound", "error"} \subseteq Results BY DEF Results
<1>6. CASE \E r \in Requests : CallAddLink(s, r) \/ CallRemoveLink(s, r.user, r.url)
  <2>1. pc'[s] \in {"Begin", "FindID"} /\ leaked' = leaked
    BY <1>6 DEF SlotTypes, CallAddLink, CallRemoveLink, GoTo
  <2> QED BY <1>4, <2>1 DEF HoldsConn
<1>7. CASE Begin(s) BY <1>1, <1>7 DEF Begin, ConnTaken
<1>8. CASE FindLink(s)
  <2>1. CASE Return(s, "ErrLinkAlreadyExists")
    <3>1. ~HoldsConn(s)' BY <1>2, <1>5, <2>1
    <3>2. pc[s] = "FindLink" /\ pc'[s] = "ErrLinkAlreadyExists"
      BY <1>8, <2>1, Returned DEF FindLink
    <3>3. leaked' = leaked + 1 BY <1>8, <3>2 DEF FindLink, GoTo, SlotTypes
    <3> QED BY <1>1, <3>1, <3>2, <3>3 DEF HoldsConn, Conns, ConnLeft
  <2>2. CASE ~Return(s, "ErrLinkAlreadyExists")
    BY <1>4, <1>8, <2>2 DEF FindLink, HoldsConn
  <2> QED BY <2>1, <2>2
<1>9. CASE InsertLink(s) \/ InsertUser(s) \/ SaveTag(s) \/ SavedTags(s) \/ DeadlockVictim(s)
  <2>1. pc[s] \in {"InsertLink", "InsertUser", "SaveTags"} /\ leaked' = leaked
    BY <1>9, VictimWaits DEF InsertLink, InsertUser, SaveTag, SavedTags, DeadlockVictim
  <2> QED BY <1>4, <2>1 DEF HoldsConn
<1>10. CASE GetLinkID(s) BY <1>4, <1>10 DEF GetLinkID, HoldsConn
<1>11. CASE AddLinkFails(s)
  <2>1. leaked' = leaked BY <1>11 DEF AddLinkFails
  <2>2. CASE Return(s, "error") BY <1>3, <1>5, <2>1, <2>2
  <2>3. CASE ~Return(s, "error") BY <1>4, <1>11, <2>1, <2>3 DEF AddLinkFails, HoldsConn
  <2> QED BY <2>2, <2>3
<1>12. CASE Commit(s) \/ DeleteLink(s) \/ RemoveLinkFails(s)
  BY <1>3, <1>5, <1>12 DEF Commit, DeleteLink, RemoveLinkFails
<1>13. CASE FindID(s)
  <2>1. CASE Return(s, "ErrLinkNotFound") BY <1>3, <1>5, <1>13, <2>1 DEF FindID
  <2>2. CASE ~Return(s, "ErrLinkNotFound")
    <3>1. pc'[s] = "DeleteUser" /\ leaked' = leaked
      BY <1>13, <2>2 DEF SlotTypes, FindID, GoTo
    <3> QED BY <1>4, <3>1 DEF HoldsConn
  <2> QED BY <2>1, <2>2
<1>14. CASE DeleteUser(s)
  <2>1. CASE Return(s, "ErrLinkNotFound") BY <1>3, <1>5, <1>14, <2>1 DEF DeleteUser
  <2>2. CASE ~Return(s, "ErrLinkNotFound")
    <3>1. pc'[s] = "CheckUsers" /\ leaked' = leaked
      BY <1>14, <2>2 DEF SlotTypes, DeleteUser, GoTo
    <3> QED BY <1>4, <3>1 DEF HoldsConn
  <2> QED BY <2>1, <2>2
<1>15. CASE CheckUsers(s)
  BY <1>1, <1>15 DEF CheckUsers, ConnTaken
<1>16. CASE Respond(s)
  <2>1. pc'[s] = "idle" /\ leaked' = leaked BY <1>16 DEF SlotTypes, Respond, GoTo
  <2> QED BY <1>4, <2>1 DEF HoldsConn
<1> QED BY <1>6, <1>7, <1>8, <1>9, <1>10, <1>11, <1>12, <1>13, <1>14, <1>15, <1>16
    DEF SlotStep, Step, AddLinkStep, RemoveLinkStep

LEMMA PoolStep ==
  ASSUME PoolInv, NEW s \in Slots, ConnsKept \/ ConnTaken(s) \/ ConnLeft(s)
  PROVE  PoolInv'
<1>1. IsFiniteSet(Conns) /\ Cardinality(Conns) \in Nat
  BY SqlStoreAssumption, FS_Subset, FS_CardinalityType DEF Conns
<1>2. leaked \in Nat /\ MaxConns \in Nat /\ leaked + Cardinality(Conns) <= MaxConns
  BY SqlStoreAssumption DEF PoolInv
<1>3. CASE ConnsKept
  <2>1. Cardinality(Conns') \in Nat /\ Cardinality(Conns') <= Cardinality(Conns)
    BY <1>1, <1>3, FS_Subset, FS_CardinalityType DEF ConnsKept
  <2> QED BY <1>1, <1>2, <1>3, <2>1 DEF ConnsKept, PoolInv
<1>4. CASE ConnTaken(s)
  <2>1. /\ IsFiniteSet(Conns \cup {s})
        /\ Cardinality(Conns \cup {s}) \in Nat
        /\ Cardinality(Conns \cup {s}) <= Cardinality(Conns) + 1
    <3>1. IsFiniteSet(Conns \cup {s}) BY <1>1, FS_AddElement
    <3>2. Cardinality(Conns \cup {s}) \in {Cardinality(Conns), Cardinality(Conns) + 1}
      BY <1>1, FS_AddElement
    <3> QED BY <1>1, <3>1, <3>2, FS_CardinalityType
  <2>2. Cardinality(Conns') \in Nat /\ Cardinality(Conns') <= Cardinality(Conns \cup {s})
    BY <1>4, <2>1, FS_Subset, FS_CardinalityType DEF ConnTaken
  <2>3. leaked + Cardinality(Conns) < MaxConns BY <1>4 DEF ConnTaken, FreeConn, Conns
  <2> QED BY <1>1, <1>2, <1>4, <2>1, <2>2, <2>3 DEF ConnTaken, PoolInv
<1>5. CASE ConnLeft(s)
  <2>1. /\ IsFiniteSet(Conns \ {s})
        /\ Cardinality(Conns \ {s}) = Cardinality(Conns) - 1
    BY <1>1, <1>5, FS_RemoveElement DEF ConnLeft
  <2>2. /\ Cardinality(Conns') \in Nat /\ Cardinality(Conns') <= Cardinality(Conns \ {s})
    BY <1>5, <2>1, FS_Subset, FS_CardinalityType DEF ConnLeft
  <2> QED BY <1>1, <1>2, <1>5, <2>1, <2>2 DEF ConnLeft, PoolInv
<1> QED BY <1>3, <1>4, <1>5

-----------------------------------------------------------------------------
(* Links that nobody tracks. *)

LEMMA OrphanIs ==
  ASSUME NEW rows, NEW id
  PROVE  id \in Orphans(rows) <=>
           /\ id \in IDs
           /\ \E url \in URLs : <<id, url>> \in links
           /\ \A u \in Users : <<u, id>> \notin rows
BY DEF Orphans

LEMMA OrphanStep ==
  ASSUME SlotTypes, TableTypes, ShapeInv, RefInv, OrphansExplained, NEW s \in Slots, SlotStep(s)
  PROVE  OrphansExplained'
<1> DEFINE Deletes(t) == pc[t] \in {"CheckUsers", "DeleteLink"}
<1>1. \A t \in Slots \ {s} : pc'[t] = pc[t] /\ linkID'[t] = linkID[t]
  BY OthersStay DEF Same
<1> SUFFICES ASSUME NEW id \in IDs,
                    \E url \in URLs : <<id, url>> \in links',
                    \A u \in Users : <<u, id>> \notin linkUsers'
             PROVE  \/ id \in excused'
                    \/ \E t \in Slots : pc'[t] \in {"CheckUsers", "DeleteLink"}
                                        /\ linkID'[t] = id
  BY DEF OrphansExplained, Orphans, IDs
<1>2. User(s) \in Users BY RequestTypes DEF SlotTypes, User
<1>3. CASE Committed(s)
  <2>1. tx[s].row => tx[s].sub BY <1>3 DEF Committed, ShapeInv, Shape, Writing
  <2>2. id # linkID[s] \/ ~Holds(s)
    <3>1. Holds(s) => <<User(s), linkID[s]>> \in linkUsers'
      BY <1>3 DEF Committed, Holds, RefInv
    <3> QED BY <1>2, <3>1
  <2>3. \E url \in URLs : <<id, url>> \in links
    BY <1>3, <2>1, <2>2 DEF Committed, Holds
  <2>4. \A u \in Users : <<u, id>> \notin linkUsers BY <1>3 DEF Committed
  <2>5. id \in Orphans(linkUsers) BY <2>3, <2>4, OrphanIs
  <2>6. CASE id \in excused BY <1>3, <2>2, <2>6 DEF Committed
  <2>7. CASE id \notin excused
    <3>1. PICK t \in Slots : Deletes(t) /\ linkID[t] = id BY <2>5, <2>7 DEF OrphansExplained
    <3>2. t # s BY <1>3, <3>1 DEF Committed
    <3> QED BY <1>1, <3>1, <3>2
  <2> QED BY <2>6, <2>7
<1>4. CASE Unsubscribed(s)
  <2>1. CASE id = linkID[s]
    <3>1. pc'[s] = "CheckUsers" /\ linkID'[s] = id
      BY <1>4, <2>1 DEF Unsubscribed, GoTo, SlotTypes
    <3> QED BY <3>1
  <2>2. CASE id # linkID[s]
    <3>1. \A u \in Users : <<u, id>> \notin linkUsers BY <1>4, <2>2 DEF Unsubscribed
    <3>2. id \in Orphans(linkUsers) BY <1>4, <3>1, OrphanIs DEF Unsubscribed
    <3>3. excused' = excused BY <1>4 DEF Unsubscribed
    <3>4. ASSUME NEW t \in Slots, Deletes(t), linkID[t] = id
          PROVE  pc'[t] \in {"CheckUsers", "DeleteLink"} /\ linkID'[t] = id
      <4>1. t # s BY <1>4, <3>4 DEF Unsubscribed
      <4> QED BY <1>1, <3>4, <4>1
    <3> QED BY <3>2, <3>3, <3>4 DEF OrphansExplained
  <2> QED BY <2>1, <2>2
<1>5. CASE DeleteLink(s)
  <2>1. id # linkID[s] BY <1>5 DEF DeleteLink
  <2>2. \A u \in Users : <<u, id>> \notin linkUsers BY <1>5, <2>1 DEF DeleteLink
  <2>3. id \in Orphans(linkUsers) BY <1>5, <2>2, OrphanIs DEF DeleteLink
  <2>4. id \in excused => id \in excused' BY <1>5, <2>1 DEF DeleteLink
  <2> QED BY <1>1, <2>1, <2>3, <2>4 DEF OrphansExplained
<1>6. CASE RemoveLinkFails(s)
  <2>1. UNCHANGED tables BY <1>6 DEF RemoveLinkFails
  <2>2. id \in Orphans(linkUsers) BY <2>1, OrphanIs DEF tables
  <2>3. excused \subseteq excused' BY <1>6 DEF RemoveLinkFails
  <2>4. CASE Deletes(s) /\ linkID[s] = id BY <1>6, <2>2, <2>4 DEF RemoveLinkFails
  <2>5. CASE ~(Deletes(s) /\ linkID[s] = id)
    BY <1>1, <2>2, <2>3, <2>5 DEF OrphansExplained
  <2> QED BY <2>4, <2>5
<1>7. CASE UNCHANGED <<tables, excused>>
  <2>1. id \in Orphans(linkUsers) BY <1>7, OrphanIs DEF tables
  <2>2. CASE id \in excused BY <1>7, <2>2
  <2>3. CASE id \notin excused
    <3>1. PICK t \in Slots : Deletes(t) /\ linkID[t] = id BY <2>1, <2>3 DEF OrphansExplained
    <3>2. CASE t # s BY <1>1, <3>1, <3>2
    <3>3. CASE t = s
      <4>1. ~Unused(id) => FALSE BY <2>1, OrphanIs DEF Unused
      <4>2. CheckUsers(s) \/ DeleteLink(s) \/ RemoveLinkFails(s)
        BY <3>1, <3>3, VictimWaits DEF SlotStep, Step, AddLinkStep, RemoveLinkStep, CallAddLink,
          CallRemoveLink, Begin, FindLink, InsertLink, GetLinkID, InsertUser, SaveTag, SavedTags,
          Commit, AddLinkFails, FindID, DeleteUser, Respond, Results
      <4>3. CASE CheckUsers(s)
        <5>1. pc'[s] = "DeleteLink" /\ linkID'[s] = id
          BY <3>1, <3>3, <4>1, <4>3 DEF CheckUsers, GoTo, SlotTypes
        <5> QED BY <5>1
      <4>4. CASE DeleteLink(s) BY <1>5, <4>4
      <4>5. CASE RemoveLinkFails(s) BY <1>6, <4>5
      <4> QED BY <4>2, <4>3, <4>4, <4>5
    <3> QED BY <3>2, <3>3
  <2> QED BY <2>2, <2>3
<1> QED BY <1>3, <1>4, <1>5, <1>6, <1>7, Writes

-----------------------------------------------------------------------------
(* The requests of one statement. *)

LEMMA ChatsStep ==
  ASSUME SlotTypes, TableTypes, ShapeInv, IdInv, UniqueUrl, PoolInv, RefInv, OrphansExplained,
         Chats
  PROVE  SlotTypes' /\ ShapeInv' /\ IdInv' /\ UniqueUrl' /\ PoolInv' /\ RefInv'
         /\ OrphansExplained'
<1>1. UNCHANGED <<links, leaked, pc, req, linkID, tx, left>>
  BY DEF Chats, CreateChat, DeleteChat, DeleteTag, requests
<1>2. SlotTypes' BY <1>1 DEF SlotTypes
<1>3. ShapeInv' BY <1>1 DEF ShapeInv, Shape
<1>4. IdInv' /\ UniqueUrl' BY <1>1 DEF IdInv, UniqueUrl, Url, IDs
<1>5. PoolInv' BY <1>1 DEF PoolInv, Conns, HoldsConn
<1>6. linkUsers' \subseteq linkUsers
  BY DEF Chats, CreateChat, DeleteChat, DeleteTag
<1>7. RefInv'
  <2>1. Refers' BY <1>1, <1>6 DEF RefInv, Refers
  <2>2. \A s \in Slots : Holds(s)' => Sees(s, linkID[s])'
    BY <1>1 DEF RefInv, Holds, Sees, Url
  <2>3. ASSUME NEW s \in Slots, tx[s].tags # {}, ~tx[s].sub
        PROVE  <<User(s), linkID[s]>> \in linkUsers'
    <3>1. <<User(s), linkID[s]>> \in linkUsers BY <2>3 DEF RefInv
    <3>2. CASE \E u \in Users : DeleteChat(u)
      <4>1. PICK u \in Users : DeleteChat(u) BY <3>2
      <4>2. User(s) # u BY <2>3, <4>1 DEF DeleteChat, LocksUser
      <4> QED BY <3>1, <4>1, <4>2 DEF DeleteChat
    <3>3. CASE ~\E u \in Users : DeleteChat(u)
      BY <3>1, <3>3 DEF Chats, CreateChat, DeleteTag
    <3> QED BY <3>2, <3>3
  <2> QED BY <1>1, <2>1, <2>2, <2>3 DEF RefInv, User
<1>8. OrphansExplained'
  <2>1. CASE \E u \in Users : DeleteChat(u)
    <3>1. PICK u \in Users : DeleteChat(u) BY <2>1
    <3>2. Orphans(linkUsers)' = Orphans(linkUsers') BY <1>1 DEF Orphans, IDs
    <3>3. excused' = excused \cup (Orphans(linkUsers') \ Orphans(linkUsers))
      BY <3>1 DEF DeleteChat
    <3> QED BY <1>1, <3>2, <3>3 DEF OrphansExplained
  <2>2. CASE ~\E u \in Users : DeleteChat(u)
    <3>1. linkUsers' = linkUsers /\ excused' = excused
      BY <2>2 DEF Chats, CreateChat, DeleteTag
    <3> QED BY <1>1, <3>1 DEF OrphansExplained, Orphans, IDs
  <2> QED BY <2>1, <2>2
<1> QED BY <1>2, <1>3, <1>4, <1>5, <1>7, <1>8

-----------------------------------------------------------------------------
IInv ==
  /\ SlotTypes /\ TableTypes
  /\ ShapeInv /\ IdInv /\ UniqueUrl
  /\ PoolInv /\ RefInv
  /\ OrphansExplained

LEMMA IInvInit == Init => IInv
<1> SUFFICES ASSUME Init PROVE IInv
  OBVIOUS
<1> USE DEF Init
<1>1. SlotTypes
  <2>1. <<>> \in Seq(Tags) BY EmptySeq
  <2> QED BY <2>1, NoneTypes, NoRequestType, StepNames DEF SlotTypes
<1>2. TableTypes BY DEF TableTypes
<1>3. ShapeInv BY DEF ShapeInv, Shape, NoTx, Writing, Removing
<1>4. IdInv /\ UniqueUrl BY DEF IdInv, UniqueUrl, NoTx
<1>5. PoolInv
  <2>1. Conns = {} BY DEF Conns, HoldsConn, AddSteps
  <2> QED BY <2>1, FS_EmptySet, SqlStoreAssumption DEF PoolInv
<1>6. RefInv BY DEF RefInv, Refers, Holds, NoTx
<1>7. OrphansExplained BY DEF OrphansExplained, Orphans
<1> QED BY <1>1, <1>2, <1>3, <1>4, <1>5, <1>6, <1>7 DEF IInv

LEMMA IInvNext == IInv /\ [Next]_vars => IInv'
<1> SUFFICES ASSUME IInv, [Next]_vars PROVE IInv'
  OBVIOUS
<1> USE DEF IInv
<1>1. ASSUME NEW s \in Slots, SlotStep(s) PROVE IInv'
  <2>1. SlotTypes' BY <1>1, SlotTypeStep
  <2>2. TableTypes' BY <1>1, TableStep, NextIs
  <2>3. ShapeInv' BY <1>1, ShapeStep DEF RefInv
  <2>4. IdInv' /\ UniqueUrl' BY <1>1, IdStep
  <2>5. PoolInv' BY <1>1, ConnMoves, PoolStep
  <2>6. RefInv' BY <1>1, RefStep
  <2>7. OrphansExplained' BY <1>1, OrphanStep
  <2> QED BY <2>1, <2>2, <2>3, <2>4, <2>5, <2>6, <2>7
<1>2. CASE Chats BY <1>2, ChatsStep, TableStep, NextIs
<1>3. CASE UNCHANGED vars
  <2>1. /\ UNCHANGED <<users, links, linkUsers, linkTags, tagNames, leaked, excused>>
        /\ UNCHANGED <<pc, req, linkID, tx, left>>
    BY <1>3 DEF vars, tables, requests
  <2>2. SlotTypes' /\ TableTypes' BY <2>1 DEF SlotTypes, TableTypes, IDs
  <2>3. ShapeInv' BY <2>1 DEF ShapeInv, Shape
  <2>4. IdInv' /\ UniqueUrl' BY <2>1 DEF IdInv, UniqueUrl, Url, IDs
  <2>5. PoolInv' BY <2>1 DEF PoolInv, Conns, HoldsConn
  <2>6. RefInv' BY <2>1 DEF RefInv, Refers, Holds, Sees, User, Url
  <2>7. OrphansExplained' BY <2>1 DEF OrphansExplained, Orphans, IDs
  <2> QED BY <2>2, <2>3, <2>4, <2>5, <2>6, <2>7
<1> QED BY <1>1, <1>2, <1>3, NextIs

LEMMA IInvHolds == Spec => []IInv
BY IInvInit, IInvNext, PTL DEF Spec

-----------------------------------------------------------------------------
(* Every variable of the SQL storage keeps its type; identity values never run out,
   and no sequence of requests loses more connections than the pool has. *)
THEOREM SqlTypeOK == Spec => []TypeOK
<1>1. IInv => TypeOK
  <2> SUFFICES ASSUME IInv PROVE TypeOK
    OBVIOUS
  <2>1. leaked \in 0..MaxConns
    <3>1. Cardinality(Conns) \in Nat
      BY SqlStoreAssumption, FS_Subset, FS_CardinalityType DEF Conns
    <3> QED BY <3>1, SqlStoreAssumption DEF IInv, PoolInv
  <2> QED BY <2>1 DEF IInv, SlotTypes, TableTypes, TypeOK
<1> QED BY <1>1, IInvHolds, PTL

(* Of any number of AddLinks of one URL, at any point of their transactions, one at
   most has inserted a row for it, and none has when links has one. *)
THEOREM SqlUniqueUrl == Spec => []UniqueUrl
<1>1. IInv => UniqueUrl BY DEF IInv
<1> QED BY <1>1, IInvHolds, PTL

(* Whatever requests interleave, a link that nobody tracks and that nobody could add
   again is one that a RemoveLink is about to delete, or that DeleteChat or a failed
   DELETE left. *)
THEOREM SqlOrphansExplained == Spec => []OrphansExplained
<1>1. IInv => OrphansExplained BY DEF IInv
<1> QED BY <1>1, IInvHolds, PTL

-----------------------------------------------------------------------------
(* All wait. *)

(* Rows of an open transaction are in the hands of one that is past its INSERT. *)
LEMMA Holders ==
  ASSUME ShapeInv, NEW t \in Slots
  PROVE  /\ tx[t].row => pc[t] \in {"GetLinkID", "InsertUser", "SaveTags", "Commit"}
         /\ tx[t].sub \/ tx[t].tags # {} \/ tx[t].names # {} => pc[t] \in {"SaveTags", "Commit"}
BY DEF ShapeInv, Shape, NoTx, Writing

(* However many requests there are, they never all wait as long as the pool has
   connections to give: a request that waits does so, in the end, for one that saves
   tags; those wait for each other; so some are on a circle, which PostgreSQL breaks. *)
THEOREM SqlJamIsExhaustion == Spec => []JamIsExhaustion
<1>1. ASSUME IInv PROVE JamIsExhaustion
  <2> USE DEF IInv
  <2> SUFFICES ASSUME NEW w \in Slots, Waits(w),
                      \A s \in Slots : pc[s] = "idle" \/ Waits(s), leaked # MaxConns
               PROVE  FALSE
    BY <1>1 DEF JamIsExhaustion
  <2> DEFINE Saving == {s \in Slots : \E t \in Slots : WaitsForTag(s, t)}
  <2>1. \A t \in Slots : pc[t] \notin {"GetLinkID", "Commit"}
    BY DEF Waits, NeedsConn, WaitsForLock, WaitsForTag
  <2>2. \A t \in Slots : pc[t] = "SaveTags" => t \in Saving /\ ~Deadlocked(t)
    BY DEF Waits, NeedsConn, WaitsForLock
  <2>3. \A t \in Slots : tx[t].sub \/ tx[t].tags # {} \/ tx[t].names # {} => t \in Saving
    BY <1>1, <2>1, <2>2, Holders
  <2>4. \A s \in Slots : pc[s] = "InsertUser" => Saving # {}
    <3> TAKE s \in Slots
    <3> HAVE pc[s] = "InsertUser"
    <3>1. WaitsForSub(s) BY DEF Waits, NeedsConn, WaitsForLock, WaitsForTag
    <3> QED BY <2>3, <3>1 DEF WaitsForSub
  <2>5. \A t \in Slots : tx[t].row => Saving # {}
    BY <1>1, <2>1, <2>2, <2>4, Holders
  <2>6. ASSUME NEW s \in Slots, WaitsForLock(s) PROVE Saving # {}
    <3>1. CASE WaitsForUrl(s) BY <2>5, <3>1 DEF WaitsForUrl
    <3>2. CASE WaitsForSub(s) BY <2>3, <3>2 DEF WaitsForSub
    <3>3. CASE \E t \in Slots : WaitsForTag(s, t) BY <3>3
    <3>4. CASE \E t \in Slots : LocksSub(t, User(s), linkID[s]) BY <2>3, <3>4 DEF LocksSub
    <3>5. CASE \E t \in Slots : LocksLink(t, linkID[s]) BY <2>3, <3>5 DEF LocksLink
    <3> QED BY <2>6, <3>1, <3>2, <3>3, <3>4, <3>5 DEF WaitsForLock
  <2>7. \E s \in Slots : WaitsForLock(s)
    <3>1. CASE FreeConn BY <3>1 DEF Waits
    <3>2. CASE ~FreeConn
      <4>1. Conns # {}
        <5> SUFFICES ASSUME Conns = {} PROVE FALSE
          OBVIOUS
        <5>1. Cardinality(Conns) = 0 BY FS_EmptySet
        <5>2. leaked < MaxConns BY <1>1, <5>1, SqlStoreAssumption DEF PoolInv
        <5> QED BY <1>1, <3>2, <5>1, <5>2, SqlStoreAssumption DEF FreeConn, Conns, PoolInv
      <4>2. PICK s \in Slots : HoldsConn(s) BY <4>1 DEF Conns
      <4>3. pc[s] # "idle" /\ ~NeedsConn(s) BY <4>2 DEF HoldsConn, NeedsConn, AddSteps
      <4> QED BY <4>3 DEF Waits
    <3> QED BY <3>1, <3>2
  <2>8. Saving # {} BY <2>6, <2>7
  <2>9. \A s \in Saving : \E t \in Saving : <<s, t>> \in TagWaits
    <3> TAKE s \in Saving
    <3>1. PICK t \in Slots : WaitsForTag(s, t) OBVIOUS
    <3>2. t \in Saving BY <2>3, <3>1 DEF WaitsForTag
    <3> QED BY <3>1, <3>2 DEF TagWaits
  <2>10. TagWaits \in SUBSET (Slots \X Slots) /\ Saving \in SUBSET Slots BY DEF TagWaits
  <2>11. \E s \in Saving : OnCycle(TagWaits, Slots, s)
    <3> HIDE DEF Saving
    <3> QED BY <2>8, <2>9, <2>10, SomebodyOnCycle, SqlStoreAssumption
  <2> QED BY <2>2, <2>11 DEF Deadlocked, WaitsForTag
<1> QED BY <1>1, IInvHolds, PTL

-----------------------------------------------------------------------------
(* What a commit is about to write. *)

Listed(s) == {left[s][j] : j \in DOMAIN left[s]}

(* The chat's subscription is in the hands of one transaction at most, rows of
   link_tags have theirs in link_users, and no tag of a request is lost on the way. *)
SubInv ==
  /\ \A s, t \in Slots :
       tx[s].sub /\ tx[t].sub /\ User(s) = User(t) /\ linkID[s] = linkID[t] => s = t
  /\ \A s \in Slots : tx[s].sub => <<User(s), linkID[s]>> \notin linkUsers
  /\ \A row \in linkTags : <<row[1], row[2]>> \in linkUsers

LeftInv(s) ==
  /\ pc[s] \in AddSteps \ Writing => left[s] = req[s].tags
  /\ pc[s] = "Commit" => left[s] = <<>>
  /\ pc[s] \in Writing /\ tx[s].sub =>
       \A i \in DOMAIN req[s].tags : req[s].tags[i] \in tx[s].tags \cup Listed(s)

SaveInv == SubInv /\ \A s \in Slots : LeftInv(s)

LEMMA TagRows ==
  ASSUME TableTypes, NEW row \in linkTags
  PROVE  row = <<row[1], row[2], row[3]>> /\ row[1] \in Users /\ row[2] \in IDs
BY DEF TableTypes

LEMMA SubStep ==
  ASSUME IInv, SubInv, NEW s \in Slots, SlotStep(s)
  PROVE  SubInv'
<1> USE DEF IInv
<1>1. \A t \in Slots \ {s} :
        tx'[t] = tx[t] /\ linkID'[t] = linkID[t] /\ User(t)' = User(t)
  BY OthersStay DEF Same, User
<1>2. ASSUME tx'[s].sub
      PROVE  /\ linkID'[s] = linkID[s] /\ User(s)' = User(s)
             /\ tx[s].sub \/ Subscribes(s)
  BY <1>2, TxMoves DEF Quiet, Empty, Subscribes, Tagging, User
<1>3. \A v, t \in Slots : tx'[v].sub /\ tx'[t].sub /\ User(v)' = User(t)'
                          /\ linkID'[v] = linkID'[t] => v = t
  BY <1>1, <1>2 DEF SubInv, Subscribes
<1>4. ASSUME NEW t \in Slots, tx'[t].sub PROVE <<User(t)', linkID'[t]>> \notin linkUsers'
  <2>1. <<User(t), linkID[t]>> \notin linkUsers /\ User(t)' = User(t) /\ linkID'[t] = linkID[t]
    BY <1>1, <1>2, <1>4 DEF SubInv, Subscribes
  <2>2. CASE Committed(s)
    <3>1. ~tx'[s].sub BY <2>2, Returned DEF Committed, NoTx
    <3>2. t # s BY <1>4, <3>1
    <3>3. tx[s].sub => <<User(s), linkID[s]>> # <<User(t), linkID[t]>>
      BY <1>1, <1>4, <3>2 DEF SubInv
    <3> QED BY <2>1, <2>2, <3>3 DEF Committed
  <2>3. CASE ~Committed(s)
    <3>1. linkUsers' \subseteq linkUsers
      BY <2>3, Writes DEF Unsubscribed, DeleteLink, RemoveLinkFails, tables
    <3> QED BY <2>1, <3>1
  <2> QED BY <2>2, <2>3
<1>5. ASSUME NEW row \in linkTags' PROVE <<row[1], row[2]>> \in linkUsers'
  <2>1. CASE Committed(s)
    <3>1. CASE row \in linkTags BY <2>1, <3>1 DEF Committed, SubInv
    <3>2. CASE row \notin linkTags
      <4>1. PICK tag \in tx[s].tags : row = <<User(s), linkID[s], tag>>
        BY <1>5, <2>1, <3>2 DEF Committed
      <4>2. tx[s].tags # {} BY <4>1
      <4>3. tx[s].sub \/ <<User(s), linkID[s]>> \in linkUsers BY <4>2 DEF RefInv
      <4>4. <<User(s), linkID[s]>> \in linkUsers' BY <2>1, <4>3 DEF Committed
      <4> QED BY <4>1, <4>4
    <3> QED BY <3>1, <3>2
  <2>2. CASE Unsubscribed(s)
    <3>1. row \in linkTags /\ (row[1] # User(s) \/ row[2] # linkID[s])
      BY <1>5, <2>2 DEF Unsubscribed
    <3>2. <<row[1], row[2]>> \in linkUsers BY <3>1 DEF SubInv
    <3> QED BY <2>2, <3>1, <3>2 DEF Unsubscribed
  <2>3. CASE DeleteLink(s)
    <3>1. row \in linkTags /\ row[2] # linkID[s] BY <1>5, <2>3 DEF DeleteLink
    <3>2. <<row[1], row[2]>> \in linkUsers BY <3>1 DEF SubInv
    <3> QED BY <2>3, <3>1, <3>2 DEF DeleteLink
  <2>4. CASE RemoveLinkFails(s) \/ UNCHANGED <<tables, excused>>
    BY <1>5, <2>4 DEF RemoveLinkFails, tables, SubInv
  <2> QED BY <2>1, <2>2, <2>3, <2>4, Writes
<1> QED BY <1>3, <1>4, <1>5 DEF SubInv

LEMMA TailListed ==
  ASSUME NEW S, NEW q \in Seq(S), q # <<>>
  PROVE  {q[j] : j \in DOMAIN q} \subseteq {Head(q)} \cup {Tail(q)[j] : j \in DOMAIN Tail(q)}
<1> SUFFICES ASSUME NEW j \in DOMAIN q, q[j] # Head(q)
             PROVE  \E i \in DOMAIN Tail(q) : Tail(q)[i] = q[j]
  OBVIOUS
<1>1. /\ DOMAIN q = 1..Len(q) /\ Len(q) \in Nat
      /\ DOMAIN Tail(q) = 1..(Len(q) - 1)
      /\ \A i \in 1..(Len(q) - 1) : Tail(q)[i] = q[i + 1]
  BY HeadTailProperties, LenProperties
<1>2. j # 1 OBVIOUS
<1>3. j - 1 \in 1..(Len(q) - 1) /\ (j - 1) + 1 = j BY <1>1, <1>2
<1> QED BY <1>1, <1>3

LEMMA LeftStep ==
  ASSUME IInv, SaveInv, NEW s \in Slots, SlotStep(s)
  PROVE  \A t \in Slots : LeftInv(t)'
<1> USE DEF IInv, tables, requests
<1>1. ASSUME NEW t \in Slots \ {s} PROVE LeftInv(t)'
  <2>1. Same(t) BY OthersStay
  <2> QED BY <2>1 DEF SaveInv, LeftInv, Same, Listed
<1>2. LeftInv(s) BY DEF SaveInv
<1> SUFFICES LeftInv(s)' BY <1>1
<1>3. ASSUME pc'[s] \notin AddSteps PROVE LeftInv(s)'
  BY <1>3 DEF LeftInv, AddSteps, Writing
<1>4. ASSUME NEW r \in Results, Return(s, r) PROVE LeftInv(s)'
  BY <1>3, <1>4, Returned DEF Results, AddSteps
<1>5. {"nil", "ErrLinkAlreadyExists", "ErrLinkNotFound", "error"} \subseteq Results BY DEF Results
<1>6. ASSUME pc[s] \in AddSteps \ Writing, pc'[s] \in AddSteps \ Writing,
             left' = left, req' = req
      PROVE  LeftInv(s)'
  BY <1>2, <1>6 DEF LeftInv, Writing
<1>7. ASSUME NEW r \in Requests, CallAddLink(s, r) PROVE LeftInv(s)'
  <2>1. pc'[s] = "Begin" /\ req'[s] = r /\ left'[s] = r.tags
    BY <1>7 DEF CallAddLink, GoTo, SlotTypes
  <2> QED BY <2>1 DEF LeftInv, Writing
<1>8. ASSUME NEW r \in Requests, CallRemoveLink(s, r.user, r.url) PROVE LeftInv(s)'
  <2>1. pc'[s] = "FindID" BY <1>8 DEF CallRemoveLink, GoTo, SlotTypes
  <2> QED BY <1>3, <2>1 DEF AddSteps
<1>9. CASE Respond(s)
  <2>1. pc'[s] = "idle" BY <1>9 DEF Respond, GoTo, SlotTypes
  <2> QED BY <1>3, <2>1 DEF AddSteps
<1>10. CASE Begin(s)
  BY <1>6, <1>10 DEF Begin, GoTo, SlotTypes, AddSteps, Writing
<1>11. CASE FindLink(s)
  <2>1. CASE Return(s, "ErrLinkAlreadyExists") BY <1>4, <1>5, <2>1
  <2>2. CASE ~Return(s, "ErrLinkAlreadyExists")
    BY <1>6, <1>11, <2>2 DEF FindLink, GoTo, SlotTypes, AddSteps, Writing
  <2> QED BY <2>1, <2>2
<1>12. CASE InsertLink(s) BY <1>6, <1>12, Inserted DEF AddSteps, Writing
<1>13. CASE GetLinkID(s)
  <2>1. CASE Return(s, "error") BY <1>4, <1>5, <2>1
  <2>2. CASE ~Return(s, "error")
    BY <1>6, <1>13, <2>2 DEF GetLinkID, GoTo, SlotTypes, AddSteps, Writing
  <2> QED BY <2>1, <2>2
<1>14. CASE InsertUser(s)
  <2>1. pc[s] = "InsertUser" /\ pc'[s] = "SaveTags" /\ req' = req /\ left' = left
    BY <1>14, UserInserted
  <2>2. left[s] = req[s].tags BY <1>2, <2>1 DEF LeftInv, AddSteps, Writing
  <2>3. \A i \in DOMAIN req'[s].tags : req'[s].tags[i] \in Listed(s)'
    BY <2>1, <2>2 DEF Listed
  <2> QED BY <2>1, <2>3 DEF LeftInv, Writing
<1>15. CASE SaveTag(s)
  <2>1. /\ pc[s] = "SaveTags" /\ pc'[s] = "SaveTags" /\ req' = req
        /\ left[s] # <<>> /\ left'[s] = Tail(left[s]) /\ left[s] \in Seq(Tags)
        /\ tx'[s] = FailedTx \/ (tx[s].failed /\ tx'[s] = tx[s]) \/ TagSaved(s)
    BY <1>15, TagEffect DEF SlotTypes
  <2>2. CASE ~tx'[s].sub BY <2>1, <2>2 DEF LeftInv, Writing
  <2>3. CASE tx'[s].sub
    <3>1. TagSaved(s) /\ tx[s].sub
      BY <2>1, <2>3, FailedTxIs DEF TagSaved, ShapeInv, Shape
    <3>2. <<User(s), linkID[s]>> \notin linkUsers BY <3>1 DEF SaveInv, SubInv
    <3>3. <<User(s), linkID[s], Head(left[s])>> \notin linkTags
      BY <3>2 DEF SaveInv, SubInv
    <3>4. Head(left[s]) \in tx'[s].tags /\ tx[s].tags \subseteq tx'[s].tags
      BY <3>1, <3>3 DEF TagSaved
    <3>5. Listed(s) \subseteq {Head(left[s])} \cup Listed(s)'
      <4>1. Listed(s)' = {Tail(left[s])[j] : j \in DOMAIN Tail(left[s])}
        BY <2>1 DEF Listed
      <4>2. Listed(s) \subseteq
              {Head(left[s])} \cup {Tail(left[s])[j] : j \in DOMAIN Tail(left[s])}
        BY <2>1, TailListed DEF Listed
      <4> QED BY <4>1, <4>2
    <3>6. \A i \in DOMAIN req[s].tags : req[s].tags[i] \in tx[s].tags \cup Listed(s)
      BY <1>2, <2>1, <3>1 DEF LeftInv, Writing
    <3> QED BY <2>1, <3>4, <3>5, <3>6 DEF LeftInv, Writing
  <2> QED BY <2>2, <2>3
<1>16. ASSUME Aborted(s) PROVE LeftInv(s)'
  <2>1. pc'[s] = "SaveTags" /\ ~tx'[s].sub BY <1>16, FailedTxIs DEF Aborted, SlotTypes
  <2> QED BY <2>1 DEF LeftInv, Writing
<1>17. CASE DeadlockVictim(s) \/ AddLinkFails(s) BY <1>4, <1>5, <1>16, <1>17, Aborts
<1>18. CASE SavedTags(s)
  <2>1. /\ pc[s] = "SaveTags" /\ pc'[s] = "Commit" /\ tx' = tx /\ req' = req
        /\ left' = left /\ left[s] = <<>>
    BY <1>18 DEF SavedTags, GoTo, SlotTypes
  <2> QED BY <1>2, <2>1 DEF LeftInv, Listed, Writing
<1>19. CASE Commit(s) \/ DeleteLink(s) \/ RemoveLinkFails(s)
  BY <1>4, <1>5, <1>19 DEF Commit, DeleteLink, RemoveLinkFails
<1>20. CASE FindID(s) \/ DeleteUser(s) \/ CheckUsers(s)
  <2>1. CASE \E r \in Results : Return(s, r) BY <1>4, <2>1
  <2>2. CASE ~\E r \in Results : Return(s, r)
    <3>1. pc'[s] \in {"DeleteUser", "CheckUsers", "DeleteLink"}
      BY <1>5, <1>20, <2>2 DEF FindID, DeleteUser, CheckUsers, GoTo, SlotTypes
    <3> QED BY <1>3, <3>1 DEF AddSteps
  <2> QED BY <2>1, <2>2
<1> QED
  BY <1>7, <1>8, <1>9, <1>10, <1>11, <1>12, <1>13, <1>14, <1>15, <1>17, <1>18, <1>19, <1>20
  DEF SlotStep, Step, AddLinkStep, RemoveLinkStep

LEMMA SaveNext == IInv /\ SaveInv /\ [Next]_vars => SaveInv'
<1> SUFFICES ASSUME IInv, SaveInv, [Next]_vars PROVE SaveInv'
  OBVIOUS
<1>1. ASSUME NEW s \in Slots, SlotStep(s) PROVE SaveInv'
  BY <1>1, SubStep, LeftStep DEF SaveInv
<1>2. CASE Chats
  <2>1. UNCHANGED <<pc, req, linkID, tx, left>>
    BY <1>2 DEF Chats, CreateChat, DeleteChat, DeleteTag, requests
  <2>2. linkUsers' \subseteq linkUsers BY <1>2 DEF Chats, CreateChat, DeleteChat, DeleteTag
  <2>3. ASSUME NEW row \in linkTags' PROVE <<row[1], row[2]>> \in linkUsers'
    <3>1. row \in linkTags BY <1>2, <2>3 DEF Chats, CreateChat, DeleteChat, DeleteTag
    <3>2. <<row[1], row[2]>> \in linkUsers BY <3>1 DEF SaveInv, SubInv
    <3>3. CASE \E u \in Users : DeleteChat(u) BY <2>3, <3>2, <3>3 DEF DeleteChat
    <3>4. CASE ~\E u \in Users : DeleteChat(u)
      BY <1>2, <3>2, <3>4 DEF Chats, CreateChat, DeleteTag
    <3> QED BY <3>3, <3>4
  <2>4. SubInv' BY <2>1, <2>2, <2>3 DEF SaveInv, SubInv, User
  <2> QED BY <2>1, <2>4 DEF SaveInv, LeftInv, Listed
<1>3. CASE UNCHANGED vars
  <2>1. UNCHANGED <<linkUsers, linkTags, pc, req, linkID, tx, left>>
    BY <1>3 DEF vars, tables, requests
  <2> QED BY <2>1 DEF SaveInv, SubInv, LeftInv, Listed, User
<1> QED BY <1>1, <1>2, <1>3, NextIs

LEMMA SaveInit == Init => SaveInv
BY DEF Init, SaveInv, SubInv, LeftInv, NoTx, AddSteps, Writing

(* For every number of requests, links and tags: an AddLink that returns nil and wrote
   anything leaves the link with the chat's subscription, and one that wrote the
   subscription leaves every tag of the request, in spite of the errors it only logs. *)
THEOREM SqlSavedMeansStored == Spec => SavedMeansStored
<1>1. ASSUME IInv, SaveInv, [Next]_vars, NEW s \in Slots,
             pc[s] = "Commit", pc'[s] = "nil", Holds(s) \/ tx[s].failed
      PROVE  \E id \in IDs :
               /\ <<id, Url(s)>> \in links' /\ <<User(s), id>> \in linkUsers'
               /\ tx[s].sub => \A i \in DOMAIN req[s].tags :
                                  <<User(s), id, req[s].tags[i]>> \in linkTags'
  <2> USE DEF IInv
  <2>1. Commit(s)
    <3>1. CASE UNCHANGED vars BY <1>1, <3>1 DEF vars, requests
    <3>2. CASE Chats
      <4>1. pc' = pc BY <3>2 DEF Chats, CreateChat, DeleteChat, DeleteTag, requests
      <4> QED BY <1>1, <4>1
    <3>3. ASSUME NEW t \in Slots, SlotStep(t) PROVE Commit(s)
      <4>1. t = s BY <1>1, <3>3, OthersStay DEF Same
      <4>2. Commit(s) \/ AddLinkFails(s)
        BY <1>1, <3>3, <4>1, VictimWaits DEF SlotStep, Step, AddLinkStep, RemoveLinkStep,
          CallAddLink, CallRemoveLink, Begin, FindLink, InsertLink, GetLinkID, InsertUser,
          SaveTag, SavedTags, RemoveLinkFails, RemoveSteps, FindID, DeleteUser,
          CheckUsers, DeleteLink, Respond, Results
      <4>3. ~AddLinkFails(s) BY <1>1, Returned DEF AddLinkFails
      <4> QED BY <4>2, <4>3
    <3> QED BY <1>1, <3>1, <3>2, <3>3, NextIs
  <2>2. ~tx[s].failed
    <3>1. tx[s].failed => Return(s, "error") BY <2>1 DEF Commit
    <3> QED BY <1>1, <3>1, Returned
  <2>3. Holds(s) /\ linkID[s] \in IDs
    BY <1>1, <2>2 DEF SlotTypes, ShapeInv, Shape, Writing
  <2>4. <<linkID[s], Url(s)>> \in links'
    <3>1. Sees(s, linkID[s]) BY <1>1, <2>3 DEF RefInv
    <3> QED BY <2>1, <2>2, <3>1 DEF Commit, Sees
  <2>5. <<User(s), linkID[s]>> \in linkUsers'
    BY <1>1, <2>1, <2>2, <2>3 DEF Commit, Holds, RefInv
  <2>6. ASSUME tx[s].sub, NEW i \in DOMAIN req[s].tags
        PROVE  <<User(s), linkID[s], req[s].tags[i]>> \in linkTags'
    <3>1. left[s] = <<>> /\ req[s].tags[i] \in tx[s].tags \cup Listed(s)
      BY <1>1, <2>6 DEF SaveInv, LeftInv, Writing
    <3>2. req[s].tags[i] \in tx[s].tags BY <3>1 DEF Listed
    <3> QED BY <2>1, <2>2, <3>2 DEF Commit
  <2> QED BY <2>3, <2>4, <2>5, <2>6
<1> DEFINE Stored ==
      \A s \in Slots :
        pc[s] = "Commit" /\ pc'[s] = "nil" /\ (Holds(s) \/ tx[s].failed) =>
          \E id \in IDs :
            /\ <<id, Url(s)>> \in links' /\ <<User(s), id>> \in linkUsers'
            /\ tx[s].sub => \A i \in DOMAIN req[s].tags :
                               <<User(s), id, req[s].tags[i]>> \in linkTags'
<1>2. IInv /\ SaveInv /\ [Next]_vars => [Stored]_vars
  BY <1>1
<1> QED BY <1>2, IInvInit, IInvNext, SaveInit, SaveNext, PTL DEF Spec, SavedMeansStored
=============================================================================
