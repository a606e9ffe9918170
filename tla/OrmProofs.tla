----------------------------- MODULE OrmProofs ------------------------------
(***************************************************************************)
(* Proofs about OrmStore.  The inductive invariant IInv is the type of the *)
(* variables, what a request's transactions may hold at each of its steps  *)
(* (Shape), the count of the pool (PoolInv), that nothing is stuck before  *)
(* a connection is (StuckInv), and UniqueUrl itself.                       *)
(*                                                                         *)
(* A step of one request leaves the slots of the others alone (OthersStay),*)
(* so that each part is proved for the slot that moves, action by action,  *)
(* and follows for the others from what has not changed.                   *)
(***************************************************************************)
EXTENDS OrmStore, WaitGraphProofs, SequenceTheorems

(* Where AddLink's transaction may hold something, and what each step implies. *)
Late == {"InsertUser", "BeginItems", "SaveItems", "SaveItem", "Commit"}

Shape(s) ==
  /\ pc[s] \notin Late => tx[s] = NoTx
  /\ pc[s] = "InsertUser" => tx[s].sub = 0 /\ ~tx[s].failed
  /\ tx[s].failed => ~tx[s].row /\ tx[s].sub = 0
  /\ pc[s] \notin {"SaveItems", "SaveItem"} => inner[s] = NoInner
  /\ pc[s] = "SaveItem" => inner[s].tx = "open" /\ left[s] # <<>>
  /\ inner[s].tx # "open" => inner[s].rows = {}
  /\ inner[s].rows # {} => User(s) \in RowIDs
  /\ pc[s] \in {"DeleteRow", "DeleteUser"} <=> target[s] # 0
  /\ pc[s] = "idle" => req[s] = NoRequest

ShapeInv == \A s \in Slots : Shape(s)

-----------------------------------------------------------------------------
LEMMA RequestTypes ==
  ASSUME NEW r \in AnyRequest
  PROVE  /\ r.user \in Chats /\ r.url \in URLs
         /\ r.tags \in Seq(Items) /\ r.filters \in Seq(Items)
<1>1. Tags \subseteq Items /\ Filters \subseteq Items BY DEF Items
<1>2. Seq(Tags) \subseteq Seq(Items) /\ Seq(Filters) \subseteq Seq(Items)
  BY <1>1, SeqMonotonic
<1> QED BY <1>2 DEF AnyRequest

LEMMA NoRequestType == NoRequest \in AnyRequest
BY OrmStoreAssumption DEF NoRequest

LEMMA AskedType ==
  ASSUME NEW u \in Chats, NEW url \in URLs
  PROVE  [user |-> u, url |-> url, tags |-> <<>>, filters |-> <<>>] \in AnyRequest
BY EmptySeq DEF AnyRequest

LEMMA StepNames ==
  /\ AddSteps \subseteq Steps /\ RemoveSteps \subseteq Steps /\ ChatSteps \subseteq Steps
  /\ Results \subseteq Steps /\ ChatResults \subseteq Steps /\ "idle" \in Steps
  /\ {"Begin", "InsertLink", "GetLinkID", "InsertUser", "BeginItems", "SaveItems",
      "SaveItem", "Commit"} \subseteq Steps
  /\ {"FindRow", "DeleteRow", "FindChat", "DeleteUser"} \subseteq Steps
  /\ {"nil", "error", "panic", "ok", "failed"} \subseteq Steps
BY DEF Steps, AddSteps, RemoveSteps, ChatSteps, Results, ChatResults

LEMMA NoneTypes == NoTx \in AnyTx /\ NoInner \in AnyInner
BY DEF NoTx, AnyTx, NoInner, AnyInner

(* PostgreSQL breaks circles of INSERTs INTO link_tags and link_filters only. *)
LEMMA DeadlockedWaits ==
  ASSUME NEW s \in Slots, Deadlocked(s)
  PROVE  \E t \in Slots : WaitsForItem(s, t)
<1>1. PICK pair \in ItemWaits : pair[1] = s BY OnCycleWaits DEF Deadlocked
<1> QED BY <1>1 DEF ItemWaits

LEMMA VictimWaits ==
  ASSUME NEW s \in Slots, DeadlockVictim(s)
  PROVE  pc[s] = "SaveItem"
BY DeadlockedWaits DEF DeadlockVictim, WaitsForItem

(* The variables of the requests in progress. *)
SlotTypes ==
  /\ pc \in [Slots -> Steps]
  /\ req \in [Slots -> AnyRequest]
  /\ tx \in [Slots -> AnyTx]
  /\ inner \in [Slots -> AnyInner]
  /\ part \in [Slots -> {"tags", "filters"}]
  /\ left \in [Slots -> Seq(Items)]
  /\ target \in [Slots -> RowIDs \cup {0}]

TableTypes ==
  /\ users \subseteq RowIDs \X Chats
  /\ links \subseteq URLs
  /\ linkUsers \subseteq RowIDs \X URLs
  /\ linkItems \subseteq RowIDs \X URLs \X Items
  /\ stuck \in AnyLocks

LEMMA ReturnTypes ==
  ASSUME SlotTypes, NEW s \in Slots, NEW r \in Results \cup ChatResults, Return(s, r)
  PROVE  SlotTypes'
<1>1. r \in Steps BY StepNames
<1> QED BY <1>1, NoneTypes, EmptySeq DEF SlotTypes, Return, GoTo

LEMMA EndItemsTypes ==
  ASSUME SlotTypes, NEW s \in Slots, EndItems(s)
  PROVE  SlotTypes'
<1>1. req[s].filters \in Seq(Items) BY RequestTypes DEF SlotTypes
<1>2. /\ inner' \in [Slots -> AnyInner]
      /\ req' \in [Slots -> AnyRequest] /\ tx' \in [Slots -> AnyTx]
      /\ target' \in [Slots -> RowIDs \cup {0}]
  BY NoneTypes DEF SlotTypes, EndItems
<1>3. CASE part[s] = "tags"
  BY <1>1, <1>2, <1>3, StepNames DEF SlotTypes, EndItems, GoTo
<1>4. CASE part[s] # "tags"
  <2>1. <<>> \in Seq(Items) BY EmptySeq
  <2>2. /\ pc' = [pc EXCEPT ![s] = "Commit"] /\ part' = part
        /\ left' = [left EXCEPT ![s] = <<>>]
    BY <1>4 DEF EndItems, GoTo
  <2>3. left' \in [Slots -> Seq(Items)] BY <2>1, <2>2 DEF SlotTypes
  <2> QED BY <1>2, <2>2, <2>3, StepNames DEF SlotTypes
<1> QED BY <1>3, <1>4

LEMMA RefusedTypes ==
  ASSUME SlotTypes, NEW s \in Slots, left[s] # <<>>, Refused(s)
  PROVE  SlotTypes'
<1>1. CASE part[s] = "tags" BY <1>1, EndItemsTypes DEF Refused
<1>2. CASE part[s] # "tags"
  <2>1. Tail(left[s]) \in Seq(Items) BY HeadTailProperties DEF SlotTypes
  <2>2. [tx |-> "closed", rows |-> {}] \in AnyInner BY DEF AnyInner
  <2> QED BY <1>2, <2>1, <2>2, StepNames, ZenonT(60) DEF SlotTypes, Refused, GoTo
<1> QED BY <1>1, <1>2

LEMMA SlotTypeStep ==
  ASSUME SlotTypes, ShapeInv, Next
  PROVE  SlotTypes'
<1> USE StepNames, NoneTypes DEF tables, pool, adding, requests, GoTo
<1>1. ASSUME NEW s \in Slots, NEW r \in Requests, CallAddLink(s, r)
      PROVE  SlotTypes'
  <2>1. r \in AnyRequest /\ r.tags \in Seq(Items) BY RequestTypes, OrmStoreAssumption
  <2> QED BY <1>1, <2>1 DEF SlotTypes, CallAddLink
<1>2. ASSUME NEW s \in Slots, NEW r \in Requests,
             CallRemoveLink(s, r.user, r.url) \/ CallDeleteChat(s, r.user)
      PROVE  SlotTypes'
  <2>1. r.user \in Chats /\ r.url \in URLs BY RequestTypes, OrmStoreAssumption
  <2>2. NoRequest.url \in URLs BY NoRequestType, RequestTypes
  <2> DEFINE asked(url) == [user |-> r.user, url |-> url, tags |-> <<>>, filters |-> <<>>]
  <2>3. asked(r.url) \in AnyRequest /\ asked(NoRequest.url) \in AnyRequest
    BY <2>1, <2>2, AskedType
  <2> QED BY <1>2, <2>3, ZenonT(60) DEF SlotTypes, CallRemoveLink, CallDeleteChat, Ask
<1>3. ASSUME NEW s \in Slots, Begin(s) \/ GetLinkID(s) \/ Respond(s)
      PROVE  SlotTypes'
  BY <1>3, NoRequestType DEF SlotTypes, Begin, GetLinkID, Respond
<1>4. ASSUME NEW s \in Slots, InsertLink(s) \/ InsertUser(s)
      PROVE  SlotTypes'
  <2>1. /\ [tx[s] EXCEPT !.row = TRUE] \in AnyTx
        /\ [NoTx EXCEPT !.failed = TRUE] \in AnyTx
        /\ \A id \in RowIDs \cup {0} : [tx[s] EXCEPT !.sub = id] \in AnyTx
    BY DEF SlotTypes, AnyTx, NoTx
  <2>2. CASE InsertLink(s)
    <3>1. CASE Url(s) \in links BY <2>2, <3>1 DEF SlotTypes, InsertLink
    <3>2. CASE Url(s) \notin links BY <2>1, <2>2, <3>2 DEF SlotTypes, InsertLink
    <3> QED BY <3>1, <3>2
  <2>3. CASE InsertUser(s)
    <3>1. ASSUME NEW id \in RowIDs,
                 tx' = [tx EXCEPT ![s].sub = IF <<id, Url(s)>> \in linkUsers THEN 0 ELSE id]
          PROVE  tx' \in [Slots -> AnyTx]
      <4> DEFINE sub == IF <<id, Url(s)>> \in linkUsers THEN 0 ELSE id
      <4>1. sub \in RowIDs \cup {0} OBVIOUS
      <4>2. [tx[s] EXCEPT !.sub = sub] \in AnyTx BY <2>1, <4>1
      <4>3. tx' = [tx EXCEPT ![s] = [tx[s] EXCEPT !.sub = sub]] BY <3>1
      <4> HIDE DEF sub
      <4> QED BY <4>2, <4>3 DEF SlotTypes
    <3>2. Abort(s) => tx' \in [Slots -> AnyTx] BY <2>1 DEF SlotTypes, Abort
    <3>3. tx' \in [Slots -> AnyTx] BY <2>3, <3>1, <3>2 DEF InsertUser
    <3> QED BY <2>3, <3>3 DEF SlotTypes, InsertUser
  <2> QED BY <1>4, <2>2, <2>3
<1>5. ASSUME NEW s \in Slots, BeginItems(s)
      PROVE  SlotTypes'
  BY <1>5 DEF SlotTypes, BeginItems, AnyInner
<1>6. ASSUME NEW s \in Slots, SaveName(s)
      PROVE  SlotTypes'
  <2>1. CASE inner[s].tx = "open" BY <1>6, <2>1 DEF SlotTypes, SaveName
  <2>2. CASE inner[s].tx = "closed" BY <1>6, <2>2, EndItemsTypes DEF SaveName
  <2>3. CASE inner[s].tx = "none"
    BY <1>6, <2>3, ReturnTypes DEF SaveName, Panic, LeaveOpen, Results
  <2> QED BY <2>1, <2>2, <2>3 DEF SlotTypes, AnyInner
<1>7. ASSUME NEW s \in Slots, SaveItem(s)
      PROVE  SlotTypes'
  <2>1. left[s] # <<>> BY <1>7 DEF SaveItem, ShapeInv, Shape
  <2>2. Head(left[s]) \in Items /\ Tail(left[s]) \in Seq(Items)
    BY <2>1, HeadTailProperties DEF SlotTypes
  <2>3. CASE <<User(s), Url(s)>> \in linkUsers
    <3> DEFINE row  == <<User(s), Url(s), Head(left[s])>>
               rows == IF row \in linkItems THEN inner[s].rows
                       ELSE inner[s].rows \cup {Head(left[s])}
    <3>1. rows \in SUBSET Items BY <2>2 DEF SlotTypes, AnyInner
    <3>2. [inner[s] EXCEPT !.rows = rows] \in AnyInner BY <3>1 DEF SlotTypes, AnyInner
    <3>3. inner' = [inner EXCEPT ![s] = [inner[s] EXCEPT !.rows = rows]]
      BY <1>7, <2>3 DEF SaveItem
    <3> HIDE DEF rows
    <3>4. inner' \in [Slots -> AnyInner] BY <3>2, <3>3 DEF SlotTypes
    <3> QED BY <1>7, <2>2, <2>3, <3>4, ZenonT(60) DEF SlotTypes, SaveItem
  <2>4. CASE <<User(s), Url(s)>> \notin linkUsers
    BY <1>7, <2>1, <2>4, RefusedTypes DEF SaveItem
  <2> QED BY <2>3, <2>4
<1>8. ASSUME NEW s \in Slots, DeadlockVictim(s)
      PROVE  SlotTypes'
  <2>1. left[s] # <<>> BY <1>8, VictimWaits DEF ShapeInv, Shape
  <2> QED BY <1>8, <2>1, RefusedTypes DEF DeadlockVictim
<1>9. ASSUME NEW s \in Slots, SavedItems(s)
      PROVE  SlotTypes'
  BY <1>9, EndItemsTypes, ReturnTypes DEF SavedItems, Panic, LeaveOpen, Results
<1>10. ASSUME NEW s \in Slots, ItemsFail(s)
       PROVE  SlotTypes'
  <2>1. CASE pc[s] = "BeginItems" BY <1>10, <2>1 DEF SlotTypes, ItemsFail
  <2>2. CASE pc[s] = "SaveItems" BY <1>10, <2>2, EndItemsTypes DEF ItemsFail
  <2>3. CASE pc[s] = "SaveItem"
    <3>1. left[s] # <<>> BY <2>3 DEF ShapeInv, Shape
    <3>2. Refused(s) BY <1>10, <2>3 DEF ItemsFail
    <3> QED BY <3>1, <3>2, RefusedTypes
  <2> QED BY <1>10, <2>1, <2>2, <2>3 DEF ItemsFail
<1>11. ASSUME NEW s \in Slots,
              \/ GetLinkIDFails(s) \/ Commit(s) \/ DeleteRow(s) \/ DeleteUser(s) \/ DeleteFails(s)
       PROVE  SlotTypes'
  <2>1. \E r \in Results \cup ChatResults : Return(s, r)
    BY <1>11 DEF GetLinkIDFails, Panic, LeaveOpen, Commit, DeleteRow, DeleteUser,
       DeleteFails, Results, ChatResults
  <2> QED BY <2>1, ReturnTypes
<1>12. ASSUME NEW s \in Slots, AddLinkFails(s)
       PROVE  SlotTypes'
  <2>1. CASE pc[s] = "InsertUser"
    <3>1. [NoTx EXCEPT !.failed = TRUE] \in AnyTx BY DEF NoTx, AnyTx
    <3>2. Abort(s) /\ GoTo(s, "BeginItems") /\ UNCHANGED <<req, inner, part, left, target>>
      BY <1>12, <2>1 DEF AddLinkFails
    <3> QED BY <3>1, <3>2 DEF SlotTypes, Abort
  <2>2. CASE pc[s] # "InsertUser"
    BY <1>12, <2>2, ReturnTypes DEF AddLinkFails, Results
  <2> QED BY <2>1, <2>2
<1>13. ASSUME NEW s \in Slots, FindRow(s) \/ FindChat(s)
       PROVE  SlotTypes'
  <2>1. ASSUME NEW id \in RowIDs, NEW step \in {"DeleteRow", "DeleteUser"},
               GoTo(s, step), target' = [target EXCEPT ![s] = id], UNCHANGED <<req, adding>>
        PROVE  SlotTypes'
    BY <2>1 DEF SlotTypes
  <2>2. RowsOf(s) \subseteq RowIDs BY DEF RowsOf
  <2> QED BY <1>13, <2>1, <2>2, ReturnTypes DEF FindRow, FindChat, Find, Results, ChatResults
<1>14. ASSUME NEW u \in Chats, CreateChat(u) \/ \E tag \in Tags : DeleteTag(u, tag)
       PROVE  SlotTypes'
  BY <1>14 DEF SlotTypes, CreateChat, DeleteTag
<1> QED BY <1>1, <1>2, <1>3, <1>4, <1>5, <1>6, <1>7, <1>8, <1>9, <1>10, <1>11, <1>12, <1>13,
           <1>14 DEF Next, Step, AddLinkStep, Fail

-----------------------------------------------------------------------------
(* A step of one request leaves the others alone. *)

SlotStep(s) ==
  \/ \E r \in Requests :
       CallAddLink(s, r) \/ CallRemoveLink(s, r.user, r.url) \/ CallDeleteChat(s, r.user)
  \/ Step(s)
  \/ Fail(s)

Same(t) ==
  /\ pc'[t] = pc[t] /\ req'[t] = req[t] /\ tx'[t] = tx[t] /\ inner'[t] = inner[t]
  /\ part'[t] = part[t] /\ left'[t] = left[t] /\ target'[t] = target[t]

LEMMA Returned ==
  ASSUME SlotTypes, NEW s \in Slots, NEW r, Return(s, r)
  PROVE  /\ pc'[s] = r /\ tx'[s] = NoTx /\ inner'[s] = NoInner /\ target'[s] = 0
         /\ req' = req
         /\ \A t \in Slots \ {s} : Same(t)
BY DEF SlotTypes, Return, GoTo, Same

LEMMA ItemsEnded ==
  ASSUME SlotTypes, NEW s \in Slots, EndItems(s)
  PROVE  /\ pc'[s] \in {"BeginItems", "Commit"} /\ inner'[s] = NoInner
         /\ req' = req /\ tx' = tx /\ target' = target
         /\ \A t \in Slots \ {s} : Same(t)
<1>1. CASE part[s] = "tags" BY <1>1 DEF SlotTypes, EndItems, GoTo, Same
<1>2. CASE part[s] # "tags" BY <1>2 DEF SlotTypes, EndItems, GoTo, Same
<1> QED BY <1>1, <1>2

LEMMA WasRefused ==
  ASSUME SlotTypes, NEW s \in Slots, Refused(s)
  PROVE  /\ \/ pc'[s] \in {"BeginItems", "Commit"} /\ inner'[s] = NoInner
            \/ pc'[s] = "SaveItems" /\ inner'[s] = [tx |-> "closed", rows |-> {}]
         /\ req' = req /\ tx' = tx /\ target' = target
         /\ \A t \in Slots \ {s} : Same(t)
<1>1. CASE part[s] = "tags" BY <1>1, ItemsEnded DEF Refused
<1>2. CASE part[s] # "tags" BY <1>2 DEF SlotTypes, Refused, GoTo, Same
<1> QED BY <1>1, <1>2

LEMMA OthersStay ==
  ASSUME SlotTypes, NEW s \in Slots, SlotStep(s)
  PROVE  \A t \in Slots \ {s} : Same(t)
<1> USE DEF tables, pool, adding, requests, GoTo
<1>1. ASSUME NEW r \in Requests,
             CallAddLink(s, r) \/ CallRemoveLink(s, r.user, r.url) \/ CallDeleteChat(s, r.user)
      PROVE  \A t \in Slots \ {s} : Same(t)
  BY <1>1 DEF SlotTypes, Same, CallAddLink, CallRemoveLink, CallDeleteChat, Ask
<1>2. CASE Begin(s) \/ GetLinkID(s) \/ BeginItems(s) \/ Respond(s)
  BY <1>2 DEF SlotTypes, Same, Begin, GetLinkID, BeginItems, Respond
<1>3. CASE InsertLink(s) \/ InsertUser(s)
  BY <1>3 DEF SlotTypes, Same, InsertLink, InsertUser, Abort
<1>4. CASE SaveName(s)
  <2>1. CASE inner[s].tx = "open" BY <1>4, <2>1 DEF SlotTypes, Same, SaveName
  <2>2. CASE inner[s].tx = "closed" BY <1>4, <2>2, ItemsEnded DEF SaveName
  <2>3. CASE inner[s].tx = "none" BY <1>4, <2>3, Returned DEF SaveName, Panic, LeaveOpen
  <2> QED BY <2>1, <2>2, <2>3 DEF SlotTypes, AnyInner
<1>5. CASE SaveItem(s)
  <2>1. CASE Refused(s) BY <2>1, WasRefused
  <2>2. CASE ~Refused(s) BY <1>5, <2>2 DEF SlotTypes, Same, SaveItem
  <2> QED BY <2>1, <2>2
<1>6. CASE DeadlockVictim(s) BY <1>6, WasRefused DEF DeadlockVictim
<1>7. CASE SavedItems(s) BY <1>7, ItemsEnded, Returned DEF SavedItems, Panic, LeaveOpen
<1>8. CASE ItemsFail(s)
  <2>1. CASE pc[s] = "BeginItems" BY <1>8, <2>1 DEF SlotTypes, Same, ItemsFail
  <2>2. CASE pc[s] # "BeginItems" BY <1>8, <2>2, ItemsEnded, WasRefused DEF ItemsFail
  <2> QED BY <2>1, <2>2
<1>9. CASE GetLinkIDFails(s) \/ Commit(s) \/ DeleteRow(s) \/ DeleteUser(s) \/ DeleteFails(s)
  <2>1. \E r : Return(s, r)
    BY <1>9 DEF GetLinkIDFails, Panic, LeaveOpen, Commit, DeleteRow, DeleteUser, DeleteFails
  <2> QED BY <2>1, Returned
<1>10. CASE AddLinkFails(s)
  <2>1. CASE pc[s] = "InsertUser" BY <1>10, <2>1 DEF SlotTypes, Same, AddLinkFails, Abort
  <2>2. CASE pc[s] # "InsertUser" BY <1>10, <2>2, Returned DEF AddLinkFails
  <2> QED BY <2>1, <2>2
<1>11. CASE FindRow(s) \/ FindChat(s)
  <2>1. CASE \E r : Return(s, r) BY <2>1, Returned
  <2>2. CASE ~\E r : Return(s, r)
    BY <1>11, <2>2 DEF SlotTypes, Same, FindRow, FindChat, Find
  <2> QED BY <2>1, <2>2
<1> QED BY <1>1, <1>2, <1>3, <1>4, <1>5, <1>6, <1>7, <1>8, <1>9, <1>10, <1>11
        DEF SlotStep, Step, AddLinkStep, Fail

LEMMA ShapeStep ==
  ASSUME SlotTypes, TableTypes, ShapeInv, NEW s \in Slots, SlotStep(s)
  PROVE  Shape(s)'
<1> USE DEF tables, pool, adding, requests, GoTo, Late, NoTx, NoInner, User
<1>0. Shape(s) BY DEF ShapeInv
<1>1. ASSUME NEW r \in Requests,
             CallAddLink(s, r) \/ CallRemoveLink(s, r.user, r.url) \/ CallDeleteChat(s, r.user)
      PROVE  Shape(s)'
  <2>1. /\ pc[s] = "idle" /\ pc'[s] \in {"Begin", "FindRow", "FindChat"}
        /\ tx'[s] = tx[s] /\ inner'[s] = inner[s] /\ target'[s] = target[s]
    BY <1>1 DEF SlotTypes, CallAddLink, CallRemoveLink, CallDeleteChat, Ask
  <2> QED BY <1>0, <2>1 DEF Shape
<1>2. CASE Begin(s) \/ GetLinkID(s) \/ BeginItems(s)
  <2>1. CASE Begin(s) \/ GetLinkID(s)
    <3>1. /\ \/ pc[s] = "Begin" /\ pc'[s] = "InsertLink"
             \/ pc[s] = "GetLinkID" /\ pc'[s] = "InsertUser"
          /\ req' = req /\ tx'[s] = tx[s] /\ inner'[s] = inner[s] /\ target'[s] = target[s]
      BY <2>1 DEF SlotTypes, Begin, GetLinkID
    <3> QED BY <1>0, <3>1 DEF Shape
  <2>2. CASE BeginItems(s)
    <3>1. inner[s] = [tx |-> "none", rows |-> {}] BY <1>0, <2>2 DEF BeginItems, Shape
    <3>2. /\ pc[s] = "BeginItems" /\ pc'[s] = "SaveItems"
          /\ req' = req /\ tx'[s] = tx[s] /\ target'[s] = target[s]
          /\ inner'[s].tx = "open" /\ inner'[s].rows = {}
      BY <2>2, <3>1 DEF SlotTypes, BeginItems
    <3> QED BY <1>0, <3>2 DEF Shape
  <2> QED BY <1>2, <2>1, <2>2
<1>3. CASE Respond(s)
  BY <1>0, <1>3 DEF SlotTypes, Shape, Respond, Results, ChatResults
<1>4. CASE InsertLink(s) \/ InsertUser(s)
  <2>1. CASE InsertLink(s)
    <3>1. tx[s] = NoTx BY <1>0, <2>1 DEF Shape, InsertLink
    <3>2. /\ pc[s] = "InsertLink"
          /\ \/ pc'[s] = "GetLinkID" /\ tx'[s] = NoTx
             \/ pc'[s] = "InsertUser" /\ tx'[s].sub = 0 /\ ~tx'[s].failed
          /\ req' = req /\ inner'[s] = inner[s] /\ target'[s] = target[s]
      <4>1. CASE Url(s) \in links BY <2>1, <3>1, <4>1 DEF SlotTypes, InsertLink
      <4>2. CASE Url(s) \notin links
        <5>1. tx' = [tx EXCEPT ![s] = [tx[s] EXCEPT !.row = TRUE]]
          BY <2>1, <4>2 DEF InsertLink
        <5>2. tx'[s] = [NoTx EXCEPT !.row = TRUE] BY <3>1, <5>1 DEF SlotTypes
        <5> QED BY <2>1, <4>2, <5>2 DEF SlotTypes, InsertLink
      <4> QED BY <4>1, <4>2
    <3> QED BY <1>0, <3>2 DEF Shape
  <2>2. CASE InsertUser(s)
    <3>1. ~tx[s].failed /\ tx[s] \in AnyTx BY <1>0, <2>2 DEF Shape, InsertUser, SlotTypes
    <3>2. /\ pc[s] = "InsertUser" /\ pc'[s] = "BeginItems"
          /\ req' = req /\ inner'[s] = inner[s] /\ target'[s] = target[s]
      BY <2>2 DEF SlotTypes, InsertUser
    <3>3. tx'[s].failed => ~tx'[s].row /\ tx'[s].sub = 0
      <4>1. ASSUME NEW id, tx' = [tx EXCEPT ![s].sub = id] PROVE ~tx'[s].failed
        BY <3>1, <4>1 DEF SlotTypes, AnyTx
      <4>2. ASSUME Abort(s) PROVE ~tx'[s].row /\ tx'[s].sub = 0
        BY <4>2 DEF SlotTypes, Abort
      <4> QED BY <2>2, <4>1, <4>2 DEF InsertUser
    <3> QED BY <1>0, <3>2, <3>3 DEF Shape
  <2> QED BY <1>4, <2>1, <2>2
<1>5. ASSUME NEW r \in Results \cup ChatResults, Return(s, r)
      PROVE  Shape(s)'
  BY <1>5, Returned DEF Shape, Results, ChatResults
<1>6. ASSUME EndItems(s), pc[s] \in {"SaveItems", "SaveItem"}
      PROVE  Shape(s)'
  BY <1>0, <1>6, ItemsEnded DEF Shape
<1>7. ASSUME Refused(s), pc[s] \in {"SaveItems", "SaveItem"}
      PROVE  Shape(s)'
  BY <1>0, <1>7, WasRefused DEF Shape
<1>8. CASE SaveName(s)
  <2>1. CASE inner[s].tx = "open" BY <1>0, <1>8, <2>1 DEF SlotTypes, Shape, SaveName
  <2>2. CASE inner[s].tx = "closed" BY <1>6, <1>8, <2>2 DEF SaveName
  <2>3. CASE inner[s].tx = "none" BY <1>5, <1>8, <2>3 DEF SaveName, Panic, LeaveOpen, Results
  <2> QED BY <2>1, <2>2, <2>3 DEF SlotTypes, AnyInner
<1>9. CASE SaveItem(s)
  <2>1. CASE Refused(s) BY <1>7, <1>9, <2>1 DEF SaveItem
  <2>2. CASE <<User(s), Url(s)>> \in linkUsers
    <3>1. inner[s].tx = "open" /\ inner[s] \in AnyInner
      BY <1>0, <1>9 DEF SlotTypes, Shape, SaveItem
    <3>2. /\ pc[s] = "SaveItem" /\ pc'[s] = "SaveItems"
          /\ req' = req /\ tx'[s] = tx[s] /\ target'[s] = target[s]
          /\ inner'[s].tx = "open"
      BY <1>9, <2>2, <3>1 DEF SlotTypes, AnyInner, SaveItem
    <3>3. User(s) \in RowIDs BY <2>2 DEF TableTypes
    <3> QED BY <1>0, <3>2, <3>3 DEF Shape
  <2> QED BY <1>9, <2>1, <2>2 DEF SaveItem
<1>10. CASE DeadlockVictim(s) BY <1>7, <1>10, VictimWaits DEF DeadlockVictim
<1>11. CASE SavedItems(s) BY <1>5, <1>6, <1>11 DEF SavedItems, Panic, LeaveOpen, Results
<1>12. CASE ItemsFail(s)
  <2>1. CASE pc[s] = "BeginItems" BY <1>0, <1>12, <2>1 DEF SlotTypes, Shape, ItemsFail
  <2>2. CASE pc[s] # "BeginItems" BY <1>6, <1>7, <1>12, <2>2 DEF ItemsFail
  <2> QED BY <2>1, <2>2
<1>13. CASE GetLinkIDFails(s) \/ Commit(s) \/ DeleteRow(s) \/ DeleteUser(s) \/ DeleteFails(s)
  <2>1. \E r \in Results \cup ChatResults : Return(s, r)
    BY <1>13 DEF GetLinkIDFails, Panic, LeaveOpen, Commit, DeleteRow, DeleteUser, DeleteFails,
       Results, ChatResults
  <2> QED BY <1>5, <2>1
<1>14. CASE AddLinkFails(s)
  <2>1. CASE pc[s] = "InsertUser"
    <3>1. /\ pc'[s] = "BeginItems" /\ tx'[s] = [NoTx EXCEPT !.failed = TRUE]
          /\ req' = req /\ inner'[s] = inner[s] /\ target'[s] = target[s]
      BY <1>14, <2>1 DEF SlotTypes, AddLinkFails, Abort
    <3> QED BY <1>0, <2>1, <3>1 DEF Shape
  <2>2. CASE pc[s] # "InsertUser" BY <1>5, <1>14, <2>2 DEF AddLinkFails, Results
  <2> QED BY <2>1, <2>2
<1>15. CASE FindRow(s) \/ FindChat(s)
  <2>1. CASE \E r \in Results \cup ChatResults : Return(s, r) BY <1>5, <2>1
  <2>2. ASSUME NEW id \in RowIDs, NEW step \in {"DeleteRow", "DeleteUser"},
               pc[s] \in {"FindRow", "FindChat"},
               GoTo(s, step), target' = [target EXCEPT ![s] = id], UNCHANGED <<req, adding>>
        PROVE  Shape(s)'
    <3>1. id # 0 BY OrmStoreAssumption
    <3> QED BY <1>0, <2>2, <3>1 DEF SlotTypes, Shape
  <2>3. RowsOf(s) \subseteq RowIDs BY DEF RowsOf
  <2> QED BY <1>15, <2>1, <2>2, <2>3 DEF FindRow, FindChat, Find, Results, ChatResults
<1> QED BY <1>1, <1>2, <1>3, <1>4, <1>8, <1>9, <1>10, <1>11, <1>12, <1>13, <1>14, <1>15
        DEF SlotStep, Step, AddLinkStep, Fail

-----------------------------------------------------------------------------
(* What a step of a request does to the tables and the pool. *)

LeavesItems(s) ==
  /\ pc[s] = "SaveItems" /\ inner[s].tx = "open" /\ EndItems(s)
  /\ leaked' = leaked + 1
  /\ stuck' = [stuck EXCEPT !.items = @ \cup ItemsOf(s)]
  /\ UNCHANGED tables

SavesItems(s) ==
  /\ pc[s] = "SaveItems" /\ EndItems(s)
  /\ linkItems' = linkItems \cup ItemsOf(s)
  /\ UNCHANGED <<users, links, linkUsers, pool>>

Leaves(s) ==
  /\ pc[s] \in {"GetLinkID", "SaveItems"} /\ inner[s].tx = "none"
  /\ \E r \in {"error", "panic"} : LeaveOpen(s, r)

LEMMA StoreEffects ==
  ASSUME SlotTypes, ShapeInv, NEW s \in Slots, SlotStep(s)
  PROVE  \/ UNCHANGED <<tables, pool>>
         \/ GetLinkID(s) \/ Leaves(s) \/ LeavesItems(s) \/ SavesItems(s)
         \/ Commit(s) \/ DeleteRow(s) \/ DeleteUser(s)
<1>0. Shape(s) /\ inner[s] \in AnyInner BY DEF ShapeInv, SlotTypes
<1>1. CASE \E r \in Requests :
             CallAddLink(s, r) \/ CallRemoveLink(s, r.user, r.url) \/ CallDeleteChat(s, r.user)
  BY <1>1 DEF CallAddLink, CallRemoveLink, CallDeleteChat, Ask
<1>2. CASE Begin(s) \/ InsertLink(s) \/ InsertUser(s) \/ BeginItems(s) \/ SaveItem(s)
           \/ DeadlockVictim(s) \/ FindRow(s) \/ FindChat(s) \/ Respond(s)
           \/ AddLinkFails(s) \/ DeleteFails(s)
  BY <1>2 DEF Begin, InsertLink, InsertUser, BeginItems, SaveItem, DeadlockVictim, FindRow,
     FindChat, Find, Respond, AddLinkFails, DeleteFails
<1>3. CASE SaveName(s)
  <2>1. CASE inner[s].tx = "open" BY <1>3, <2>1 DEF SaveName, pool
  <2>2. CASE inner[s].tx = "closed" BY <1>3, <2>2 DEF SaveName, pool
  <2>3. CASE inner[s].tx = "none" BY <1>3, <2>3 DEF SaveName, Panic, Leaves
  <2> QED BY <1>0, <2>1, <2>2, <2>3 DEF AnyInner
<1>4. CASE SavedItems(s)
  <2>1. CASE inner[s].tx = "none" BY <1>4, <2>1 DEF SavedItems, Panic, Leaves
  <2>2. CASE inner[s].tx # "none" BY <1>4, <2>2 DEF SavedItems, SavesItems, pool
  <2> QED BY <2>1, <2>2
<1>5. CASE ItemsFail(s)
  <2>1. CASE UNCHANGED pool BY <1>5, <2>1 DEF ItemsFail
  <2>2. CASE ~UNCHANGED pool BY <1>5, <2>2 DEF ItemsFail, LeavesItems
  <2> QED BY <2>1, <2>2
<1>6. CASE GetLinkIDFails(s)
  BY <1>0, <1>6 DEF GetLinkIDFails, Panic, Leaves, Shape, NoInner
<1> QED BY <1>1, <1>2, <1>3, <1>4, <1>5, <1>6 DEF SlotStep, Step, AddLinkStep, Fail

LEMMA HeldTypes ==
  ASSUME SlotTypes, ShapeInv, NEW s \in Slots
  PROVE  /\ UrlsOf(s) \subseteq URLs
         /\ SubsOf(s) \subseteq RowIDs \X URLs
         /\ ItemsOf(s) \subseteq RowIDs \X URLs \X Items
<1>1. User(s) \in Chats /\ Url(s) \in URLs BY RequestTypes DEF SlotTypes, User, Url
<1>2. tx[s] \in AnyTx /\ inner[s] \in AnyInner BY DEF SlotTypes
<1>3. inner[s].rows # {} => User(s) \in RowIDs BY DEF ShapeInv, Shape
<1> QED BY <1>1, <1>2, <1>3 DEF UrlsOf, SubsOf, ItemsOf, AnyTx, AnyInner

LEMMA TableStep ==
  ASSUME SlotTypes, ShapeInv, TableTypes, Next
  PROVE  TableTypes'
<1> USE DEF tables, pool
<1>1. ASSUME NEW s \in Slots, SlotStep(s)
      PROVE  TableTypes'
  <2>0. /\ UrlsOf(s) \subseteq URLs
        /\ SubsOf(s) \subseteq RowIDs \X URLs
        /\ ItemsOf(s) \subseteq RowIDs \X URLs \X Items
    BY HeldTypes
  <2>1. CASE UNCHANGED <<tables, pool>> \/ GetLinkID(s)
    BY <2>1 DEF TableTypes, GetLinkID
  <2>2. CASE Leaves(s)
    <3>1. stuck' = [stuck EXCEPT !.urls = @ \cup UrlsOf(s), !.subs = @ \cup SubsOf(s)]
      BY <2>2 DEF Leaves, LeaveOpen
    <3>2. stuck' \in AnyLocks
      <4> DEFINE held == UrlsOf(s)  sub == SubsOf(s)
      <4>1. held \subseteq URLs /\ sub \subseteq RowIDs \X URLs BY <2>0
      <4>2. stuck' = [stuck EXCEPT !.urls = @ \cup held, !.subs = @ \cup sub] BY <3>1
      <4>3. stuck \in AnyLocks BY DEF TableTypes
      <4> HIDE DEF held, sub
      <4> QED BY <4>1, <4>2, <4>3 DEF AnyLocks
    <3> QED BY <2>2, <3>2 DEF TableTypes, Leaves, LeaveOpen
  <2>3. CASE LeavesItems(s)
    <3> DEFINE held == ItemsOf(s)
    <3>1. held \subseteq RowIDs \X URLs \X Items BY <2>0
    <3>2. stuck' = [stuck EXCEPT !.items = @ \cup held] BY <2>3 DEF LeavesItems
    <3>3. stuck \in AnyLocks BY DEF TableTypes
    <3> HIDE DEF held
    <3>4. stuck' \in AnyLocks BY <3>1, <3>2, <3>3 DEF AnyLocks
    <3> QED BY <2>3, <3>4 DEF TableTypes, LeavesItems
  <2>4. CASE SavesItems(s) \/ Commit(s)
    <3>1. CASE SavesItems(s) BY <2>0, <3>1 DEF TableTypes, SavesItems
    <3>2. CASE Commit(s) BY <2>0, <3>2 DEF TableTypes, Commit
    <3> QED BY <2>4, <3>1, <3>2
  <2>5. CASE DeleteRow(s) \/ DeleteUser(s)
    BY <2>5 DEF TableTypes, DeleteRow, DeleteUser
  <2> QED BY <1>1, <2>1, <2>2, <2>3, <2>4, <2>5, StoreEffects
<1>2. ASSUME NEW u \in Chats, CreateChat(u) \/ \E tag \in Tags : DeleteTag(u, tag)
      PROVE  TableTypes'
  <2>1. CASE CreateChat(u) BY <2>1 DEF TableTypes, CreateChat
  <2>2. CASE \E tag \in Tags : DeleteTag(u, tag) BY <2>2 DEF TableTypes, DeleteTag
  <2> QED BY <1>2, <2>1, <2>2
<1> QED BY <1>1, <1>2 DEF Next, SlotStep

-----------------------------------------------------------------------------
(* The pool. *)

Conns   == {s \in Slots : HoldsConn(s)}
Seconds == {s \in Slots : HoldsSecond(s)}

PoolInv ==
  /\ leaked \in Nat
  /\ leaked + Cardinality(Conns) + Cardinality(Seconds) <= MaxConns

LEMMA SlotSets ==
  /\ IsFiniteSet(Conns) /\ Cardinality(Conns) \in Nat
  /\ IsFiniteSet(Seconds) /\ Cardinality(Seconds) \in Nat
<1>1. Conns \subseteq Slots /\ Seconds \subseteq Slots BY DEF Conns, Seconds
<1> QED BY <1>1, OrmStoreAssumption, FS_Subset, FS_CardinalityType

LEMMA FewerThan ==
  ASSUME NEW A, NEW B, IsFiniteSet(A), B \subseteq A
  PROVE  IsFiniteSet(B) /\ Cardinality(B) \in Nat /\ Cardinality(B) <= Cardinality(A)
BY FS_Subset, FS_CardinalityType

LEMMA OneMore ==
  ASSUME NEW A, NEW B, NEW x, IsFiniteSet(A), B \subseteq A \cup {x}
  PROVE  Cardinality(B) \in Nat /\ Cardinality(B) <= Cardinality(A) + 1
<1>1. /\ IsFiniteSet(A \cup {x}) /\ Cardinality(A) \in Nat
      /\ Cardinality(A \cup {x}) \in {Cardinality(A), Cardinality(A) + 1}
  BY FS_AddElement, FS_CardinalityType
<1> QED BY <1>1, FewerThan

LEMMA OneLess ==
  ASSUME NEW A, NEW B, NEW x, IsFiniteSet(A), x \in A, B \subseteq A \ {x}
  PROVE  Cardinality(B) \in Nat /\ Cardinality(B) + 1 <= Cardinality(A)
<1>1. /\ IsFiniteSet(A \ {x}) /\ Cardinality(A) \in Nat
      /\ Cardinality(A \ {x}) = Cardinality(A) - 1
  BY FS_RemoveElement, FS_CardinalityType
<1> QED BY <1>1, FewerThan

(* Four ways a step can treat the pool. *)
Kept(s) ==
  leaked' = leaked /\ Conns' \subseteq Conns /\ Seconds' \subseteq Seconds

Taken(s) ==
  /\ FreeConn
  /\ \/ leaked' = leaked + 1 /\ Conns' \subseteq Conns /\ Seconds' \subseteq Seconds
     \/ leaked' = leaked /\ Conns' \subseteq Conns \cup {s} /\ Seconds' \subseteq Seconds
     \/ leaked' = leaked /\ Conns' \subseteq Conns /\ Seconds' \subseteq Seconds \cup {s}

Left(s) ==
  /\ leaked' = leaked + 1
  /\ \/ s \in Conns /\ Conns' \subseteq Conns \ {s} /\ Seconds' \subseteq Seconds
     \/ s \in Seconds /\ Conns' \subseteq Conns /\ Seconds' \subseteq Seconds \ {s}

LEMMA PoolKept ==
  ASSUME PoolInv, NEW s, Kept(s) \/ Taken(s) \/ Left(s)
  PROVE  PoolInv'
<1> DEFINE C == Conns  D == Seconds
<1>0. /\ IsFiniteSet(C) /\ Cardinality(C) \in Nat
      /\ IsFiniteSet(D) /\ Cardinality(D) \in Nat
  BY SlotSets
<1>1. MaxConns \in Nat /\ leaked \in Nat /\ leaked + Cardinality(C) + Cardinality(D) <= MaxConns
  BY OrmStoreAssumption DEF PoolInv
<1>2. FreeConn => leaked + Cardinality(C) + Cardinality(D) < MaxConns
  BY DEF FreeConn, Conns, Seconds
<1>3. Conns' \subseteq C => Cardinality(Conns') \in Nat /\ Cardinality(Conns') <= Cardinality(C)
  BY <1>0, FewerThan
<1>4. Seconds' \subseteq D =>
        Cardinality(Seconds') \in Nat /\ Cardinality(Seconds') <= Cardinality(D)
  BY <1>0, FewerThan
<1>5. Conns' \subseteq C \cup {s} =>
        Cardinality(Conns') \in Nat /\ Cardinality(Conns') <= Cardinality(C) + 1
  BY <1>0, OneMore
<1>6. Seconds' \subseteq D \cup {s} =>
        Cardinality(Seconds') \in Nat /\ Cardinality(Seconds') <= Cardinality(D) + 1
  BY <1>0, OneMore
<1>7. s \in C /\ Conns' \subseteq C \ {s} =>
        Cardinality(Conns') \in Nat /\ Cardinality(Conns') + 1 <= Cardinality(C)
  BY <1>0, OneLess
<1>8. s \in D /\ Seconds' \subseteq D \ {s} =>
        Cardinality(Seconds') \in Nat /\ Cardinality(Seconds') + 1 <= Cardinality(D)
  BY <1>0, OneLess
<1> HIDE DEF C, D
<1>9. CASE Kept(s)
  <2>1. leaked' = leaked /\ Conns' \subseteq C /\ Seconds' \subseteq D BY <1>9 DEF Kept, C, D
  <2> QED BY <1>0, <1>1, <1>3, <1>4, <2>1 DEF PoolInv
<1>10. CASE Taken(s)
  <2>1. /\ FreeConn
        /\ \/ leaked' = leaked + 1 /\ Conns' \subseteq C /\ Seconds' \subseteq D
           \/ leaked' = leaked /\ Conns' \subseteq C \cup {s} /\ Seconds' \subseteq D
           \/ leaked' = leaked /\ Conns' \subseteq C /\ Seconds' \subseteq D \cup {s}
    BY <1>10 DEF Taken, C, D
  <2> QED BY <1>0, <1>1, <1>2, <1>3, <1>4, <1>5, <1>6, <2>1 DEF PoolInv
<1>11. CASE Left(s)
  <2>1. /\ leaked' = leaked + 1
        /\ \/ s \in C /\ Conns' \subseteq C \ {s} /\ Seconds' \subseteq D
           \/ s \in D /\ Conns' \subseteq C /\ Seconds' \subseteq D \ {s}
    BY <1>11 DEF Left, C, D
  <2> QED BY <1>0, <1>1, <1>3, <1>4, <1>7, <1>8, <2>1 DEF PoolInv
<1> QED BY <1>9, <1>10, <1>11

(* Which of the three a step is follows from what it does to its own slot. *)
LEMMA SetsFollow ==
  ASSUME SlotTypes, NEW s \in Slots, \A t \in Slots \ {s} : Same(t)
  PROVE  /\ Conns' \subseteq Conns \cup {s}
         /\ Seconds' \subseteq Seconds \cup {s}
         /\ ~HoldsConn(s)' => Conns' \subseteq Conns \ {s}
         /\ ~HoldsSecond(s)' => Seconds' \subseteq Seconds \ {s}
         /\ (HoldsConn(s)' => HoldsConn(s)) => Conns' \subseteq Conns
         /\ (HoldsSecond(s)' => HoldsSecond(s)) => Seconds' \subseteq Seconds
BY DEF Conns, Seconds, HoldsConn, HoldsSecond, Same

LEMMA PoolStep ==
  ASSUME SlotTypes, ShapeInv, NEW s \in Slots, SlotStep(s)
  PROVE  Kept(s) \/ Taken(s) \/ Left(s)
<1> USE DEF tables, pool, adding, requests, GoTo, AddSteps
<1>0. /\ Shape(s) /\ inner[s] \in AnyInner
      /\ Conns' \subseteq Conns \cup {s}
      /\ Seconds' \subseteq Seconds \cup {s}
      /\ ~HoldsConn(s)' => Conns' \subseteq Conns \ {s}
      /\ ~HoldsSecond(s)' => Seconds' \subseteq Seconds \ {s}
      /\ (HoldsConn(s)' => HoldsConn(s)) => Conns' \subseteq Conns
      /\ (HoldsSecond(s)' => HoldsSecond(s)) => Seconds' \subseteq Seconds
  BY OthersStay, SetsFollow DEF ShapeInv, SlotTypes
<1>a. /\ HoldsConn(s) => s \in Conns
      /\ HoldsSecond(s) => s \in Seconds
  BY DEF Conns, Seconds
(* A request that returns gives its connections back. *)
<1>1. ASSUME NEW r \in Results \cup ChatResults, Return(s, r)
      PROVE  ~HoldsConn(s)' /\ ~HoldsSecond(s)'
  BY <1>1, Returned DEF HoldsConn, HoldsSecond, Results, ChatResults, NoInner
<1>2. ASSUME NEW r \in Results \cup ChatResults, Return(s, r), UNCHANGED pool
      PROVE  Kept(s)
  BY <1>0, <1>1, <1>2 DEF Kept
<1>3. CASE Leaves(s)
  <2>1. ~HoldsConn(s)' /\ ~HoldsSecond(s)' /\ leaked' = leaked + 1
    BY <1>1, <1>3 DEF Leaves, LeaveOpen, Results
  <2>2. HoldsConn(s) BY <1>3 DEF Leaves, HoldsConn
  <2> QED BY <1>0, <1>a, <2>1, <2>2 DEF Left
<1>4. ASSUME EndItems(s) \/ Refused(s), pc[s] \in {"SaveItems", "SaveItem"}
      PROVE  HoldsConn(s) /\ HoldsConn(s)' /\ ~HoldsSecond(s)'
  BY <1>4, ItemsEnded, WasRefused DEF HoldsConn, HoldsSecond, NoInner
<1>5. ASSUME EndItems(s) \/ Refused(s), pc[s] \in {"SaveItems", "SaveItem"}, UNCHANGED pool
      PROVE  Kept(s)
  BY <1>0, <1>4, <1>5 DEF Kept
<1>6. CASE LeavesItems(s)
  <2>1. HoldsSecond(s) BY <1>6 DEF LeavesItems, HoldsSecond
  <2>2. leaked' = leaked + 1 /\ HoldsConn(s) /\ HoldsConn(s)' /\ ~HoldsSecond(s)'
    BY <1>4, <1>6 DEF LeavesItems
  <2> QED BY <1>0, <1>a, <2>1, <2>2 DEF Left
<1>7. CASE \E r \in Requests :
             CallAddLink(s, r) \/ CallRemoveLink(s, r.user, r.url) \/ CallDeleteChat(s, r.user)
  <2>1. pc'[s] \in {"Begin", "FindRow", "FindChat"} /\ inner' = inner /\ leaked' = leaked
    BY <1>7 DEF SlotTypes, CallAddLink, CallRemoveLink, CallDeleteChat, Ask
  <2> QED BY <1>0, <2>1 DEF HoldsConn, HoldsSecond, Kept
<1>8. CASE Begin(s)
  <2>1. FreeConn /\ inner' = inner /\ leaked' = leaked BY <1>8 DEF Begin
  <2> QED BY <1>0, <2>1 DEF HoldsSecond, Taken
<1>9. CASE GetLinkID(s)
  <2>1. /\ FreeConn /\ inner' = inner /\ leaked' = leaked + 1
        /\ pc[s] = "GetLinkID"
    BY <1>9 DEF GetLinkID
  <2> QED BY <1>0, <2>1 DEF HoldsConn, HoldsSecond, Taken
<1>10. CASE BeginItems(s)
  <2>1. FreeConn /\ pc[s] = "BeginItems" /\ leaked' = leaked
    BY <1>10 DEF BeginItems
  <2> QED BY <1>0, <2>1 DEF HoldsConn, Taken
<1>11. CASE InsertLink(s) \/ InsertUser(s)
  <2>1. pc[s] \in {"InsertLink", "InsertUser"} /\ inner' = inner /\ leaked' = leaked
    BY <1>11 DEF InsertLink, InsertUser
  <2> QED BY <1>0, <2>1 DEF HoldsConn, HoldsSecond, Kept
<1>12. CASE SaveName(s)
  <2>1. CASE inner[s].tx = "open"
    BY <1>0, <1>12, <2>1 DEF SaveName, HoldsConn, HoldsSecond, Kept
  <2>2. CASE inner[s].tx = "closed" BY <1>5, <1>12, <2>2 DEF SaveName
  <2>3. CASE inner[s].tx = "none" BY <1>3, <1>12, <2>3 DEF SaveName, Panic, Leaves
  <2> QED BY <1>0, <2>1, <2>2, <2>3 DEF AnyInner
<1>13. CASE SaveItem(s)
  <2>1. CASE Refused(s) BY <1>5, <1>13, <2>1 DEF SaveItem
  <2>2. CASE ~Refused(s)
    <3>1. pc[s] = "SaveItem" /\ inner[s].tx = "open" /\ leaked' = leaked
      BY <1>0, <1>13 DEF SaveItem, Shape
    <3> QED BY <1>0, <3>1 DEF HoldsConn, HoldsSecond, Kept
  <2> QED BY <2>1, <2>2
<1>14. CASE DeadlockVictim(s) BY <1>5, <1>14, VictimWaits DEF DeadlockVictim
<1>15. CASE SavedItems(s)
  <2>1. CASE inner[s].tx = "none" BY <1>3, <1>15, <2>1 DEF SavedItems, Panic, Leaves
  <2>2. CASE inner[s].tx # "none" BY <1>5, <1>15, <2>2 DEF SavedItems
  <2> QED BY <2>1, <2>2
<1>16. CASE ItemsFail(s)
  <2>1. CASE pc[s] = "BeginItems"
    BY <1>0, <1>16, <2>1 DEF ItemsFail, HoldsConn, HoldsSecond, Kept
  <2>2. CASE pc[s] # "BeginItems" /\ UNCHANGED pool BY <1>5, <1>16, <2>2 DEF ItemsFail
  <2>3. CASE ~UNCHANGED pool BY <1>6, <1>16, <2>3 DEF ItemsFail, LeavesItems
  <2> QED BY <2>1, <2>2, <2>3
<1>17. CASE GetLinkIDFails(s)
  BY <1>0, <1>3, <1>17 DEF GetLinkIDFails, Panic, Leaves, Shape, NoInner
<1>18. CASE Commit(s) \/ DeleteRow(s) \/ DeleteUser(s) \/ DeleteFails(s)
  <2>1. UNCHANGED pool /\ \E r \in Results \cup ChatResults : Return(s, r)
    BY <1>18 DEF Commit, DeleteRow, DeleteUser, DeleteFails, Results, ChatResults
  <2> QED BY <1>2, <2>1
<1>19. CASE AddLinkFails(s)
  <2>1. CASE pc[s] = "InsertUser"
    BY <1>0, <1>19, <2>1 DEF AddLinkFails, HoldsConn, HoldsSecond, Kept
  <2>2. CASE pc[s] # "InsertUser" BY <1>2, <1>19, <2>2 DEF AddLinkFails, Results
  <2> QED BY <2>1, <2>2
<1>20. CASE FindRow(s) \/ FindChat(s)
  <2>1. CASE \E r \in Results \cup ChatResults : Return(s, r)
    BY <1>2, <1>20, <2>1 DEF FindRow, FindChat, Find
  <2>2. CASE ~\E r \in Results \cup ChatResults : Return(s, r)
    <3>1. FreeConn /\ leaked' = leaked /\ inner' = inner
      BY <1>20, <2>2 DEF FindRow, FindChat, Find, Results, ChatResults
    <3> QED BY <1>0, <3>1 DEF HoldsSecond, Taken
  <2> QED BY <2>1, <2>2
<1>21. CASE Respond(s)
  <2>1. pc'[s] = "idle" /\ inner' = inner /\ leaked' = leaked
    BY <1>21 DEF SlotTypes, Respond
  <2> QED BY <1>0, <2>1 DEF HoldsConn, HoldsSecond, Kept
<1> QED BY <1>7, <1>8, <1>9, <1>10, <1>11, <1>12, <1>13, <1>14, <1>15, <1>16, <1>17, <1>18,
           <1>19, <1>20, <1>21 DEF SlotStep, Step, AddLinkStep, Fail

-----------------------------------------------------------------------------
(* Rows of links that are not committed. *)

RowKept(s) ==
  /\ tx'[s].row => tx[s].row /\ req'[s] = req[s]
  /\ links' = links /\ stuck'.urls = stuck.urls

RowInserted(s) ==
  /\ ~WaitsForUrl(s) /\ Url(s) \notin links
  /\ req'[s] = req[s] /\ links' = links /\ stuck'.urls = stuck.urls

RowGiven(s) ==
  /\ ~tx'[s].row
  /\ \/ links' = links \cup UrlsOf(s) /\ stuck'.urls = stuck.urls
     \/ links' = links /\ stuck'.urls = stuck.urls \cup UrlsOf(s)

LEMMA RowEffects ==
  ASSUME SlotTypes, TableTypes, ShapeInv, NEW s \in Slots, SlotStep(s)
  PROVE  RowKept(s) \/ RowInserted(s) \/ RowGiven(s)
<1> USE DEF tables, pool, adding, requests, GoTo
<1>0. Shape(s) /\ tx[s] \in AnyTx /\ stuck \in AnyLocks BY DEF ShapeInv, SlotTypes, TableTypes
<1>1. ASSUME NEW r, Return(s, r)
      PROVE  ~tx'[s].row
  BY <1>1, Returned DEF NoTx
<1>2. ASSUME NEW r, Return(s, r), UNCHANGED <<links, pool>>
      PROVE  RowKept(s)
  BY <1>1, <1>2 DEF RowKept
<1>3. CASE Leaves(s)
  <2>1. ~tx'[s].row /\ links' = links BY <1>1, <1>3 DEF Leaves, LeaveOpen
  <2>2. stuck' = [stuck EXCEPT !.urls = @ \cup UrlsOf(s), !.subs = @ \cup SubsOf(s)]
    BY <1>3 DEF Leaves, LeaveOpen
  <2>3. stuck'.urls = stuck.urls \cup UrlsOf(s) BY <1>0, <2>2 DEF AnyLocks
  <2> QED BY <2>1, <2>3 DEF RowGiven
<1>4. CASE LeavesItems(s)
  <2>1. tx' = tx /\ req' = req /\ links' = links BY <1>4, ItemsEnded DEF LeavesItems
  <2>2. stuck'.urls = stuck.urls BY <1>0, <1>4 DEF LeavesItems, AnyLocks
  <2> QED BY <2>1, <2>2 DEF RowKept
<1>5. CASE SavesItems(s)
  BY <1>5, ItemsEnded DEF SavesItems, RowKept
<1>6. CASE Commit(s)
  <2>1. ~tx'[s].row BY <1>1, <1>6 DEF Commit
  <2> QED BY <1>6, <2>1 DEF Commit, RowGiven
<1>7. CASE DeleteRow(s) \/ DeleteUser(s) BY <1>2, <1>7 DEF DeleteRow, DeleteUser
<1>8. CASE GetLinkID(s) BY <1>8 DEF GetLinkID, RowKept
<1>9. CASE UNCHANGED <<tables, pool>>
  <2> USE <1>9
  <2>1. ASSUME NEW r \in Requests,
               CallAddLink(s, r) \/ CallRemoveLink(s, r.user, r.url) \/ CallDeleteChat(s, r.user)
        PROVE  RowKept(s)
    <3>1. tx' = tx /\ pc[s] = "idle"
      BY <2>1 DEF CallAddLink, CallRemoveLink, CallDeleteChat, Ask
    <3> QED BY <1>0, <3>1 DEF RowKept, Shape, Late, NoTx
  <2>2. CASE Begin(s) \/ BeginItems(s) BY <2>2 DEF Begin, BeginItems, RowKept
  <2>3. CASE Respond(s)
    <3>1. tx' = tx /\ pc[s] \notin Late BY <2>3 DEF Respond, Late, Results, ChatResults
    <3> QED BY <1>0, <3>1 DEF RowKept, Shape, NoTx
  <2>4. CASE InsertLink(s)
    <3>1. CASE Url(s) \in links BY <2>4, <3>1 DEF InsertLink, RowKept
    <3>2. CASE Url(s) \notin links BY <2>4, <3>2 DEF InsertLink, RowInserted
    <3> QED BY <3>1, <3>2
  <2>5. ASSUME Abort(s) PROVE RowKept(s)
    BY <2>5 DEF SlotTypes, Abort, RowKept, NoTx
  <2>6. CASE InsertUser(s)
    <3>1. ASSUME NEW id, tx' = [tx EXCEPT ![s].sub = id]
          PROVE  tx'[s].row = tx[s].row
      BY <1>0, <3>1 DEF SlotTypes, AnyTx
    <3>2. req' = req BY <2>6 DEF InsertUser
    <3> QED BY <2>5, <2>6, <3>1, <3>2 DEF InsertUser, RowKept
  <2>7. ASSUME EndItems(s) \/ Refused(s) PROVE RowKept(s)
    BY <2>7, ItemsEnded, WasRefused DEF RowKept
  <2>8. CASE SaveName(s)
    <3>1. CASE inner[s].tx = "open" BY <2>8, <3>1 DEF SaveName, RowKept
    <3>2. CASE inner[s].tx = "closed" BY <2>7, <2>8, <3>2 DEF SaveName
    <3>3. CASE inner[s].tx = "none" BY <1>2, <2>8, <3>3 DEF SaveName, Panic, LeaveOpen
    <3> QED BY <3>1, <3>2, <3>3 DEF SlotTypes, AnyInner
  <2>9. CASE SaveItem(s)
    <3>1. CASE Refused(s) BY <2>7, <3>1
    <3>2. CASE ~Refused(s) BY <2>9, <3>2 DEF SaveItem, RowKept
    <3> QED BY <3>1, <3>2
  <2>10. CASE DeadlockVictim(s) BY <2>7, <2>10 DEF DeadlockVictim
  <2>11. CASE SavedItems(s) BY <1>2, <2>7, <2>11 DEF SavedItems, Panic, LeaveOpen
  <2>12. CASE ItemsFail(s)
    <3>1. CASE pc[s] = "BeginItems" BY <2>12, <3>1 DEF ItemsFail, RowKept
    <3>2. CASE pc[s] # "BeginItems" BY <2>7, <2>12, <3>2 DEF ItemsFail
    <3> QED BY <3>1, <3>2
  <2>13. CASE GetLinkIDFails(s) BY <1>2, <2>13 DEF GetLinkIDFails, Panic, LeaveOpen
  <2>14. CASE AddLinkFails(s) BY <1>2, <2>5, <2>14 DEF AddLinkFails
  <2>15. CASE DeleteFails(s) BY <1>2, <2>15 DEF DeleteFails
  <2>16. CASE FindRow(s) \/ FindChat(s)
    <3>1. CASE \E r : Return(s, r) BY <1>2, <3>1
    <3>2. CASE ~\E r : Return(s, r)
      BY <2>16, <3>2 DEF FindRow, FindChat, Find, RowKept
    <3> QED BY <3>1, <3>2
  <2>17. SlotStep(s) OBVIOUS
  <2> QED BY <1>6, <1>7, <1>8, <2>1, <2>2, <2>3, <2>4, <2>6, <2>8, <2>9, <2>10, <2>11, <2>12,
             <2>13, <2>14, <2>15, <2>16, <2>17 DEF SlotStep, Step, AddLinkStep, Fail
<1> QED BY <1>3, <1>4, <1>5, <1>6, <1>7, <1>8, <1>9, StoreEffects

LEMMA UniqueStep ==
  ASSUME SlotTypes, TableTypes, ShapeInv, UniqueUrl, NEW s \in Slots, SlotStep(s)
  PROVE  UniqueUrl'
<1>1. \A t \in Slots \ {s} : tx'[t] = tx[t] /\ req'[t] = req[t] BY OthersStay DEF Same
<1>2. \A t \in Slots \ {s} : tx[t].row => Url(t) \in UNION {UrlsOf(v) : v \in Slots \ {s}}
  BY DEF UrlsOf
<1>3. CASE RowKept(s) BY <1>1, <1>3 DEF RowKept, UniqueUrl, Url
<1>4. CASE RowInserted(s)
  <2>1. \A t \in Slots \ {s} : tx[t].row => Url(t) # Url(s)
    BY <1>2, <1>4 DEF RowInserted, WaitsForUrl
  <2>2. Url(s) \notin links \cup stuck.urls BY <1>4 DEF RowInserted, WaitsForUrl
  <2> QED BY <1>1, <1>4, <2>1, <2>2 DEF RowInserted, UniqueUrl, Url
<1>5. CASE RowGiven(s)
  <2>1. \A t \in Slots \ {s} : tx[t].row => Url(t) \notin UrlsOf(s)
    BY DEF UniqueUrl, UrlsOf
  <2>2. UrlsOf(s) \cap (links \cup stuck.urls) = {} BY DEF UniqueUrl, UrlsOf
  <2> QED BY <1>1, <1>5, <2>1, <2>2 DEF RowGiven, UniqueUrl, Url
<1> QED BY <1>3, <1>4, <1>5, RowEffects

-----------------------------------------------------------------------------
(* The inductive invariant. *)

(* Nothing is stuck before a connection is. *)
StuckInv == leaked = 0 => stuck = NoLocks

IInv ==
  /\ SlotTypes
  /\ TableTypes
  /\ ShapeInv
  /\ PoolInv
  /\ StuckInv
  /\ UniqueUrl

LEMMA StuckStep ==
  ASSUME SlotTypes, ShapeInv, PoolInv, StuckInv, NEW s \in Slots, SlotStep(s)
  PROVE  StuckInv'
<1>1. leaked' = leaked + 1 \/ UNCHANGED pool
  BY StoreEffects DEF GetLinkID, Leaves, LeaveOpen, LeavesItems, SavesItems, Commit, DeleteRow,
     DeleteUser
<1>2. leaked + 1 # 0 BY DEF PoolInv
<1> QED BY <1>1, <1>2 DEF StuckInv, pool

LEMMA IInvInit == Init => IInv
<1> SUFFICES ASSUME Init PROVE IInv
  OBVIOUS
<1> USE DEF Init
<1>1. SlotTypes
  <2>1. <<>> \in Seq(Items) BY EmptySeq
  <2> QED BY <2>1, NoneTypes, NoRequestType, StepNames DEF SlotTypes
<1>2. TableTypes BY DEF TableTypes, AnyLocks, NoLocks
<1>3. ShapeInv BY DEF ShapeInv, Shape, Late, NoTx, NoInner
<1>4. PoolInv
  <2>1. Conns = {} /\ Seconds = {}
    BY DEF Conns, Seconds, HoldsConn, HoldsSecond, AddSteps, NoInner
  <2> QED BY <2>1, FS_EmptySet, OrmStoreAssumption DEF PoolInv
<1>5. StuckInv BY DEF StuckInv
<1>6. UniqueUrl BY DEF UniqueUrl, NoTx, NoLocks
<1> QED BY <1>1, <1>2, <1>3, <1>4, <1>5, <1>6 DEF IInv

LEMMA IInvNext == IInv /\ [Next]_vars => IInv'
<1> SUFFICES ASSUME IInv, [Next]_vars PROVE IInv'
  OBVIOUS
<1> USE DEF IInv
<1>1. ASSUME NEW s \in Slots, SlotStep(s), Next
      PROVE  IInv'
  <2>1. SlotTypes' /\ TableTypes' BY <1>1, SlotTypeStep, TableStep
  <2>2. ShapeInv'
    <3>1. \A t \in Slots \ {s} : Shape(t)'
      BY <1>1, OthersStay DEF ShapeInv, Shape, Same, User
    <3>2. Shape(s)' BY <1>1, ShapeStep
    <3> QED BY <3>1, <3>2 DEF ShapeInv
  <2>3. PoolInv' BY <1>1, PoolStep, PoolKept
  <2>4. StuckInv' /\ UniqueUrl' BY <1>1, StuckStep, UniqueStep
  <2> QED BY <2>1, <2>2, <2>3, <2>4
<1>2. ASSUME NEW u \in Chats, CreateChat(u) \/ \E tag \in Tags : DeleteTag(u, tag), Next
      PROVE  IInv'
  <2>1. SlotTypes' /\ TableTypes' BY <1>2, SlotTypeStep, TableStep
  <2>2. UNCHANGED <<links, leaked, stuck, pc, req, tx, inner, left, target>>
    BY <1>2 DEF CreateChat, DeleteTag, pool, requests, adding
  <2>3. ShapeInv' BY <2>2 DEF ShapeInv, Shape, User
  <2>4. PoolInv' BY <2>2 DEF PoolInv, Conns, Seconds, HoldsConn, HoldsSecond
  <2>5. StuckInv' /\ UniqueUrl' BY <2>2 DEF StuckInv, UniqueUrl, Url
  <2> QED BY <2>1, <2>3, <2>4, <2>5
<1>3. CASE UNCHANGED vars
  <2>1. /\ UNCHANGED <<users, links, linkUsers, linkItems, leaked, stuck, pc, req>>
        /\ UNCHANGED <<tx, inner, part, left, target>>
    BY <1>3 DEF vars, tables, pool, requests, adding
  <2>2. SlotTypes' /\ TableTypes' BY <2>1 DEF SlotTypes, TableTypes
  <2>3. ShapeInv' BY <2>1 DEF ShapeInv, Shape, User
  <2>4. PoolInv' BY <2>1 DEF PoolInv, Conns, Seconds, HoldsConn, HoldsSecond
  <2>5. StuckInv' /\ UniqueUrl' BY <2>1 DEF StuckInv, UniqueUrl, Url
  <2> QED BY <2>2, <2>3, <2>4, <2>5
<1> QED BY <1>1, <1>2, <1>3 DEF Next, SlotStep

LEMMA IInvHolds == Spec => []IInv
BY IInvInit, IInvNext, PTL DEF Spec

-----------------------------------------------------------------------------
(* Every variable of the ORM storage keeps its type, and no sequence of requests,
   failures and panics leaves behind more connections than the pool has. *)
THEOREM OrmTypeOK == Spec => []TypeOK
<1>1. IInv => TypeOK
  <2> SUFFICES ASSUME IInv PROVE TypeOK
    OBVIOUS
  <2>1. leaked \in 0..MaxConns
    BY SlotSets, OrmStoreAssumption DEF IInv, PoolInv
  <2> QED BY <2>1 DEF IInv, SlotTypes, TableTypes, TypeOK
<1> QED BY <1>1, IInvHolds, PTL

(* Of any number of AddLinks of one URL, at any point of their transactions, one at
   most has a row for it, and none has when links or an abandoned transaction does. *)
THEOREM OrmUniqueUrl == Spec => []UniqueUrl
<1>1. IInv => UniqueUrl BY DEF IInv
<1> QED BY <1>1, IInvHolds, PTL

(* With three connections in the pool no request can bring itself to a stop: its own
   two transactions never wait for each other, and it never wants a fourth connection. *)
THEOREM OrmNoneWaitsForItself ==
  ASSUME MaxConns >= 3
  PROVE  Spec => []NoneWaitsForItself
<1>1. ASSUME IInv PROVE NoneWaitsForItself
  <2> SUFFICES ASSUME NEW s \in Slots, Waits(s), leaked = 0,
                      \A t \in Slots \ {s} : ~HoldsConn(t)
               PROVE  FALSE
    BY <1>1 DEF IInv, PoolInv, NoneWaitsForItself
  <2>1. stuck = NoLocks BY <1>1 DEF IInv, StuckInv
  <2>2. \A t \in Slots \ {s} : tx[t] = NoTx /\ inner[t] = NoInner
    BY <1>1 DEF IInv, ShapeInv, Shape, Late, HoldsConn, AddSteps
  <2>3. FreeConn
    <3>1. Conns \subseteq {} \cup {s} BY DEF Conns
    <3>2. Seconds \subseteq {} \cup {s} BY <2>2 DEF Seconds, HoldsSecond, NoInner
    <3>3. Cardinality({}) = 0 /\ IsFiniteSet({}) BY FS_EmptySet
    <3>4. /\ Cardinality(Conns) \in Nat /\ Cardinality(Conns) <= 0 + 1
          /\ Cardinality(Seconds) \in Nat /\ Cardinality(Seconds) <= 0 + 1
      BY <3>1, <3>2, <3>3, OneMore
    <3>5. leaked + Cardinality(Conns) + Cardinality(Seconds) < MaxConns
      BY <3>4, OrmStoreAssumption
    <3> QED BY <3>5 DEF FreeConn, Conns, Seconds
  <2>4. WaitsForLock(s) BY <2>3 DEF Waits
  <2>5. \A t \in Slots \ {s} : UrlsOf(t) = {} /\ SubsOf(t) = {} /\ ItemsOf(t) = {}
    BY <2>2 DEF UrlsOf, SubsOf, ItemsOf, NoTx, NoInner
  <2>6. ~WaitsForUrl(s) /\ ~WaitsForSub(s) /\ ~WaitsForStuckItem(s)
    BY <2>1, <2>5 DEF WaitsForUrl, WaitsForSub, WaitsForStuckItem, NoLocks
  <2>7. \A t \in Slots : ~WaitsForItem(s, t) BY <2>5 DEF WaitsForItem
  <2>8. ASSUME pc[s] \in {"DeleteRow", "DeleteUser"}
        PROVE  ItemLocks = {} /\ SubLocks = {}
    <3>1. tx[s] = NoTx /\ inner[s] = NoInner
      BY <1>1, <2>8 DEF IInv, ShapeInv, Shape, Late
    <3>2. SubsOf(s) = {} /\ ItemsOf(s) = {} BY <3>1 DEF SubsOf, ItemsOf, NoTx, NoInner
    <3> QED BY <2>1, <2>5, <3>2 DEF ItemLocks, SubLocks, NoLocks
  <2> QED BY <2>4, <2>6, <2>7, <2>8 DEF WaitsForLock, LockedSub, LockedUser
<1> QED BY <1>1, IInvHolds, PTL
(* As long as no connection was left behind and the pool has one to give, requests never
   all wait, however many there are: one that waits does so, in the end, for one that
   inserts a tag or a filter; those wait for each other; so some are on a circle, which
   PostgreSQL breaks. *)
THEOREM OrmJamIsThePool == Spec => []JamIsThePool
<1>1. ASSUME IInv PROVE JamIsThePool
  <2> USE DEF IInv
  <2> SUFFICES ASSUME NEW w \in Slots, Waits(w),
                      \A s \in Slots : pc[s] = "idle" \/ Waits(s), leaked = 0, FreeConn
               PROVE  FALSE
    BY <1>1 DEF JamIsThePool, PoolInv
  <2> DEFINE Saving == {s \in Slots : \E t \in Slots : WaitsForItem(s, t)}
  <2>1. stuck = NoLocks BY <1>1 DEF StuckInv
  <2>2. \A s \in Slots : ~WaitsForStuckItem(s) BY <2>1 DEF WaitsForStuckItem, NoLocks
  <2>3. \A s \in Slots : pc[s] = "idle" \/ WaitsForLock(s) BY DEF Waits
  <2>4. \A t \in Slots : pc[t] \notin {"BeginItems", "SaveItems", "Commit"}
    BY <2>3 DEF WaitsForLock, WaitsForItem
  <2>5. \A t \in Slots : pc[t] = "SaveItem" => t \in Saving /\ ~Deadlocked(t)
    BY <2>2, <2>3 DEF WaitsForLock
  <2>6. \A t \in Slots : SubsOf(t) # {} \/ ItemsOf(t) # {} => t \in Saving
    <3> TAKE t \in Slots
    <3>1. tx[t].sub # 0 => pc[t] \in {"BeginItems", "SaveItems", "SaveItem", "Commit"}
      BY <1>1 DEF ShapeInv, Shape, Late, NoTx
    <3>2. inner[t].rows # {} => pc[t] \in {"SaveItems", "SaveItem"}
      BY <1>1 DEF ShapeInv, Shape, NoInner
    <3> QED BY <2>4, <2>5, <3>1, <3>2 DEF SubsOf, ItemsOf
  <2>7. \A s \in Slots : WaitsForSub(s) => Saving # {}
    <3> TAKE s \in Slots
    <3> HAVE WaitsForSub(s)
    <3>1. PICK t \in Slots : SubsOf(t) # {} BY <2>1 DEF WaitsForSub, NoLocks
    <3> QED BY <2>6, <3>1
  <2>8. \A t \in Slots : UrlsOf(t) # {} => Saving # {}
    <3> TAKE t \in Slots
    <3> HAVE UrlsOf(t) # {}
    <3>1. pc[t] \in Late BY <1>1 DEF UrlsOf, ShapeInv, Shape, NoTx
    <3>2. CASE pc[t] = "InsertUser" BY <2>3, <2>7, <3>2 DEF WaitsForLock, WaitsForItem
    <3>3. CASE pc[t] # "InsertUser" BY <2>4, <2>5, <3>1, <3>3 DEF Late
    <3> QED BY <3>2, <3>3
  <2>9. ASSUME NEW s \in Slots, WaitsForLock(s) PROVE Saving # {}
    <3>1. CASE WaitsForUrl(s)
      <4>1. PICK t \in Slots : UrlsOf(t) # {} BY <2>1, <3>1 DEF WaitsForUrl, NoLocks
      <4> QED BY <2>8, <4>1
    <3>2. CASE WaitsForSub(s) BY <2>7, <3>2
    <3>3. CASE \E t \in Slots : WaitsForItem(s, t) BY <3>3
    <3>4. CASE ItemLocks # {} \/ SubLocks # {}
      <4>1. PICK t \in Slots : SubsOf(t) # {} \/ ItemsOf(t) # {}
        BY <2>1, <3>4 DEF ItemLocks, SubLocks, NoLocks
      <4> QED BY <2>6, <4>1
    <3>5. LockedSub(target[s], Url(s)) => ItemLocks # {} BY DEF LockedSub
    <3>6. LockedUser(target[s]) => ItemLocks # {} \/ SubLocks # {} BY DEF LockedUser
    <3> QED BY <2>2, <2>9, <3>1, <3>2, <3>3, <3>4, <3>5, <3>6 DEF WaitsForLock
  <2>10. Saving # {} BY <2>9 DEF Waits
  <2>11. \A s \in Saving : \E t \in Saving : <<s, t>> \in ItemWaits
    <3> TAKE s \in Saving
    <3>1. PICK t \in Slots : WaitsForItem(s, t) OBVIOUS
    <3>2. t \in Saving BY <2>6, <3>1 DEF WaitsForItem
    <3> QED BY <3>1, <3>2 DEF ItemWaits
  <2>12. ItemWaits \in SUBSET (Slots \X Slots) /\ Saving \in SUBSET Slots BY DEF ItemWaits
  <2>13. \E s \in Saving : OnCycle(ItemWaits, Slots, s)
    <3> HIDE DEF Saving
    <3> QED BY <2>10, <2>11, <2>12, SomebodyOnCycle, OrmStoreAssumption
  <2> QED BY <2>5, <2>13 DEF Deadlocked, WaitsForItem
<1> QED BY <1>1, IInvHolds, PTL
=============================================================================
