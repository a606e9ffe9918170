------------------------- MODULE OrmTrackingProofs --------------------------
(***************************************************************************)
(* Proof that the ORM storage implements Tracking.  Beside IInv it takes   *)
(* that the rows refer to one another as the keys of the schema say        *)
(* (RowsInv), and that the history of a request in progress holds what its *)
(* answer will rest on (SeenInv).  Visible sorts the steps of a request by *)
(* what the one who asked can tell of them; RequestRefines gives for each  *)
(* sort the abstract step, or shows that it is none.                       *)
(***************************************************************************)
EXTENDS OrmTracking, OrmProofs

(* The rows: users is one-to-one, link_users refers to it, an open transaction's row
   to the user it is for, and a DELETE's target is nobody else's row. *)
OneToOne ==
  \A row, other \in users : row[1] = other[1] \/ row[2] = other[2] => row = other

Refers == \A row \in linkUsers : \E u \in Chats : <<row[1], u>> \in users

SubRefers == \A s \in Slots : tx[s].sub # 0 => <<tx[s].sub, User(s)>> \in users

OwnTarget == \A s \in Slots : \A u \in Chats : <<target[s], u>> \in users => u = User(s)

RowsInv == OneToOne /\ Refers /\ SubRefers /\ OwnTarget

ItemSteps == {"BeginItems", "SaveItems", "SaveItem", "Commit"}

(* AddLink's transaction has found the subscription there. *)
FoundThere(s) == pc[s] \in ItemSteps /\ tx[s].sub = 0 /\ ~tx[s].failed

(* The row of RemoveLink's DELETE has gone meanwhile. *)
GoneMeanwhile(s) == pc[s] = "DeleteRow" /\ <<target[s], Url(s)>> \notin linkUsers

SeenInv ==
  /\ seen \in [Slots -> SUBSET BOOLEAN]
  /\ \A s \in Slots :
       /\ ~InProgress(s) => seen[s] = {}
       /\ InProgress(s) => (Pair(s) \in Tracked) \in seen[s]
       /\ FoundThere(s) => TRUE \in seen[s]
       /\ GoneMeanwhile(s) => FALSE \in seen[s]

HInv == IInv /\ RowsInv /\ SeenInv

-----------------------------------------------------------------------------
(* What a step of a request is for the one who asked. *)

Within(s) ==
  /\ \/ pc[s] \in AddSteps /\ pc'[s] \in AddSteps
     \/ pc[s] = "FindRow" /\ pc'[s] = "DeleteRow"
  /\ req'[s] = req[s]
  /\ UNCHANGED <<users, linkUsers>>

Aside(s) ==
  /\ pc[s] \in {"idle"} \cup ChatSteps \cup ChatResults
  /\ pc'[s] \in {"idle"} \cup ChatSteps \cup ChatResults
  /\ UNCHANGED <<users, linkUsers>>

Called(s) ==
  /\ pc[s] = "idle" /\ pc'[s] \in {"Begin", "FindRow"}
  /\ UNCHANGED <<users, linkUsers>>

Answered(s) ==
  /\ pc[s] \in Results /\ pc'[s] = "idle"
  /\ UNCHANGED <<users, linkUsers>>

AddFailed(s) ==
  /\ pc[s] \in AddSteps /\ pc'[s] \in {"error", "panic"}
  /\ req'[s] = req[s]
  /\ UNCHANGED <<users, linkUsers>>

FoundNone(s) ==
  /\ pc[s] = "FindRow" /\ pc'[s] = "nil"
  /\ {id \in RowsOf(s) : <<id, Url(s)>> \in linkUsers} = {}
  /\ req'[s] = req[s]
  /\ UNCHANGED <<users, linkUsers>>

RemoveFailed(s) ==
  /\ pc[s] \in RemoveSteps /\ pc'[s] = "error"
  /\ req'[s] = req[s]
  /\ UNCHANGED <<users, linkUsers>>

LEMMA Visible ==
  ASSUME SlotTypes, ShapeInv, NEW s \in Slots, SlotStep(s)
  PROVE  \/ Within(s) \/ Aside(s) \/ Called(s) \/ Answered(s) \/ AddFailed(s)
         \/ FoundNone(s) \/ RemoveFailed(s)
         \/ Commit(s) \/ DeleteRow(s) \/ DeleteUser(s)
<1> USE DEF tables, pool, adding, requests, GoTo, AddSteps, RemoveSteps, ChatSteps, Results,
        ChatResults
<1>0. Shape(s) /\ inner[s] \in AnyInner BY DEF ShapeInv, SlotTypes
<1>1. ASSUME NEW r \in Requests,
             CallAddLink(s, r) \/ CallRemoveLink(s, r.user, r.url) \/ CallDeleteChat(s, r.user)
      PROVE  Called(s) \/ Aside(s)
  BY <1>1 DEF SlotTypes, Called, Aside, CallAddLink, CallRemoveLink, CallDeleteChat, Ask
<1>2. CASE Begin(s) \/ GetLinkID(s) \/ BeginItems(s)
  BY <1>2 DEF SlotTypes, Within, Begin, GetLinkID, BeginItems
<1>3. CASE InsertLink(s) \/ InsertUser(s)
  BY <1>3 DEF SlotTypes, Within, InsertLink, InsertUser
<1>4. CASE Respond(s)
  BY <1>4 DEF SlotTypes, Answered, Aside, Respond
<1>5. ASSUME EndItems(s) \/ Refused(s), pc[s] \in {"SaveItems", "SaveItem"},
             UNCHANGED <<users, linkUsers>>
      PROVE  Within(s)
  BY <1>5, ItemsEnded, WasRefused DEF Within
<1>6. CASE Leaves(s)
  <2>1. req' = req /\ pc'[s] \in {"error", "panic"} BY <1>6, Returned DEF Leaves, LeaveOpen
  <2> QED BY <1>6, <2>1 DEF AddFailed, Leaves, LeaveOpen
<1>7. CASE SaveName(s)
  <2>1. CASE inner[s].tx = "open" BY <1>7, <2>1 DEF SlotTypes, SaveName, Within
  <2>2. CASE inner[s].tx = "closed" BY <1>5, <1>7, <2>2 DEF SaveName
  <2>3. CASE inner[s].tx = "none" BY <1>6, <1>7, <2>3 DEF SaveName, Panic, Leaves
  <2> QED BY <1>0, <2>1, <2>2, <2>3 DEF AnyInner
<1>8. CASE SaveItem(s)
  <2>1. CASE Refused(s) BY <1>5, <1>8, <2>1 DEF SaveItem
  <2>2. CASE ~Refused(s) BY <1>8, <2>2 DEF SlotTypes, SaveItem, Within
  <2> QED BY <2>1, <2>2
<1>9. CASE DeadlockVictim(s) BY <1>5, <1>9, VictimWaits DEF DeadlockVictim
<1>10. CASE SavedItems(s)
  <2>1. CASE inner[s].tx = "none" BY <1>6, <1>10, <2>1 DEF SavedItems, Panic, Leaves
  <2>2. CASE inner[s].tx # "none" BY <1>5, <1>10, <2>2 DEF SavedItems
  <2> QED BY <2>1, <2>2
<1>11. CASE ItemsFail(s)
  <2>1. CASE pc[s] = "BeginItems" BY <1>11, <2>1 DEF SlotTypes, ItemsFail, Within
  <2>2. CASE pc[s] # "BeginItems" BY <1>5, <1>11, <2>2 DEF ItemsFail
  <2> QED BY <2>1, <2>2
<1>12. CASE GetLinkIDFails(s)
  BY <1>0, <1>6, <1>12 DEF GetLinkIDFails, Panic, Leaves, Shape, NoInner
<1>13. CASE AddLinkFails(s)
  <2>1. CASE pc[s] = "InsertUser" BY <1>13, <2>1 DEF SlotTypes, AddLinkFails, Within
  <2>2. CASE pc[s] # "InsertUser" BY <1>13, <2>2, Returned DEF AddLinkFails, AddFailed
  <2> QED BY <2>1, <2>2
<1>14. CASE DeleteFails(s) BY <1>14, Returned DEF DeleteFails, RemoveFailed, Aside
<1>15. CASE FindRow(s)
  <2>1. CASE Return(s, "nil") /\ {id \in RowsOf(s) : <<id, Url(s)>> \in linkUsers} = {}
    BY <1>15, <2>1, Returned DEF FindRow, Find, FoundNone
  <2>2. CASE GoTo(s, "DeleteRow") /\ req' = req
    BY <1>15, <2>2 DEF SlotTypes, FindRow, Find, Within
  <2> QED BY <1>15, <2>1, <2>2 DEF FindRow, Find
<1>16. CASE FindChat(s)
  <2>1. pc'[s] \in {"ok", "DeleteUser"} BY <1>16, Returned DEF SlotTypes, FindChat, Find
  <2> QED BY <1>16, <2>1 DEF FindChat, Find, Aside
<1> QED BY <1>1, <1>2, <1>3, <1>4, <1>7, <1>8, <1>9, <1>10, <1>11, <1>12, <1>13, <1>14, <1>15,
           <1>16 DEF SlotStep, Step, AddLinkStep, Fail

(* How a step can come to hold a subscription, to know of one or to aim at one. *)

SubEffect(s) ==
  tx'[s].sub # 0 =>
    /\ req'[s] = req[s]
    /\ tx'[s].sub = tx[s].sub \/ <<tx'[s].sub, User(s)>> \in users

FoundEffect(s) ==
  FoundThere(s)' =>
    /\ req'[s] = req[s] /\ pc[s] \in AddSteps
    /\ \/ FoundThere(s)
       \/ \E id \in RowIDs : <<id, User(s)>> \in users /\ <<id, Url(s)>> \in linkUsers

TargetEffect(s) ==
  target'[s] # 0 =>
    /\ req'[s] = req[s] /\ pc[s] \in {"FindRow", "FindChat"}
    /\ <<target'[s], User(s)>> \in users
    /\ UNCHANGED <<users, linkUsers>>
    /\ pc'[s] = "DeleteRow" => <<target'[s], Url(s)>> \in linkUsers

Effects(s) == SubEffect(s) /\ FoundEffect(s) /\ TargetEffect(s)

LEMMA RowSteps ==
  ASSUME SlotTypes, ShapeInv, NEW s \in Slots, SlotStep(s)
  PROVE  Effects(s)
<1> USE DEF tables, pool, adding, requests, GoTo, Effects, ItemSteps
<1>0. Shape(s) /\ tx[s] \in AnyTx /\ inner[s] \in AnyInner BY DEF ShapeInv, SlotTypes
(* The transaction stays, or goes, and nothing is aimed at. *)
<1>1. ASSUME tx'[s] = tx[s], req'[s] = req[s], target'[s] = 0,
             pc'[s] \in ItemSteps => pc[s] \in ItemSteps
      PROVE  Effects(s)
  BY <1>1 DEF SubEffect, FoundEffect, FoundThere, TargetEffect, AddSteps
<1>2. ASSUME tx'[s] = NoTx, target'[s] = 0, pc'[s] \notin ItemSteps
      PROVE  Effects(s)
  BY <1>2 DEF NoTx, SubEffect, FoundEffect, FoundThere, TargetEffect
<1>3. ASSUME NEW r \in Results \cup ChatResults, Return(s, r)
      PROVE  Effects(s)
  BY <1>2, <1>3, Returned DEF Results, ChatResults
<1>4. ASSUME EndItems(s) \/ Refused(s), pc[s] \in {"SaveItems", "SaveItem"}
      PROVE  Effects(s)
  <2>1. target[s] = 0 BY <1>0, <1>4 DEF Shape
  <2> QED BY <1>1, <1>4, <2>1, ItemsEnded, WasRefused
<1>5. ASSUME NEW r \in Requests,
             CallAddLink(s, r) \/ CallRemoveLink(s, r.user, r.url) \/ CallDeleteChat(s, r.user)
      PROVE  Effects(s)
  <2>1. /\ pc[s] = "idle" /\ tx' = tx /\ target' = target
        /\ pc'[s] \in {"Begin", "FindRow", "FindChat"}
    BY <1>5 DEF SlotTypes, CallAddLink, CallRemoveLink, CallDeleteChat, Ask
  <2> QED BY <1>0, <1>2, <2>1 DEF Shape, Late
<1>6. CASE Begin(s) \/ GetLinkID(s) \/ Respond(s)
  <2>1. /\ pc[s] \in {"Begin", "GetLinkID"} \cup Results \cup ChatResults
        /\ pc'[s] \in {"InsertLink", "InsertUser", "idle"}
        /\ tx' = tx /\ target' = target
    BY <1>6 DEF SlotTypes, Begin, GetLinkID, Respond
  <2> QED BY <1>0, <1>2, <2>1 DEF Shape, Late, Results, ChatResults
<1>7. CASE BeginItems(s)
  <2>1. pc[s] = "BeginItems" /\ tx' = tx /\ req' = req /\ target' = target
    BY <1>7 DEF BeginItems
  <2> QED BY <1>0, <1>1, <2>1 DEF Shape
<1>8. CASE InsertLink(s)
  <2>1. tx[s] = NoTx /\ target[s] = 0 BY <1>0, <1>8 DEF InsertLink, Shape, Late
  <2>2. tx'[s].sub = 0
    <3>1. CASE Url(s) \in links BY <1>8, <2>1, <3>1 DEF InsertLink, NoTx
    <3>2. CASE Url(s) \notin links
      BY <1>0, <1>8, <2>1, <3>2 DEF SlotTypes, InsertLink, NoTx
    <3> QED BY <3>1, <3>2
  <2>3. pc'[s] \notin ItemSteps /\ target' = target BY <1>8 DEF SlotTypes, InsertLink
  <2> QED BY <2>1, <2>2, <2>3 DEF SubEffect, FoundEffect, FoundThere, TargetEffect
<1>9. ASSUME Abort(s), target'[s] = 0
      PROVE  Effects(s)
  <2>1. tx'[s].sub = 0 /\ tx'[s].failed BY <1>9 DEF SlotTypes, Abort, NoTx
  <2> QED BY <1>9, <2>1 DEF SubEffect, FoundEffect, FoundThere, TargetEffect
<1>10. CASE InsertUser(s)
  <2>1. target'[s] = 0 /\ req' = req /\ pc[s] = "InsertUser"
    BY <1>0, <1>10 DEF InsertUser, Shape
  <2>2. ASSUME NEW id \in RowIDs, <<id, User(s)>> \in users,
               tx' = [tx EXCEPT ![s].sub = IF <<id, Url(s)>> \in linkUsers THEN 0 ELSE id]
        PROVE  Effects(s)
    <3> DEFINE sub == IF <<id, Url(s)>> \in linkUsers THEN 0 ELSE id
    <3>1. tx' = [tx EXCEPT ![s] = [tx[s] EXCEPT !.sub = sub]] BY <2>2
    <3>2. sub = 0 => <<id, Url(s)>> \in linkUsers BY OrmStoreAssumption
    <3>3. sub # 0 => sub = id OBVIOUS
    <3> HIDE DEF sub
    <3>4. tx'[s].sub = sub BY <1>0, <3>1 DEF SlotTypes, AnyTx
    <3> QED BY <2>1, <2>2, <3>2, <3>3, <3>4
            DEF SubEffect, FoundEffect, FoundThere, TargetEffect, AddSteps
  <2> QED BY <1>9, <1>10, <2>1, <2>2 DEF InsertUser
<1>11. CASE Leaves(s) BY <1>3, <1>11 DEF Leaves, LeaveOpen, Results
<1>12. CASE SaveName(s)
  <2>1. CASE inner[s].tx = "open"
    <3>1. target[s] = 0 /\ tx' = tx /\ req' = req /\ target' = target /\ pc[s] = "SaveItems"
      BY <1>0, <1>12, <2>1 DEF SaveName, Shape
    <3> QED BY <1>1, <3>1
  <2>2. CASE inner[s].tx = "closed" BY <1>4, <1>12, <2>2 DEF SaveName
  <2>3. CASE inner[s].tx = "none" BY <1>11, <1>12, <2>3 DEF SaveName, Panic, Leaves
  <2> QED BY <1>0, <2>1, <2>2, <2>3 DEF AnyInner
<1>13. CASE SaveItem(s)
  <2>1. CASE Refused(s) BY <1>4, <1>13, <2>1 DEF SaveItem
  <2>2. CASE ~Refused(s)
    <3>1. target[s] = 0 /\ tx' = tx /\ req' = req /\ target' = target /\ pc[s] = "SaveItem"
      BY <1>0, <1>13, <2>2 DEF SaveItem, Shape
    <3> QED BY <1>1, <3>1
  <2> QED BY <2>1, <2>2
<1>14. CASE DeadlockVictim(s) BY <1>4, <1>14, VictimWaits DEF DeadlockVictim
<1>15. CASE SavedItems(s)
  <2>1. CASE inner[s].tx = "none" BY <1>11, <1>15, <2>1 DEF SavedItems, Panic, Leaves
  <2>2. CASE inner[s].tx # "none" BY <1>4, <1>15, <2>2 DEF SavedItems
  <2> QED BY <2>1, <2>2
<1>16. CASE ItemsFail(s)
  <2>1. CASE pc[s] = "BeginItems"
    <3>1. target[s] = 0 /\ tx' = tx /\ req' = req /\ target' = target
      BY <1>0, <1>16, <2>1 DEF ItemsFail, Shape
    <3> QED BY <1>1, <2>1, <3>1
  <2>2. CASE pc[s] # "BeginItems" BY <1>4, <1>16, <2>2 DEF ItemsFail
  <2> QED BY <2>1, <2>2
<1>17. CASE GetLinkIDFails(s)
  BY <1>0, <1>11, <1>17 DEF GetLinkIDFails, Panic, Leaves, Shape, NoInner
<1>18. CASE AddLinkFails(s)
  <2>1. CASE pc[s] = "InsertUser" BY <1>0, <1>9, <1>18, <2>1 DEF AddLinkFails, Shape
  <2>2. CASE pc[s] # "InsertUser" BY <1>3, <1>18, <2>2 DEF AddLinkFails, Results
  <2> QED BY <2>1, <2>2
<1>19. CASE Commit(s) \/ DeleteRow(s) \/ DeleteUser(s) \/ DeleteFails(s)
  <2>1. \E r \in Results \cup ChatResults : Return(s, r)
    BY <1>19 DEF Commit, DeleteRow, DeleteUser, DeleteFails, Results, ChatResults
  <2> QED BY <1>3, <2>1
<1>20. CASE FindRow(s) \/ FindChat(s)
  <2>1. CASE \E r \in Results \cup ChatResults : Return(s, r) BY <1>3, <2>1
  <2>2. ASSUME NEW id \in RowsOf(s), NEW step \in {"DeleteRow", "DeleteUser"},
               step = "DeleteRow" => <<id, Url(s)>> \in linkUsers,
               pc[s] \in {"FindRow", "FindChat"}, UNCHANGED tables,
               GoTo(s, step), target' = [target EXCEPT ![s] = id], UNCHANGED <<req, adding>>
        PROVE  Effects(s)
    <3>1. tx[s] = NoTx BY <1>0, <2>2 DEF Shape, Late
    <3>2. <<id, User(s)>> \in users BY DEF RowsOf
    <3>3. pc'[s] = step /\ target'[s] = id /\ tx'[s] = NoTx /\ req' = req
      BY <2>2, <3>1 DEF SlotTypes
    <3> QED BY <2>2, <3>2, <3>3 DEF SubEffect, FoundEffect, FoundThere, TargetEffect, NoTx
  <2>3. CASE FindRow(s)
    BY <2>1, <2>2, <2>3 DEF FindRow, Find, Results, ChatResults
  <2>4. CASE FindChat(s)
    BY <2>1, <2>2, <2>4 DEF FindChat, Find, Results, ChatResults
  <2> QED BY <1>20, <2>3, <2>4
<1> QED BY <1>5, <1>6, <1>7, <1>8, <1>10, <1>12, <1>13, <1>14, <1>15, <1>16, <1>17, <1>18, <1>19,
           <1>20 DEF SlotStep, Step, AddLinkStep, Fail

-----------------------------------------------------------------------------
(* The tables users and link_users, as a step changes them. *)

LEMMA TableEffects ==
  ASSUME SlotTypes, ShapeInv, NEW s \in Slots, SlotStep(s)
  PROVE  \/ UNCHANGED <<users, linkUsers>>
         \/ Commit(s) \/ DeleteRow(s) \/ DeleteUser(s)
BY Visible DEF Within, Aside, Called, Answered, AddFailed, FoundNone, RemoveFailed

LEMMA RowsStep ==
  ASSUME SlotTypes, TableTypes, ShapeInv, RowsInv, NEW s \in Slots, SlotStep(s)
  PROVE  RowsInv'
<1>0. /\ \A t \in Slots \ {s} : Same(t)
      /\ SubEffect(s) /\ TargetEffect(s) /\ Shape(s)
  BY OthersStay, RowSteps DEF Effects, ShapeInv
<1>1. users' \subseteq users
  BY TableEffects DEF Commit, DeleteRow, DeleteUser
<1>2. OneToOne' BY <1>1 DEF RowsInv, OneToOne
<1>3. CASE UNCHANGED <<users, linkUsers>>
  <2>1. Refers' BY <1>3 DEF RowsInv, Refers
  <2>2. SubRefers' BY <1>0, <1>3 DEF RowsInv, SubRefers, SubEffect, Same, User
  <2>3. OwnTarget'
    <3>1. ASSUME NEW u \in Chats, <<target'[s], u>> \in users'
          PROVE  u = User(s)'
      <4>1. target'[s] # 0
        <5>1. users \subseteq RowIDs \X Chats BY DEF TableTypes
        <5> QED BY <1>1, <3>1, <5>1, OrmStoreAssumption
      <4>2. <<target'[s], User(s)>> \in users /\ req'[s] = req[s]
        BY <1>0, <4>1 DEF TargetEffect
      <4> QED BY <1>3, <3>1, <4>2 DEF RowsInv, OneToOne, User
    <3>2. \A t \in Slots \ {s} : \A u \in Chats : <<target'[t], u>> \in users' => u = User(t)'
      BY <1>0, <1>3 DEF RowsInv, OwnTarget, Same, User
    <3> QED BY <3>1, <3>2 DEF OwnTarget
  <2> QED BY <1>2, <2>1, <2>2, <2>3 DEF RowsInv
<1>4. CASE Commit(s) \/ DeleteRow(s) \/ DeleteUser(s)
  <2>1. tx'[s] = NoTx /\ target'[s] = 0
    BY <1>4, Returned DEF Commit, DeleteRow, DeleteUser
  <2>2. OwnTarget'
    <3>1. users \subseteq RowIDs \X Chats BY DEF TableTypes
    <3>2. \A u : <<0, u>> \notin users' BY <1>1, <3>1, OrmStoreAssumption
    <3>3. \A t \in Slots \ {s} : \A u \in Chats : <<target'[t], u>> \in users' => u = User(t)'
      BY <1>0, <1>1 DEF RowsInv, OwnTarget, Same, User
    <3> QED BY <2>1, <3>2, <3>3 DEF OwnTarget
  <2>3. CASE Commit(s)
    <3>1. users' = users BY <2>3 DEF Commit
    <3>2. SubRefers' BY <1>0, <2>1, <3>1 DEF RowsInv, SubRefers, Same, User, NoTx
    <3>3. Refers'
      <4>1. ASSUME NEW row \in SubsOf(s) PROVE \E u \in Chats : <<row[1], u>> \in users
        <5>1. row = <<tx[s].sub, Url(s)>> /\ <<tx[s].sub, User(s)>> \in users
          BY <4>1 DEF SubsOf, RowsInv, SubRefers
        <5>2. User(s) \in Chats BY RequestTypes DEF SlotTypes, User
        <5> QED BY <5>1, <5>2
      <4>2. linkUsers' = linkUsers \cup SubsOf(s) BY <2>3 DEF Commit
      <4> QED BY <3>1, <4>1, <4>2 DEF RowsInv, Refers
    <3> QED BY <1>2, <2>2, <3>2, <3>3 DEF RowsInv
  <2>4. CASE DeleteRow(s)
    <3>1. users' = users /\ linkUsers' \subseteq linkUsers BY <2>4 DEF DeleteRow
    <3>2. SubRefers' BY <1>0, <2>1, <3>1 DEF RowsInv, SubRefers, Same, User, NoTx
    <3>3. Refers' BY <3>1 DEF RowsInv, Refers
    <3> QED BY <1>2, <2>2, <3>2, <3>3 DEF RowsInv
  <2>5. CASE DeleteUser(s)
    <3>1. /\ users' = {row \in users : row[1] # target[s]}
          /\ linkUsers' = {row \in linkUsers : row[1] # target[s]}
          /\ ~LockedUser(target[s])
      BY <2>5 DEF DeleteUser
    <3>2. \A t \in Slots : tx[t].sub # 0 => tx[t].sub # target[s]
      <4>1. ASSUME NEW t \in Slots, tx[t].sub # 0, tx[t].sub = target[s] PROVE FALSE
        <5>1. <<tx[t].sub, Url(t)>> \in SubLocks BY <4>1 DEF SubLocks, SubsOf
        <5> QED BY <3>1, <4>1, <5>1 DEF LockedUser
      <4> QED BY <4>1
    <3>3. SubRefers'
      BY <1>0, <2>1, <3>1, <3>2 DEF RowsInv, SubRefers, Same, User, NoTx
    <3>4. Refers' BY <3>1 DEF RowsInv, Refers
    <3> QED BY <1>2, <2>2, <3>3, <3>4 DEF RowsInv
  <2> QED BY <1>4, <2>3, <2>4, <2>5
<1> QED BY <1>3, <1>4, TableEffects

LEMMA RowsCreated ==
  ASSUME SlotTypes, TableTypes, RowsInv, NEW u \in Chats, CreateChat(u)
  PROVE  RowsInv' /\ Tracked' = Tracked
<1>1. UNCHANGED <<linkUsers, tx, target, req>>
  BY DEF CreateChat, requests, adding
<1>2. PICK id \in RowIDs :
        /\ \A row \in users : row[1] # id
        /\ \A s \in Slots : target[s] # id
        /\ users' = users \cup {<<id, u>>}
  BY DEF CreateChat
<1>3. \A row \in users : row[2] # u
  <2>1. \A row \in users : row = <<row[1], row[2]>> /\ row[1] \in RowIDs BY DEF TableTypes
  <2>2. \A i \in RowIDs : <<i, u>> \notin users BY DEF CreateChat
  <2> QED BY <2>1, <2>2
<1>4. OneToOne'
  <2> SUFFICES ASSUME NEW row \in users', NEW other \in users',
                      row[1] = other[1] \/ row[2] = other[2]
               PROVE  row = other
    BY DEF OneToOne
  <2>1. CASE row \in users /\ other \in users BY <2>1 DEF RowsInv, OneToOne
  <2>2. CASE row \notin users \/ other \notin users
    <3>1. row = <<id, u>> \/ other = <<id, u>> BY <1>2, <2>2
    <3> QED BY <1>2, <1>3, <3>1
  <2> QED BY <2>1, <2>2
<1>5. Refers' /\ SubRefers' BY <1>1, <1>2 DEF RowsInv, Refers, SubRefers, User
<1>6. OwnTarget'
  <2> SUFFICES ASSUME NEW s \in Slots, NEW v \in Chats, <<target[s], v>> \in users'
               PROVE  v = User(s)
    BY <1>1 DEF OwnTarget, User
  <2>1. <<target[s], v>> # <<id, u>> BY <1>2
  <2> QED BY <1>2, <2>1 DEF RowsInv, OwnTarget
<1>7. \A url : <<id, url>> \notin linkUsers
  <2> SUFFICES ASSUME NEW url, <<id, url>> \in linkUsers PROVE FALSE
    OBVIOUS
  <2>1. PICK v \in Chats : <<id, v>> \in users BY DEF RowsInv, Refers
  <2> QED BY <1>2, <2>1
<1>8. Tracked' = Tracked
  <2>1. ASSUME NEW pair, NEW i \in RowIDs,
               <<i, pair[2]>> \in linkUsers
        PROVE  <<i, pair[1]>> \in users' <=> <<i, pair[1]>> \in users
    <3>1. i # id BY <1>7, <2>1
    <3>2. <<i, pair[1]>> # <<id, u>> BY <3>1
    <3> QED BY <1>2, <3>2
  <2> QED BY <1>1, <2>1 DEF Tracked
<1> QED BY <1>4, <1>5, <1>6, <1>8 DEF RowsInv

-----------------------------------------------------------------------------
(* The history. *)

LEMMA WatchedSlot ==
  ASSUME Watch, NEW s \in Slots
  PROVE  /\ ~InProgress(s)' => seen'[s] = {}
         /\ InProgress(s)' => (Pair(s)' \in Tracked') \in seen'[s]
         /\ InProgress(s)' /\ InProgress(s) => seen'[s] = seen[s] \cup {Pair(s)' \in Tracked'}
         /\ InProgress(s)' /\ ~InProgress(s) => seen'[s] = {Pair(s)' \in Tracked'}
<1>1. seen'[s] = IF ~InProgress(s)' THEN {}
                 ELSE (IF InProgress(s) THEN seen[s] ELSE {}) \cup {Pair(s)' \in Tracked'}
  BY DEF Watch
<1> QED BY <1>1

LEMMA WatchedType ==
  ASSUME Watch, seen \in [Slots -> SUBSET BOOLEAN]
  PROVE  seen' \in [Slots -> SUBSET BOOLEAN]
<1>1. ASSUME NEW s \in Slots
      PROVE  seen'[s] \in SUBSET BOOLEAN
  <2>1. (Pair(s)' \in Tracked') \in BOOLEAN OBVIOUS
  <2>2. seen[s] \in SUBSET BOOLEAN OBVIOUS
  <2> QED BY <2>1, <2>2, WatchedSlot
<1>2. seen' = [s \in Slots |-> seen'[s]]
  BY DEF Watch
<1> QED BY <1>1, <1>2

(* The values a history has had stay in it. *)
LEMMA Remembers ==
  ASSUME Watch, NEW s \in Slots, InProgress(s), InProgress(s)'
  PROVE  seen[s] \subseteq seen'[s]
BY WatchedSlot

(* A pair that is, or is not, tracked is what the history says. *)
LEMMA SeenTrue ==
  ASSUME SeenInv, NEW s \in Slots, InProgress(s)
  PROVE  /\ Pair(s) \in Tracked => TRUE \in seen[s]
         /\ Pair(s) \notin Tracked => FALSE \in seen[s]
<1>1. (Pair(s) \in Tracked) \in seen[s] BY DEF SeenInv
<1>2. CASE Pair(s) \in Tracked
  <2>1. (Pair(s) \in Tracked) = TRUE BY <1>2
  <2> QED BY <1>1, <1>2, <2>1
<1>3. CASE Pair(s) \notin Tracked
  <2>1. (Pair(s) \in Tracked) = FALSE BY <1>3
  <2> QED BY <1>1, <1>3, <2>1
<1> QED BY <1>2, <1>3

LEMMA PairOf ==
  ASSUME SlotTypes, NEW s \in Slots, InProgress(s)
  PROVE  Pair(s) = <<User(s), Url(s)>> /\ User(s) \in Chats /\ Url(s) \in URLs
<1>1. pc[s] \notin ChatSteps \cup ChatResults
  BY DEF InProgress, AddSteps, RemoveSteps, ChatSteps, ChatResults
<1>2. User(s) \in Chats /\ Url(s) \in URLs BY RequestTypes DEF SlotTypes, User, Url
<1> QED BY <1>1, <1>2 DEF Pair

(* Once its row has gone the pair of a RemoveLink is no longer tracked. *)
LEMMA RowGone ==
  ASSUME TableTypes, SlotTypes, RowsInv, NEW s \in Slots, InProgress(s), users' \subseteq users,
         <<target[s], Url(s)>> \in linkUsers, <<target[s], Url(s)>> \notin linkUsers'
  PROVE  Pair(s) \notin Tracked'
<1> SUFFICES ASSUME Pair(s) \in Tracked' PROVE FALSE
  OBVIOUS
<1>1. PICK id \in RowIDs : <<id, User(s)>> \in users' /\ <<id, Url(s)>> \in linkUsers'
  BY PairOf DEF Tracked
<1>2. PICK u \in Chats : <<target[s], u>> \in users BY DEF RowsInv, Refers
<1>3. u = User(s) BY <1>2 DEF RowsInv, OwnTarget
<1>4. <<id, User(s)>> = <<target[s], User(s)>> BY <1>1, <1>2, <1>3 DEF RowsInv, OneToOne
<1> QED BY <1>1, <1>4

LEMMA SeenStep ==
  ASSUME IInv, RowsInv, SeenInv, NEW s \in Slots, SlotStep(s), Watch
  PROVE  SeenInv'
<1>0. /\ SlotTypes /\ TableTypes /\ ShapeInv
      /\ \A t \in Slots \ {s} : Same(t)
      /\ FoundEffect(s) /\ TargetEffect(s) /\ Shape(s)
  BY OthersStay, RowSteps DEF Effects, ShapeInv, IInv
<1>1. users' \subseteq users BY <1>0, TableEffects DEF Commit, DeleteRow, DeleteUser
<1>2. seen' \in [Slots -> SUBSET BOOLEAN] BY WatchedType DEF SeenInv
<1>3. ASSUME NEW t \in Slots
      PROVE  /\ ~InProgress(t)' => seen'[t] = {}
             /\ InProgress(t)' => (Pair(t)' \in Tracked') \in seen'[t]
  BY WatchedSlot
<1>4. ASSUME NEW t \in Slots, FoundThere(t)'
      PROVE  TRUE \in seen'[t]
  <2>1. InProgress(t)' BY <1>4 DEF FoundThere, ItemSteps, InProgress, AddSteps
  <2>2. /\ InProgress(t)
        /\ \/ FoundThere(t)
           \/ \E id \in RowIDs : <<id, User(t)>> \in users /\ <<id, Url(t)>> \in linkUsers
    <3>1. CASE t = s BY <1>0, <1>4, <3>1 DEF FoundEffect, InProgress
    <3>2. CASE t # s
      BY <1>0, <1>4, <3>2 DEF Same, FoundThere, ItemSteps, InProgress, AddSteps
    <3> QED BY <3>1, <3>2
  <2>3. TRUE \in seen[t]
    <3>1. CASE FoundThere(t) BY <3>1 DEF SeenInv
    <3>2. CASE \E id \in RowIDs : <<id, User(t)>> \in users /\ <<id, Url(t)>> \in linkUsers
      <4>1. Pair(t) \in Tracked BY <1>0, <2>2, <3>2, PairOf DEF Tracked
      <4> QED BY <2>2, <4>1, SeenTrue
    <3> QED BY <2>2, <3>1, <3>2
  <2> QED BY <2>1, <2>2, <2>3, Remembers
<1>5. ASSUME NEW t \in Slots, GoneMeanwhile(t)'
      PROVE  FALSE \in seen'[t]
  <2>1. InProgress(t)' BY <1>5 DEF GoneMeanwhile, InProgress, RemoveSteps
  <2>2. t # s
    <3>1. ASSUME t = s PROVE FALSE
      <4>2. Shape(s)' BY <1>0, ShapeStep
      <4>3. target'[s] # 0 BY <1>5, <3>1, <4>2 DEF Shape, GoneMeanwhile
      <4> QED BY <1>0, <1>5, <3>1, <4>3 DEF TargetEffect, GoneMeanwhile, Url
    <3> QED BY <3>1
  <2>3. InProgress(t) /\ pc[t] = "DeleteRow" /\ Pair(t)' = Pair(t)
    BY <1>0, <1>5, <2>2 DEF Same, GoneMeanwhile, InProgress, RemoveSteps, Pair, User, Url
  <2>4. CASE GoneMeanwhile(t)
    BY <2>1, <2>3, <2>4, Remembers DEF SeenInv
  <2>5. CASE ~GoneMeanwhile(t)
    <3>1. <<target[t], Url(t)>> \in linkUsers /\ <<target[t], Url(t)>> \notin linkUsers'
      BY <1>0, <1>5, <2>2, <2>3, <2>5 DEF Same, GoneMeanwhile, Url
    <3>2. Pair(t)' \notin Tracked' BY <1>0, <1>1, <2>3, <3>1, RowGone
    <3>3. (Pair(t)' \in Tracked') = FALSE BY <3>2
    <3>4. (Pair(t)' \in Tracked') \in seen'[t] BY <1>3, <2>1
    <3> QED BY <3>3, <3>4
  <2> QED BY <2>4, <2>5
<1> QED BY <1>2, <1>3, <1>4, <1>5 DEF SeenInv

(* A step that is nothing to any request in progress. *)
LEMMA SeenStays ==
  ASSUME SeenInv, Watch, Tracked' = Tracked,
         \A s \in Slots : InProgress(s)' <=> InProgress(s),
         \A s \in Slots : InProgress(s) => Pair(s)' = Pair(s)
  PROVE  seen' = seen
<1>1. ASSUME NEW s \in Slots PROVE seen'[s] = seen[s]
  <2>1. CASE ~InProgress(s) BY <2>1, WatchedSlot DEF SeenInv
  <2>2. CASE InProgress(s)
    <3>1. Pair(s)' = Pair(s) /\ InProgress(s)' BY <2>2
    <3>2. seen'[s] = seen[s] \cup {Pair(s)' \in Tracked'} BY <2>2, <3>1, WatchedSlot
    <3>3. (Pair(s)' \in Tracked') = (Pair(s) \in Tracked) BY <3>1
    <3>4. (Pair(s) \in Tracked) \in seen[s] BY <2>2 DEF SeenInv
    <3> QED BY <3>2, <3>3, <3>4
  <2> QED BY <2>1, <2>2
<1>2. seen' = [s \in Slots |-> seen'[s]] /\ seen = [s \in Slots |-> seen[s]]
  BY WatchedType DEF SeenInv
<1> QED BY <1>1, <1>2

LEMMA HInvInit == HInit => HInv
<1> SUFFICES ASSUME HInit PROVE HInv
  OBVIOUS
<1>1. IInv BY IInvInit DEF HInit
<1>2. RowsInv
  BY DEF HInit, Init, RowsInv, OneToOne, Refers, SubRefers, OwnTarget, NoTx
<1>3. SeenInv
  BY DEF HInit, Init, SeenInv, InProgress, FoundThere, GoneMeanwhile, ItemSteps, AddSteps,
     RemoveSteps
<1> QED BY <1>1, <1>2, <1>3 DEF HInv

(* The steps that are no request's. *)
LEMMA ServerStep ==
  ASSUME HInv, NEW u \in Chats, CreateChat(u) \/ \E tag \in Tags : DeleteTag(u, tag), Watch
  PROVE  /\ RowsInv' /\ Tracked' = Tracked /\ UNCHANGED <<linkUsers, requests, seen>>
         /\ SeenInv'
<1>1. UNCHANGED <<linkUsers, requests>> BY DEF CreateChat, DeleteTag
<1>2. RowsInv' /\ Tracked' = Tracked
  <2>1. CASE CreateChat(u) BY <2>1, RowsCreated DEF HInv, IInv
  <2>2. CASE \E tag \in Tags : DeleteTag(u, tag)
    <3>1. users' = users BY <2>2 DEF DeleteTag
    <3> QED BY <1>1, <3>1 DEF HInv, RowsInv, OneToOne, Refers, SubRefers, OwnTarget, Tracked,
            requests, adding, User
  <2> QED BY <2>1, <2>2
<1>3. seen' = seen
  BY <1>1, <1>2, SeenStays DEF HInv, requests, InProgress, Pair, User, Url
<1>4. SeenInv'
  BY <1>1, <1>2, <1>3 DEF HInv, SeenInv, requests, adding, InProgress, FoundThere, GoneMeanwhile,
     Pair, User, Url
<1> QED BY <1>1, <1>2, <1>3, <1>4

LEMMA HInvNext == HInv /\ [Next /\ Watch]_hvars => HInv'
<1> SUFFICES ASSUME HInv, [Next /\ Watch]_hvars PROVE HInv'
  OBVIOUS
<1>1. CASE Next /\ Watch
  <2>1. IInv' BY <1>1, IInvNext DEF HInv
  <2>2. ASSUME NEW s \in Slots, SlotStep(s) PROVE RowsInv' /\ SeenInv'
    BY <1>1, <2>2, RowsStep, SeenStep DEF HInv, IInv
  <2> QED BY <1>1, <2>1, <2>2, ServerStep DEF HInv, Next, SlotStep
<1>2. CASE UNCHANGED hvars
  <2>1. UNCHANGED vars /\ UNCHANGED seen BY <1>2 DEF hvars
  <2>2. IInv' BY <2>1, IInvNext DEF HInv
  <2>3. UNCHANGED <<users, linkUsers, pc, req, tx, target, seen>>
    BY <2>1 DEF vars, tables, requests, adding
  <2>4. RowsInv'
    BY <2>3 DEF HInv, RowsInv, OneToOne, Refers, SubRefers, OwnTarget, User
  <2>5. SeenInv'
    BY <2>3 DEF HInv, SeenInv, InProgress, FoundThere, GoneMeanwhile, Pair, User, Url, Tracked
  <2> QED BY <2>2, <2>4, <2>5 DEF HInv
<1> QED BY <1>1, <1>2

LEMMA HInvHolds == HSpec => []HInv
BY HInvInit, HInvNext, PTL DEF HSpec

-----------------------------------------------------------------------------
(* The refinement. *)

statusOf == [s \in Slots |-> Status(s)]
pairOf   == [s \in Slots |-> Pair(s)]

LEMMA StatusValues ==
  ASSUME SlotTypes, NEW s \in Slots
  PROVE  /\ pc[s] \in AddSteps => Status(s) = "adding"
         /\ pc[s] \in RemoveSteps => Status(s) = "removing"
         /\ pc[s] \in {"error", "panic"} => Status(s) = "error"
         /\ pc[s] = "nil" => Status(s) = "nil"
         /\ pc[s] \in {"idle"} \cup ChatSteps \cup ChatResults => Status(s) = "idle"
         /\ Status(s) \in {"adding", "removing", "removed"} <=> InProgress(s)
<1>1. pc[s] \in Steps BY DEF SlotTypes
<1> QED BY <1>1 DEF Status, InProgress, Steps, AddSteps, RemoveSteps, ChatSteps, Results,
        ChatResults

LEMMA PairTypes ==
  ASSUME SlotTypes
  PROVE  pairOf \in [Slots -> Chats \X URLs]
<1>1. ASSUME NEW s \in Slots PROVE Pair(s) \in Chats \X URLs
  <2>1. User(s) \in Chats /\ Url(s) \in URLs BY RequestTypes DEF SlotTypes, User, Url
  <2>2. NoRequest.user \in Chats /\ NoRequest.url \in URLs BY NoRequestType, RequestTypes
  <2> QED BY <2>1, <2>2 DEF Pair
<1> QED BY <1>1 DEF pairOf

(* What every step owes the abstract one: histories, and pairs that stay. *)
LEMMA PairKept ==
  ASSUME SlotTypes, ShapeInv, NEW s \in Slots, SlotStep(s), NEW t \in Slots, InProgress(t)
  PROVE  Pair(t)' = Pair(t)
<1>1. CASE t # s
  BY <1>1, OthersStay DEF Same, Pair, User, Url
<1>2. CASE t = s
  <2>1. req'[s] = req[s] /\ pc'[s] \notin ChatSteps \cup ChatResults
    <3>1. CASE Within(s) \/ AddFailed(s) \/ FoundNone(s) \/ RemoveFailed(s)
      BY <3>1 DEF Within, AddFailed, FoundNone, RemoveFailed, AddSteps, RemoveSteps, ChatSteps,
         ChatResults
    <3>2. CASE Commit(s) BY <3>2, Returned DEF Commit, ChatSteps, ChatResults
    <3>3. CASE DeleteRow(s) BY <3>3, Returned DEF DeleteRow, ChatSteps, ChatResults
    <3>4. CASE Aside(s) \/ Called(s) \/ Answered(s) \/ DeleteUser(s)
      BY <1>2, <3>4 DEF Aside, Called, Answered, DeleteUser, InProgress, AddSteps, RemoveSteps,
         ChatSteps, ChatResults, Results
    <3> QED BY <3>1, <3>2, <3>3, <3>4, Visible
  <2>2. pc[s] \notin ChatSteps \cup ChatResults
    BY <1>2 DEF InProgress, AddSteps, RemoveSteps, ChatSteps, ChatResults
  <2> QED BY <1>2, <2>1, <2>2 DEF Pair, User, Url
<1> QED BY <1>1, <1>2

LEMMA HistoryOwed ==
  ASSUME SlotTypes, SlotTypes', Watch
  PROVE  seen' = [s \in Slots |-> T!Watched(s)]
<1>1. ASSUME NEW s \in Slots
      PROVE  T!Watched(s) = IF ~InProgress(s)' THEN {}
                            ELSE (IF InProgress(s) THEN seen[s] ELSE {})
                                   \cup {Pair(s)' \in Tracked'}
  <2>1. Status(s) \in T!Running <=> InProgress(s) BY StatusValues DEF T!Running
  <2>2. Status(s)' \in T!Running <=> InProgress(s)'
    <3>1. pc'[s] \in Steps BY DEF SlotTypes
    <3> QED BY <3>1 DEF Status, T!Running, InProgress, Steps, AddSteps, RemoveSteps, ChatSteps,
            Results, ChatResults
  <2> QED BY <2>1, <2>2 DEF T!Watched
<1> QED BY <1>1 DEF Watch

LEMMA StatusMoves ==
  ASSUME SlotTypes, SlotTypes', NEW s \in Slots, \A t \in Slots \ {s} : Same(t)
  PROVE  /\ statusOf' = [statusOf EXCEPT ![s] = Status(s)']
         /\ Status(s)' = Status(s) => statusOf' = statusOf
         /\ Pair(s)' = Pair(s) => pairOf' = pairOf
<1>1. \A t \in Slots \ {s} : Status(t)' = Status(t) /\ Pair(t)' = Pair(t)
  BY DEF Same, Status, Pair, User, Url
<1> QED BY <1>1 DEF statusOf, pairOf

(* A step of the abstract specification, from what it does to status and tracked. *)
LEMMA AbstractStep ==
  ASSUME SlotTypes, SlotTypes', ShapeInv, NEW s \in Slots, SlotStep(s), Watch,
         T!Step(s) \/ \E u \in Chats : T!Leave(u)
  PROVE  T!Next
<1>1. pairOf' \in [Slots -> Chats \X URLs]
  <2>1. ASSUME NEW t \in Slots PROVE Pair(t)' \in Chats \X URLs
    <3>1. req'[t].user \in Chats /\ req'[t].url \in URLs BY RequestTypes DEF SlotTypes
    <3>2. NoRequest.user \in Chats /\ NoRequest.url \in URLs BY NoRequestType, RequestTypes
    <3> QED BY <3>1, <3>2 DEF Pair, User, Url
  <2> QED BY <2>1 DEF pairOf
<1>2. \A t \in Slots : Status(t) \in T!Running => Pair(t)' = Pair(t)
  BY StatusValues, PairKept DEF T!Running
<1>3. T!SamePairs BY <1>1, <1>2 DEF T!SamePairs, T!Pairs, pairOf
<1>4. seen' = [t \in Slots |-> T!Watched(t)] BY HistoryOwed
<1> QED BY <1>3, <1>4 DEF T!Next

(* A step that nobody who asked can tell from none. *)
LEMMA AbstractStutter ==
  ASSUME HInv, SlotTypes', NEW s \in Slots, SlotStep(s), Watch,
         Tracked' = Tracked, Status(s)' = Status(s), Pair(s)' = Pair(s)
  PROVE  UNCHANGED T!vars
<1>0. SlotTypes /\ ShapeInv BY DEF HInv, IInv
<1>1. \A t \in Slots \ {s} : Same(t) BY <1>0, OthersStay
<1>2. statusOf' = statusOf /\ pairOf' = pairOf BY <1>0, <1>1, StatusMoves
<1>3. \A t \in Slots : InProgress(t)' <=> InProgress(t)
  <2>1. \A t \in Slots \ {s} : InProgress(t)' <=> InProgress(t) BY <1>1 DEF Same, InProgress
  <2>2. InProgress(s)' <=> InProgress(s)
    <3>1. pc[s] \in Steps /\ pc'[s] \in Steps BY <1>0 DEF SlotTypes
    <3> QED BY <3>1 DEF Status, InProgress, Steps, AddSteps, RemoveSteps, ChatSteps, Results,
            ChatResults
  <2> QED BY <2>1, <2>2
<1>4. \A t \in Slots : InProgress(t) => Pair(t)' = Pair(t) BY <1>0, PairKept
<1>5. seen' = seen BY <1>3, <1>4, SeenStays DEF HInv
<1> QED BY <1>2, <1>5 DEF T!vars, statusOf, pairOf

LEMMA RefinementInit == HInit => T!Init
<1> SUFFICES ASSUME HInit PROVE T!Init
  OBVIOUS
<1>1. SlotTypes BY IInvInit DEF HInit, IInv
<1>2. Tracked = {} BY DEF HInit, Init, Tracked
<1>3. \A s \in Slots : Status(s) = "idle" BY <1>1, StatusValues DEF HInit, Init
<1>4. pairOf \in [Slots -> Chats \X URLs] BY <1>1, PairTypes
<1> QED BY <1>2, <1>3, <1>4 DEF T!Init, T!Pairs, HInit, pairOf

LEMMA StatusNext ==
  ASSUME SlotTypes', NEW s \in Slots
  PROVE  /\ pc'[s] \in AddSteps => Status(s)' = "adding"
         /\ pc'[s] \in RemoveSteps => Status(s)' = "removing"
         /\ pc'[s] \in {"error", "panic"} => Status(s)' = "error"
         /\ pc'[s] = "nil" => Status(s)' = "nil"
         /\ pc'[s] \in {"idle"} \cup ChatSteps \cup ChatResults => Status(s)' = "idle"
<1>1. pc'[s] \in Steps BY DEF SlotTypes
<1> QED BY <1>1 DEF Status, Steps, AddSteps, RemoveSteps, ChatSteps, Results, ChatResults

(* What the three statements do to the pairs that are tracked. *)
LEMMA CommitTracks ==
  ASSUME SlotTypes, TableTypes, RowsInv, NEW s \in Slots, Commit(s)
  PROVE  Tracked' = IF tx[s].sub = 0 THEN Tracked ELSE Tracked \cup {<<User(s), Url(s)>>}
<1>1. users' = users /\ linkUsers' = linkUsers \cup SubsOf(s) BY DEF Commit
<1>2. CASE tx[s].sub = 0 BY <1>1, <1>2 DEF SubsOf, Tracked
<1>3. CASE tx[s].sub # 0
  <2>1. linkUsers' = linkUsers \cup {<<tx[s].sub, Url(s)>>} BY <1>1, <1>3 DEF SubsOf
  <2>2. <<tx[s].sub, User(s)>> \in users BY <1>3 DEF RowsInv, SubRefers
  <2>3. tx[s].sub \in RowIDs /\ User(s) \in Chats /\ Url(s) \in URLs
    BY <2>2, RequestTypes DEF TableTypes, SlotTypes, User, Url
  <2>4. ASSUME NEW p \in Chats \X URLs, p \in Tracked'
        PROVE  p \in Tracked \cup {<<User(s), Url(s)>>}
    <3>1. PICK id \in RowIDs : <<id, p[1]>> \in users /\ <<id, p[2]>> \in linkUsers'
      BY <1>1, <2>4 DEF Tracked
    <3>2. CASE <<id, p[2]>> \in linkUsers BY <3>1, <3>2 DEF Tracked
    <3>3. CASE <<id, p[2]>> = <<tx[s].sub, Url(s)>>
      <4>1. <<id, p[1]>> = <<tx[s].sub, User(s)>>
        BY <2>2, <3>1, <3>3 DEF RowsInv, OneToOne
      <4> QED BY <3>3, <4>1
    <3> QED BY <2>1, <3>1, <3>2, <3>3
  <2>5. Tracked \subseteq Tracked' BY <1>1 DEF Tracked
  <2>6. <<User(s), Url(s)>> \in Tracked' BY <1>1, <2>1, <2>2, <2>3 DEF Tracked
  <2>7. Tracked' \subseteq Chats \X URLs BY DEF Tracked
  <2> QED BY <1>3, <2>4, <2>5, <2>6, <2>7
<1> QED BY <1>2, <1>3

LEMMA DeleteRowUntracks ==
  ASSUME SlotTypes, TableTypes, RowsInv, NEW s \in Slots, DeleteRow(s)
  PROVE  IF <<target[s], Url(s)>> \in linkUsers
         THEN <<User(s), Url(s)>> \in Tracked /\ Tracked' = Tracked \ {<<User(s), Url(s)>>}
         ELSE Tracked' = Tracked
<1>1. users' = users /\ linkUsers' = linkUsers \ {<<target[s], Url(s)>>} BY DEF DeleteRow
<1>2. CASE <<target[s], Url(s)>> \notin linkUsers
  <2>1. linkUsers' = linkUsers BY <1>1, <1>2
  <2> QED BY <1>1, <1>2, <2>1 DEF Tracked
<1>3. CASE <<target[s], Url(s)>> \in linkUsers
  <2>1. PICK u \in Chats : <<target[s], u>> \in users BY <1>3 DEF RowsInv, Refers
  <2>2. <<target[s], User(s)>> \in users BY <2>1 DEF RowsInv, OwnTarget
  <2>3. target[s] \in RowIDs /\ User(s) \in Chats /\ Url(s) \in URLs
    BY <2>2, RequestTypes DEF TableTypes, SlotTypes, User, Url
  <2>4. <<User(s), Url(s)>> \in Tracked BY <1>3, <2>2, <2>3 DEF Tracked
  <2>5. <<User(s), Url(s)>> \notin Tracked'
    <3> SUFFICES ASSUME <<User(s), Url(s)>> \in Tracked' PROVE FALSE
      OBVIOUS
    <3>1. PICK id \in RowIDs : <<id, User(s)>> \in users /\ <<id, Url(s)>> \in linkUsers'
      BY <1>1 DEF Tracked
    <3>2. <<id, User(s)>> = <<target[s], User(s)>> BY <2>2, <3>1 DEF RowsInv, OneToOne
    <3> QED BY <1>1, <3>1, <3>2
  <2>6. Tracked' \subseteq Tracked BY <1>1 DEF Tracked
  <2>7. ASSUME NEW p \in Tracked, p # <<User(s), Url(s)>> PROVE p \in Tracked'
    <3>1. PICK id \in RowIDs : <<id, p[1]>> \in users /\ <<id, p[2]>> \in linkUsers
      BY DEF Tracked
    <3>2. <<id, p[2]>> # <<target[s], Url(s)>>
      <4>1. ASSUME <<id, p[2]>> = <<target[s], Url(s)>> PROVE FALSE
        <5>1. <<id, p[1]>> = <<target[s], User(s)>>
          BY <2>2, <3>1, <4>1 DEF RowsInv, OneToOne
        <5>2. p \in Chats \X URLs BY DEF Tracked
        <5> QED BY <2>7, <4>1, <5>1, <5>2
      <4> QED BY <4>1
    <3> QED BY <1>1, <3>1, <3>2 DEF Tracked
  <2> QED BY <1>3, <2>4, <2>5, <2>6, <2>7
<1> QED BY <1>2, <1>3

LEMMA DeleteUserUntracks ==
  ASSUME SlotTypes, TableTypes, RowsInv, NEW s \in Slots, DeleteUser(s)
  PROVE  \/ Tracked' = Tracked
         \/ Tracked' = {p \in Tracked : p[1] # User(s)}
<1>1. /\ users' = {row \in users : row[1] # target[s]}
      /\ linkUsers' = {row \in linkUsers : row[1] # target[s]}
  BY DEF DeleteUser
<1>2. CASE \A u \in Chats : <<target[s], u>> \notin users
  <2>1. users' = users
    <3>1. \A row \in users : row = <<row[1], row[2]>> /\ row[2] \in Chats BY DEF TableTypes
    <3> QED BY <1>1, <1>2, <3>1
  <2>2. linkUsers' = linkUsers BY <1>1, <1>2 DEF RowsInv, Refers
  <2> QED BY <2>1, <2>2 DEF Tracked
<1>3. CASE \E u \in Chats : <<target[s], u>> \in users
  <2>1. <<target[s], User(s)>> \in users BY <1>3 DEF RowsInv, OwnTarget
  <2>2. ASSUME NEW p \in Tracked' PROVE p \in Tracked /\ p[1] # User(s)
    <3>1. PICK id \in RowIDs : <<id, p[1]>> \in users' /\ <<id, p[2]>> \in linkUsers'
      BY DEF Tracked
    <3>2. id # target[s] /\ <<id, p[1]>> \in users /\ <<id, p[2]>> \in linkUsers BY <1>1, <3>1
    <3>3. p[1] # User(s) BY <2>1, <3>2 DEF RowsInv, OneToOne
    <3> QED BY <3>2, <3>3 DEF Tracked
  <2>3. ASSUME NEW p \in Tracked, p[1] # User(s) PROVE p \in Tracked'
    <3>1. PICK id \in RowIDs : <<id, p[1]>> \in users /\ <<id, p[2]>> \in linkUsers
      BY DEF Tracked
    <3>2. id # target[s] BY <2>1, <2>3, <3>1 DEF RowsInv, OneToOne
    <3> QED BY <1>1, <3>1, <3>2 DEF Tracked
  <2> QED BY <2>2, <2>3
<1> QED BY <1>2, <1>3

LEMMA RequestRefines ==
  ASSUME HInv, HInv', NEW s \in Slots, SlotStep(s), Watch
  PROVE  T!Next \/ UNCHANGED T!vars
<1> DEFINE Stutters == Tracked' = Tracked /\ Status(s)' = Status(s) /\ Pair(s)' = Pair(s)
<1>0. /\ SlotTypes /\ SlotTypes' /\ TableTypes /\ ShapeInv /\ RowsInv /\ SeenInv
      /\ \A t \in Slots \ {s} : Same(t)
  BY OthersStay DEF HInv, IInv
<1>1. Stutters => UNCHANGED T!vars BY <1>0, AbstractStutter
<1>2. T!Step(s) \/ (\E u \in Chats : T!Leave(u)) => T!Next BY <1>0, AbstractStep
<1>3. T!GoTo(s, Status(s)') BY <1>0, StatusMoves DEF T!GoTo, statusOf
<1>4. UNCHANGED <<users, linkUsers>> => Tracked' = Tracked BY DEF Tracked
<1>5. InProgress(s) => Pair(s)' = Pair(s) BY <1>0, PairKept
<1>6. InProgress(s) => Pair(s) = <<User(s), Url(s)>> BY <1>0, PairOf
<1>7. CASE Within(s)
  <2>1. InProgress(s) BY <1>7 DEF Within, InProgress, RemoveSteps
  <2>2. Status(s)' = Status(s)
    BY <1>0, <1>7, StatusValues, StatusNext DEF Within, RemoveSteps
  <2> QED BY <1>1, <1>4, <1>5, <1>7, <2>1, <2>2 DEF Within
<1>8. CASE Aside(s)
  <2>1. Status(s)' = Status(s) BY <1>0, <1>8, StatusValues, StatusNext DEF Aside
  <2>2. pc[s] = "idle" => req[s] = NoRequest BY <1>0 DEF ShapeInv, Shape
  <2>3. pc'[s] = "idle" => req'[s] = NoRequest BY DEF HInv, IInv, ShapeInv, Shape
  <2>4. Pair(s)' = Pair(s)
    <3>1. Pair(s) = <<NoRequest.user, NoRequest.url>>
      BY <1>8, <2>2 DEF Aside, Pair, User, Url
    <3>2. Pair(s)' = <<NoRequest.user, NoRequest.url>>
      BY <1>8, <2>3 DEF Aside, Pair, User, Url
    <3> QED BY <3>1, <3>2
  <2> QED BY <1>1, <1>4, <1>8, <2>1, <2>4 DEF Aside
<1>9. CASE Called(s)
  <2>1. Status(s) = "idle" BY <1>0, <1>9, StatusValues DEF Called
  <2>2. Status(s)' \in {"adding", "removing"}
    BY <1>0, <1>9, StatusNext DEF Called, AddSteps, RemoveSteps
  <2>3. Pair(s)' \in Chats \X URLs
    <3>1. req'[s].user \in Chats /\ req'[s].url \in URLs BY <1>0, RequestTypes DEF SlotTypes
    <3>2. NoRequest.user \in Chats /\ NoRequest.url \in URLs BY NoRequestType, RequestTypes
    <3> QED BY <3>1, <3>2 DEF Pair, User, Url
  <2>4. Tracked' = Tracked BY <1>4, <1>9 DEF Called
  <2>5. T!Call(s, Status(s)', Pair(s)') BY <1>3, <2>1, <2>4 DEF T!Call, T!GoTo
  <2> QED BY <1>2, <2>2, <2>3, <2>5 DEF T!Step, T!Pairs
<1>10. CASE Answered(s)
  <2>1. Status(s) \in {"nil", "error"}
    BY <1>0, <1>10, StatusValues DEF Answered, Results
  <2>2. Status(s)' = "idle" /\ Tracked' = Tracked
    BY <1>0, <1>4, <1>10, StatusNext DEF Answered
  <2>3. T!Answer(s) BY <1>3, <2>1, <2>2 DEF T!Answer, T!Answers, T!GoTo
  <2> QED BY <1>2, <2>3 DEF T!Step
<1>11. CASE AddFailed(s)
  <2>1. Status(s) = "adding" /\ Status(s)' = "error" /\ Tracked' = Tracked
    BY <1>0, <1>4, <1>11, StatusValues, StatusNext DEF AddFailed
  <2>2. T!AddRefused(s) BY <1>3, <2>1 DEF T!AddRefused, T!GoTo
  <2> QED BY <1>2, <2>2 DEF T!Step
<1>12. CASE FoundNone(s)
  <2>1. InProgress(s) BY <1>12 DEF FoundNone, InProgress, RemoveSteps
  <2>2. Status(s) = "removing" /\ Status(s)' = "nil" /\ Tracked' = Tracked
    BY <1>0, <1>4, <1>12, StatusValues, StatusNext DEF FoundNone, RemoveSteps
  <2>3. Pair(s) \notin Tracked
    <3> SUFFICES ASSUME <<User(s), Url(s)>> \in Tracked PROVE FALSE
      BY <1>6, <2>1
    <3>1. PICK id \in RowIDs : <<id, User(s)>> \in users /\ <<id, Url(s)>> \in linkUsers
      BY DEF Tracked
    <3>2. id \in {i \in RowsOf(s) : <<i, Url(s)>> \in linkUsers} BY <3>1 DEF RowsOf
    <3> QED BY <1>12, <3>2 DEF FoundNone
  <2>4. FALSE \in seen[s] BY <1>0, <2>1, <2>3, SeenTrue
  <2>5. T!RemoveNothing(s) BY <1>3, <2>2, <2>4 DEF T!RemoveNothing, T!GoTo
  <2> QED BY <1>2, <2>5 DEF T!Step
<1>13. CASE RemoveFailed(s)
  <2>1. Status(s) = "removing" /\ Status(s)' = "error" /\ Tracked' = Tracked
    BY <1>0, <1>4, <1>13, StatusValues, StatusNext DEF RemoveFailed
  <2>2. T!RemoveRefused(s) BY <1>3, <2>1 DEF T!RemoveRefused, T!GoTo
  <2> QED BY <1>2, <2>2 DEF T!Step
<1>14. CASE Commit(s)
  <2>1. pc[s] = "Commit" /\ InProgress(s) /\ Status(s) = "adding"
    BY <1>0, <1>14, StatusValues DEF Commit, InProgress, AddSteps
  <2>2. pc'[s] \in {"nil", "error"} /\ (tx[s].failed => pc'[s] = "error")
    BY <1>0, <1>14, Returned DEF Commit
  <2>3. Status(s)' = pc'[s] BY <1>0, <2>2, StatusNext
  <2>4. CASE tx[s].sub # 0
    <3>1. Tracked' = Tracked \cup {Pair(s)} BY <1>0, <1>6, <1>14, <2>1, <2>4, CommitTracks
    <3>2. T!Add(s) BY <1>3, <2>1, <2>2, <2>3, <3>1 DEF T!Add, T!GoTo
    <3> QED BY <1>2, <3>2 DEF T!Step
  <2>5. CASE tx[s].sub = 0 /\ pc'[s] = "error"
    <3>1. Tracked' = Tracked BY <1>0, <1>14, <2>5, CommitTracks
    <3>2. T!AddRefused(s) BY <1>3, <2>1, <2>3, <2>5, <3>1 DEF T!AddRefused, T!GoTo
    <3> QED BY <1>2, <3>2 DEF T!Step
  <2>6. CASE tx[s].sub = 0 /\ pc'[s] = "nil"
    <3>1. Tracked' = Tracked BY <1>0, <1>14, <2>6, CommitTracks
    <3>2. TRUE \in seen[s] BY <1>0, <2>1, <2>2, <2>6 DEF SeenInv, FoundThere, ItemSteps
    <3>3. T!AddNothing(s) BY <1>3, <2>1, <2>3, <2>6, <3>1, <3>2 DEF T!AddNothing, T!GoTo
    <3> QED BY <1>2, <3>3 DEF T!Step
  <2> QED BY <2>2, <2>4, <2>5, <2>6
<1>15. CASE DeleteRow(s)
  <2>1. pc[s] = "DeleteRow" /\ InProgress(s) /\ Status(s) = "removing"
    BY <1>0, <1>15, StatusValues DEF DeleteRow, InProgress, RemoveSteps
  <2>2. pc'[s] \in {"nil", "error"} BY <1>0, <1>15, Returned DEF DeleteRow
  <2>3. Status(s)' = pc'[s] BY <1>0, <2>2, StatusNext
  <2>4. CASE <<target[s], Url(s)>> \in linkUsers
    <3>1. Pair(s) \in Tracked /\ Tracked' = Tracked \ {Pair(s)}
      BY <1>0, <1>6, <1>15, <2>1, <2>4, DeleteRowUntracks
    <3>2. T!Remove(s) BY <1>3, <2>1, <2>2, <2>3, <3>1 DEF T!Remove, T!GoTo
    <3> QED BY <1>2, <3>2 DEF T!Step
  <2>5. CASE <<target[s], Url(s)>> \notin linkUsers
    <3>1. Tracked' = Tracked BY <1>0, <1>15, <2>5, DeleteRowUntracks
    <3>2. FALSE \in seen[s] BY <1>0, <2>1, <2>5 DEF SeenInv, GoneMeanwhile
    <3>3. pc'[s] = "nil" => T!RemoveNothing(s)
      BY <1>3, <2>1, <2>3, <3>1, <3>2 DEF T!RemoveNothing, T!GoTo
    <3>4. pc'[s] = "error" => T!RemoveRefused(s)
      BY <1>3, <2>1, <2>3, <3>1 DEF T!RemoveRefused, T!GoTo
    <3> QED BY <1>2, <2>2, <3>3, <3>4 DEF T!Step
  <2> QED BY <2>4, <2>5
<1>16. CASE DeleteUser(s)
  <2>2. pc[s] \in ChatSteps /\ pc'[s] \in ChatResults
    BY <1>0, <1>16, Returned DEF DeleteUser, ChatSteps
  <2>3. Status(s)' = Status(s) /\ Pair(s)' = Pair(s)
    BY <1>0, <2>2, StatusValues, StatusNext DEF Pair
  <2>4. CASE Tracked' = Tracked BY <1>1, <2>3, <2>4
  <2>5. CASE Tracked' = {p \in Tracked : p[1] # User(s)}
    <3>1. User(s) \in Chats BY <1>0, RequestTypes DEF SlotTypes, User
    <3>2. statusOf' = statusOf BY <1>0, <2>3, StatusMoves
    <3>3. T!Leave(User(s)) BY <2>5, <3>2 DEF T!Leave, statusOf
    <3> QED BY <1>2, <3>1, <3>3
  <2> QED BY <1>0, <1>16, <2>4, <2>5, DeleteUserUntracks
<1> QED BY <1>0, <1>7, <1>8, <1>9, <1>10, <1>11, <1>12, <1>13, <1>14, <1>15, <1>16, Visible

(* The ORM storage implements Tracking: for any numbers of chats, links, requests and
   connections, every behaviour of its statements shows the handlers nothing but what
   Tracking allows. *)
THEOREM OrmImplementsTracking == HSpec => ImplementsTracking
<1>1. HInv /\ HInv' /\ [Next /\ Watch]_hvars => [T!Next]_(T!vars)
  <2> SUFFICES ASSUME HInv, HInv', [Next /\ Watch]_hvars PROVE T!Next \/ UNCHANGED T!vars
    OBVIOUS
  <2>1. CASE Next /\ Watch
    <3>1. ASSUME NEW s \in Slots, SlotStep(s) PROVE T!Next \/ UNCHANGED T!vars
      BY <2>1, <3>1, RequestRefines
    <3>2. ASSUME NEW u \in Chats, CreateChat(u) \/ \E tag \in Tags : DeleteTag(u, tag)
          PROVE  UNCHANGED T!vars
      BY <2>1, <3>2, ServerStep DEF T!vars, requests, Status, Pair, User, Url
    <3> QED BY <2>1, <3>1, <3>2 DEF Next, SlotStep
  <2>2. CASE UNCHANGED hvars
    BY <2>2 DEF hvars, vars, tables, requests, T!vars, Tracked, Status, Pair, User, Url
  <2> QED BY <2>1, <2>2
<1> QED BY <1>1, RefinementInit, HInvHolds, PTL DEF HSpec, ImplementsTracking, T!Spec
=============================================================================
