-------------------------- MODULE SqlTrackingProofs --------------------------
(***************************************************************************)
(* Proof that the SQL storage implements Tracking with Cascades.  Beside   *)
(* IInv, whose references and identity values tell what each statement     *)
(* does to the pairs that are tracked, it takes that the history of a      *)
(* request in progress holds what its answer will rest on (SeenInv).       *)
(* Visible sorts the steps of a request by what the one who asked can tell *)
(* of them; RequestRefines gives for each sort the abstract step, or shows *)
(* that it is none.                                                        *)
(***************************************************************************)
EXTENDS SqlTracking, SqlProofs

Pair(s) == <<User(s), Url(s)>>

(* AddLink's transaction has found the subscription there. *)
FoundThere(s) == pc[s] \in Writing /\ ~tx[s].sub /\ ~tx[s].failed

(* The link that RemoveLink has looked up is not there any more. *)
GoneMeanwhile(s) == pc[s] = "DeleteUser" /\ <<linkID[s], Url(s)>> \notin links

SeenInv ==
  /\ seen \in [Slots -> SUBSET BOOLEAN]
  /\ \A s \in Slots :
       /\ ~InProgress(s) => seen[s] = {}
       /\ InProgress(s) => (Pair(s) \in Tracked) \in seen[s]
       /\ FoundThere(s) => TRUE \in seen[s]
       /\ GoneMeanwhile(s) => FALSE \in seen[s]

HInv == IInv /\ SeenInv

-----------------------------------------------------------------------------
(* What a step of a request is for the one who asked. *)

Within(s) ==
  /\ \/ pc[s] \in AddSteps /\ pc'[s] \in AddSteps
     \/ pc[s] = "FindID" /\ pc'[s] = "DeleteUser" /\ <<linkID'[s], Url(s)>> \in links
     \/ pc[s] = "CheckUsers" /\ pc'[s] = "DeleteLink"
  /\ req'[s] = req[s]
  /\ UNCHANGED <<links, linkUsers>>

Called(s) ==
  /\ pc[s] = "idle" /\ pc'[s] \in {"Begin", "FindID"}
  /\ UNCHANGED <<links, linkUsers>>

Answered(s) ==
  /\ pc[s] \in Results /\ pc'[s] = "idle"
  /\ UNCHANGED <<links, linkUsers>>

AddRefused(s) ==
  /\ pc[s] \in AddSteps /\ pc'[s] \in {"ErrLinkAlreadyExists", "error"}
  /\ req'[s] = req[s]
  /\ UNCHANGED <<links, linkUsers>>

FoundNone(s) ==
  /\ pc[s] = "FindID" /\ pc'[s] = "ErrLinkNotFound"
  /\ \A id \in IDs : <<id, Url(s)>> \notin links
  /\ req'[s] = req[s]
  /\ UNCHANGED <<links, linkUsers>>

NothingToDelete(s) ==
  /\ pc[s] = "DeleteUser" /\ pc'[s] = "ErrLinkNotFound"
  /\ <<User(s), linkID[s]>> \notin linkUsers
  /\ req'[s] = req[s]
  /\ UNCHANGED <<links, linkUsers>>

RemoveFailed(s) ==
  /\ pc[s] \in {"FindID", "DeleteUser"} /\ pc'[s] = "error"
  /\ req'[s] = req[s]
  /\ UNCHANGED <<links, linkUsers>>

LinkStays(s) ==
  /\ pc[s] \in {"CheckUsers", "DeleteLink"} /\ pc'[s] \in {"nil", "error"}
  /\ req'[s] = req[s]
  /\ UNCHANGED <<links, linkUsers>>

LEMMA Visible ==
  ASSUME SlotTypes, ShapeInv, NEW s \in Slots, SlotStep(s)
  PROVE  \/ Within(s) \/ Called(s) \/ Answered(s) \/ AddRefused(s) \/ FoundNone(s)
         \/ NothingToDelete(s) \/ RemoveFailed(s) \/ LinkStays(s)
         \/ Committed(s) \/ Unsubscribed(s) \/ DeleteLink(s)
<1> USE DEF tables, requests, GoTo, AddSteps, RemoveSteps, Results
<1>1. ASSUME NEW r \in Requests, CallAddLink(s, r) \/ CallRemoveLink(s, r.user, r.url)
      PROVE  Called(s)
  BY <1>1 DEF SlotTypes, Called, CallAddLink, CallRemoveLink
<1>2. CASE Begin(s) \/ SavedTags(s) BY <1>2 DEF SlotTypes, Within, Begin, SavedTags
<1>3. CASE FindLink(s)
  <2>1. CASE Return(s, "ErrLinkAlreadyExists")
    BY <1>3, <2>1, Returned DEF FindLink, AddRefused
  <2>2. CASE ~Return(s, "ErrLinkAlreadyExists")
    BY <1>3, <2>2 DEF SlotTypes, FindLink, Within
  <2> QED BY <2>1, <2>2
<1>4. CASE InsertLink(s) \/ InsertUser(s)
  BY <1>4 DEF SlotTypes, Within, InsertLink, InsertUser
<1>5. CASE GetLinkID(s)
  <2>1. CASE Return(s, "error") BY <1>5, <2>1, Returned DEF GetLinkID, AddRefused
  <2>2. CASE ~Return(s, "error") BY <1>5, <2>2 DEF SlotTypes, GetLinkID, Within
  <2> QED BY <2>1, <2>2
<1>6. CASE SaveTag(s) BY <1>6 DEF SlotTypes, Within, SaveTag
<1>7. ASSUME Aborted(s) PROVE Within(s) BY <1>7 DEF Aborted, Within
<1>8. CASE DeadlockVictim(s) BY <1>7, <1>8, Aborts
<1>9. CASE AddLinkFails(s)
  <2>1. CASE Return(s, "error") BY <1>7, <1>9, <2>1, Aborts, Returned DEF AddRefused
  <2>2. CASE ~Return(s, "error") BY <1>7, <1>9, <2>2, Aborts
  <2> QED BY <2>1, <2>2
<1>10. CASE Commit(s)
  <2>1. CASE tx[s].failed BY <1>10, <2>1, Returned DEF Commit, AddRefused
  <2>2. CASE ~tx[s].failed BY <1>10, <2>2 DEF Commit, Committed
  <2> QED BY <2>1, <2>2
<1>11. CASE FindID(s)
  <2>1. CASE Return(s, "ErrLinkNotFound")
    <3>1. pc[s] = "FindID" /\ UNCHANGED tables BY <1>11 DEF FindID
    <3>2. pc'[s] = "ErrLinkNotFound" /\ req' = req BY <2>1, Returned
    <3>3. \A id \in IDs : <<id, Url(s)>> \notin links
      BY <1>11, <3>2 DEF FindID, SlotTypes
    <3> QED BY <3>1, <3>2, <3>3 DEF FoundNone
  <2>2. CASE ~Return(s, "ErrLinkNotFound")
    <3>1. PICK id \in IDs : /\ <<id, Url(s)>> \in links
                            /\ linkID' = [linkID EXCEPT ![s] = id]
      BY <1>11, <2>2 DEF FindID
    <3>2. linkID'[s] = id BY <3>1, FoundID
    <3> QED BY <1>11, <2>2, <3>1, <3>2 DEF SlotTypes, FindID, Within
  <2> QED BY <2>1, <2>2
<1>12. CASE DeleteUser(s)
  <2>1. CASE <<User(s), linkID[s]>> \in linkUsers
    BY <1>12, <2>1 DEF DeleteUser, Unsubscribed
  <2>2. CASE <<User(s), linkID[s]>> \notin linkUsers
    BY <1>12, <2>2, Returned DEF DeleteUser, NothingToDelete
  <2> QED BY <2>1, <2>2
<1>13. CASE CheckUsers(s)
  <2>1. CASE Unused(linkID[s]) BY <1>13, <2>1 DEF SlotTypes, CheckUsers, Within
  <2>2. CASE ~Unused(linkID[s]) BY <1>13, <2>2, Returned DEF CheckUsers, LinkStays
  <2> QED BY <2>1, <2>2
<1>14. CASE RemoveLinkFails(s)
  BY <1>14, Returned DEF RemoveLinkFails, RemoveFailed, LinkStays
<1>15. CASE Respond(s) BY <1>15 DEF SlotTypes, Respond, Answered
<1> QED BY <1>1, <1>2, <1>3, <1>4, <1>5, <1>6, <1>8, <1>9, <1>10, <1>11, <1>12, <1>13, <1>14,
           <1>15 DEF SlotStep, Step, AddLinkStep, RemoveLinkStep

(* How a transaction can come to know of the subscription. *)
LEMMA FindsThere ==
  ASSUME SlotTypes, ShapeInv, NEW s \in Slots, SlotStep(s), FoundThere(s)'
  PROVE  /\ pc[s] \in AddSteps /\ req'[s] = req[s]
         /\ FoundThere(s) \/ <<User(s), linkID[s]>> \in linkUsers
<1> USE DEF FoundThere, Writing, AddSteps
<1>0. ~tx'[s].sub /\ ~tx'[s].failed /\ pc'[s] \in {"SaveTags", "Commit"} OBVIOUS
<1>1. ASSUME NEW r \in Results \cup {"idle"}, pc'[s] = r PROVE FALSE
  BY <1>0, <1>1 DEF Results
<1>2. ASSUME NEW r, Return(s, r) PROVE pc'[s] = r BY <1>2, Returned
<1>3. CASE InsertUser(s)
  <2>1. tx'[s] # FailedTx BY <1>0, FailedTxIs
  <2> QED BY <1>0, <1>3, <2>1, UserInserted
<1>4. CASE SaveTag(s)
  <2>1. tx'[s] # FailedTx /\ ~(tx[s].failed /\ tx'[s] = tx[s]) BY <1>0, FailedTxIs
  <2> QED BY <1>0, <1>4, <2>1, TagEffect DEF TagSaved
<1>5. CASE SavedTags(s) BY <1>0, <1>5 DEF SavedTags
<1>6. ASSUME Aborted(s) PROVE FALSE BY <1>0, <1>6, FailedTxIs DEF Aborted, SlotTypes
<1>7. CASE DeadlockVictim(s) BY <1>6, <1>7, Aborts
<1>8. CASE AddLinkFails(s) BY <1>1, <1>2, <1>6, <1>8, Aborts DEF Results
<1>9. CASE Commit(s) \/ DeleteLink(s) \/ RemoveLinkFails(s) \/ Respond(s)
  <2>1. CASE Respond(s) BY <1>0, <2>1 DEF Respond, GoTo, SlotTypes
  <2>2. CASE ~Respond(s)
    BY <1>1, <1>2, <1>9, <2>2 DEF Commit, DeleteLink, RemoveLinkFails, Results
  <2> QED BY <2>1, <2>2
<1>10. CASE \E r \in Requests : CallAddLink(s, r) \/ CallRemoveLink(s, r.user, r.url)
  BY <1>0, <1>10 DEF CallAddLink, CallRemoveLink, GoTo, SlotTypes
<1>11. CASE Begin(s) \/ InsertLink(s) BY <1>0, <1>11 DEF Begin, InsertLink, GoTo, SlotTypes
<1>12. CASE FindLink(s) \/ GetLinkID(s) \/ FindID(s) \/ DeleteUser(s) \/ CheckUsers(s)
  <2>1. CASE \E r \in Results : Return(s, r) BY <1>1, <1>2, <2>1
  <2>2. CASE ~\E r \in Results : Return(s, r)
    BY <1>0, <1>12, <2>2 DEF FindLink, GetLinkID, FindID, DeleteUser, CheckUsers, GoTo,
      SlotTypes, Results
  <2> QED BY <2>1, <2>2
<1> QED BY <1>3, <1>4, <1>5, <1>7, <1>8, <1>9, <1>10, <1>11, <1>12
    DEF SlotStep, Step, AddLinkStep, RemoveLinkStep

-----------------------------------------------------------------------------
(* What the statements do to the pairs that are tracked. *)

LEMMA PairTypes ==
  ASSUME SlotTypes, NEW s \in Slots
  PROVE  Pair(s) \in Users \X URLs /\ User(s) \in Users /\ Url(s) \in URLs
BY RequestTypes DEF SlotTypes, Pair, User, Url

LEMMA SubTracked ==
  ASSUME IInv, NEW s \in Slots, linkID[s] \in IDs, <<User(s), linkID[s]>> \in linkUsers
  PROVE  Pair(s) \in Tracked /\ <<linkID[s], Url(s)>> \in links
<1> USE DEF IInv
<1>1. PICK url \in URLs : <<linkID[s], url>> \in links BY DEF RefInv, Refers
<1>2. url = Url(s) BY <1>1 DEF IdInv
<1> QED BY <1>1, <1>2, PairTypes DEF Tracked, Pair

LEMMA CommitTracks ==
  ASSUME IInv, NEW s \in Slots, Committed(s)
  PROVE  Tracked' = IF tx[s].sub THEN Tracked \cup {Pair(s)} ELSE Tracked
<1> USE DEF IInv
<1>0. User(s) \in Users /\ Url(s) \in URLs BY PairTypes
<1>1. CASE ~tx[s].sub
  <2>1. ~tx[s].row BY <1>1 DEF Committed, ShapeInv, Shape, Writing
  <2>2. links' = links /\ linkUsers' = linkUsers /\ IDs' = IDs
    BY <1>1, <2>1 DEF Committed, IDs
  <2> QED BY <1>1, <2>2 DEF Tracked
<1>2. CASE tx[s].sub
  <2>1. linkID[s] \in IDs BY DEF Committed, SlotTypes, ShapeInv, Shape, Writing
  <2>2. linkUsers' = linkUsers \cup {<<User(s), linkID[s]>>} /\ IDs' = IDs
    BY <1>2 DEF Committed, IDs
  <2>3. links \subseteq links' /\ links' \subseteq links \cup {<<linkID[s], Url(s)>>}
    BY DEF Committed
  <2>4. <<linkID[s], Url(s)>> \in links'
    <3>1. Sees(s, linkID[s]) BY <1>2 DEF RefInv, Holds
    <3> QED BY <3>1 DEF Committed, Sees
  <2>5. Pair(s) \in Tracked' BY <1>0, <2>1, <2>2, <2>4 DEF Tracked, Pair
  <2>6. Tracked \subseteq Tracked' BY <2>2, <2>3 DEF Tracked
  <2>7. ASSUME NEW p \in Tracked', p # Pair(s) PROVE p \in Tracked
    <3>1. PICK id \in IDs : <<id, p[2]>> \in links' /\ <<p[1], id>> \in linkUsers'
      BY <2>2 DEF Tracked
    <3>2. p = <<p[1], p[2]>> /\ p[2] \in URLs BY DEF Tracked
    <3>3. CASE id = linkID[s]
      <4>1. p[2] = Url(s)
        <5>1. CASE <<id, p[2]>> \in links BY <3>2, <3>3, <5>1 DEF IdInv
        <5>2. CASE <<id, p[2]>> \notin links BY <2>3, <3>1, <5>2
        <5> QED BY <5>1, <5>2
      <4>2. p[1] # User(s) BY <2>7, <3>2, <4>1 DEF Pair
      <4>3. <<p[1], id>> \in linkUsers BY <2>2, <3>1, <4>2
      <4>4. PICK url \in URLs : <<id, url>> \in links BY <4>3 DEF RefInv, Refers
      <4>5. url = p[2] BY <3>3, <4>1, <4>4 DEF IdInv
      <4> QED BY <4>3, <4>4, <4>5 DEF Tracked
    <3>4. CASE id # linkID[s] BY <2>2, <2>3, <3>1, <3>4 DEF Tracked
    <3> QED BY <3>3, <3>4
  <2> QED BY <1>2, <2>5, <2>6, <2>7
<1> QED BY <1>1, <1>2

LEMMA UnsubscribeUntracks ==
  ASSUME IInv, NEW s \in Slots, Unsubscribed(s)
  PROVE  Pair(s) \in Tracked /\ Tracked' = Tracked \ {Pair(s)}
<1> USE DEF IInv
<1>1. linkID[s] \in IDs BY DEF Unsubscribed, SlotTypes, ShapeInv, Shape, Removing
<1>2. Pair(s) \in Tracked /\ <<linkID[s], Url(s)>> \in links
  BY <1>1, SubTracked DEF Unsubscribed
<1>3. /\ links' = links /\ linkUsers' = linkUsers \ {<<User(s), linkID[s]>>}
      /\ IDs' = IDs
  BY DEF Unsubscribed, IDs
<1>4. Pair(s) \notin Tracked'
  <2> SUFFICES ASSUME Pair(s) \in Tracked' PROVE FALSE
    OBVIOUS
  <2>1. PICK id \in IDs : <<id, Url(s)>> \in links /\ <<User(s), id>> \in linkUsers'
    BY <1>3 DEF Tracked, Pair
  <2>2. <<id, Url(s)>> = <<linkID[s], Url(s)>> BY <1>2, <2>1 DEF UniqueUrl
  <2> QED BY <1>3, <2>1, <2>2
<1>5. ASSUME NEW p \in Tracked, p # Pair(s) PROVE p \in Tracked'
  <2>1. PICK id \in IDs : <<id, p[2]>> \in links /\ <<p[1], id>> \in linkUsers BY DEF Tracked
  <2>2. p = <<p[1], p[2]>> BY DEF Tracked
  <2>3. <<p[1], id>> # <<User(s), linkID[s]>>
    <3> SUFFICES ASSUME <<p[1], id>> = <<User(s), linkID[s]>> PROVE FALSE
      OBVIOUS
    <3>1. <<id, p[2]>> = <<linkID[s], Url(s)>> BY <1>2, <2>1 DEF IdInv
    <3> QED BY <1>5, <2>2, <3>1 DEF Pair
  <2> QED BY <1>3, <2>1, <2>3 DEF Tracked
<1>6. Tracked' \subseteq Tracked BY <1>3 DEF Tracked
<1> QED BY <1>2, <1>4, <1>5, <1>6

LEMMA DeleteUntracks ==
  ASSUME IInv, NEW s \in Slots, DeleteLink(s)
  PROVE  \/ Tracked' = Tracked
         \/ Tracked' = {p \in Tracked : p[2] # Pair(s)[2]}
<1> USE DEF IInv
<1>1. /\ links' = {row \in links : row[1] # linkID[s]}
      /\ linkUsers' = {row \in linkUsers : row[2] # linkID[s]}
      /\ IDs' = IDs /\ Pair(s)[2] = Url(s)
  BY DEF DeleteLink, IDs, Pair
<1>2. CASE \A url \in URLs : <<linkID[s], url>> \notin links
  <2>1. \A row \in links : row[1] # linkID[s]
    <3>1. \A row \in links : row = <<row[1], row[2]>> /\ row[2] \in URLs BY DEF TableTypes
    <3> QED BY <1>2, <3>1
  <2>2. links' = links BY <1>1, <2>1
  <2>3. linkUsers' = linkUsers BY <1>1, <1>2 DEF RefInv, Refers
  <2> QED BY <1>1, <2>2, <2>3 DEF Tracked
<1>3. CASE \E url \in URLs : <<linkID[s], url>> \in links
  <2>1. <<linkID[s], Url(s)>> \in links BY <1>3 DEF IdInv
  <2>2. ASSUME NEW p \in Tracked' PROVE p \in Tracked /\ p[2] # Url(s)
    <3>1. PICK id \in IDs : <<id, p[2]>> \in links' /\ <<p[1], id>> \in linkUsers'
      BY <1>1 DEF Tracked
    <3>2. id # linkID[s] /\ <<id, p[2]>> \in links /\ <<p[1], id>> \in linkUsers BY <1>1, <3>1
    <3>3. p[2] # Url(s) BY <2>1, <3>2 DEF UniqueUrl
    <3> QED BY <3>2, <3>3 DEF Tracked
  <2>3. ASSUME NEW p \in Tracked, p[2] # Url(s) PROVE p \in Tracked'
    <3>1. PICK id \in IDs : <<id, p[2]>> \in links /\ <<p[1], id>> \in linkUsers BY DEF Tracked
    <3>2. id # linkID[s] BY <2>1, <2>3, <3>1 DEF IdInv
    <3> QED BY <1>1, <3>1, <3>2 DEF Tracked
  <2>4. Tracked' = {p \in Tracked : p[2] # Url(s)} BY <2>2, <2>3
  <2> QED BY <1>1, <2>4
<1> QED BY <1>2, <1>3

LEMMA ChatsUntrack ==
  ASSUME Chats
  PROVE  /\ UNCHANGED requests
         /\ Tracked' = Tracked \/ \E u \in Users : Tracked' = {p \in Tracked : p[1] # u}
<1>1. UNCHANGED <<links, requests>> /\ IDs' = IDs
  BY DEF Chats, CreateChat, DeleteChat, DeleteTag, IDs
<1>2. ASSUME NEW u \in Users, DeleteChat(u) PROVE Tracked' = {p \in Tracked : p[1] # u}
  <2>1. linkUsers' = {row \in linkUsers : row[1] # u} BY <1>2 DEF DeleteChat
  <2>2. \A p, id : <<p[1], id>> \in linkUsers' <=> <<p[1], id>> \in linkUsers /\ p[1] # u
    BY <2>1
  <2> QED BY <1>1, <2>2 DEF Tracked
<1>3. CASE ~\E u \in Users : DeleteChat(u)
  <2>1. linkUsers' = linkUsers BY <1>3 DEF Chats, CreateChat, DeleteTag
  <2> QED BY <1>1, <2>1 DEF Tracked
<1> QED BY <1>1, <1>2, <1>3

-----------------------------------------------------------------------------
(* The history. *)

LEMMA WatchedSlot ==
  ASSUME Watch, NEW s \in Slots
  PROVE  /\ ~InProgress(s)' => seen'[s] = {}
         /\ InProgress(s)' => (Pair(s)' \in Tracked') \in seen'[s]
         /\ InProgress(s)' /\ InProgress(s) => seen'[s] = seen[s] \cup {Pair(s)' \in Tracked'}
         /\ InProgress(s)' /\ ~InProgress(s) => seen'[s] = {Pair(s)' \in Tracked'}
<1>1. seen'[s] = IF ~InProgress(s)' THEN {}
                 ELSE (IF InProgress(s) THEN seen[s] ELSE {}) \cup {Pair(s)' \in Tracked'}
  BY DEF Watch, Pair
<1> QED BY <1>1

LEMMA WatchedType ==
  ASSUME Watch, seen \in [Slots -> SUBSET BOOLEAN]
  PROVE  seen' \in [Slots -> SUBSET BOOLEAN] /\ seen' = [s \in Slots |-> seen'[s]]
<1>1. ASSUME NEW s \in Slots
      PROVE  seen'[s] \in SUBSET BOOLEAN
  <2>1. (Pair(s)' \in Tracked') \in BOOLEAN OBVIOUS
  <2>2. seen[s] \in SUBSET BOOLEAN OBVIOUS
  <2> QED BY <2>1, <2>2, WatchedSlot
<1>2. seen' = [s \in Slots |-> seen'[s]]
  BY DEF Watch
<1> QED BY <1>1, <1>2

(* A pair that is, or is not, tracked is what the history says. *)
LEMMA SeenTrue ==
  ASSUME SeenInv, NEW s \in Slots, InProgress(s)
  PROVE  /\ Pair(s) \in Tracked => TRUE \in seen[s]
         /\ Pair(s) \notin Tracked => FALSE \in seen[s]
<1>1. (Pair(s) \in Tracked) \in seen[s] BY DEF SeenInv
<1>2. CASE Pair(s) \in Tracked
  <2>1. (Pair(s) \in Tracked) = TRUE BY <1>2
  <2> QED BY <1>1, <1>2, <2>1
<1>3. CASE Pair(s) \notin Tracked
  <2>1. (Pair(s) \in Tracked) = FALSE BY <1>3
  <2> QED BY <1>1, <1>3, <2>1
<1> QED BY <1>2, <1>3

(* A request keeps its pair while it runs. *)
LEMMA PairKept ==
  ASSUME SlotTypes, ShapeInv, NEW s \in Slots, SlotStep(s), NEW t \in Slots, InProgress(t)
  PROVE  Pair(t)' = Pair(t)
<1>1. CASE t # s
  BY <1>1, OthersStay DEF Same, Pair, User, Url
<1>2. CASE t = s
  <2>1. CASE Called(s) \/ Answered(s)
    BY <1>2, <2>1 DEF Called, Answered, InProgress, AddSteps, RemoveSteps, Results
  <2>2. CASE Committed(s) \/ Unsubscribed(s) \/ DeleteLink(s)
    <3>1. req' = req BY <2>2, Returned DEF Committed, Unsubscribed, DeleteLink
    <3> QED BY <1>2, <3>1 DEF Pair, User, Url
  <2>3. CASE ~(Called(s) \/ Answered(s) \/ Committed(s) \/ Unsubscribed(s) \/ DeleteLink(s))
    <3>1. req'[s] = req[s]
      BY <2>3, Visible DEF Within, AddRefused, FoundNone, NothingToDelete, RemoveFailed, LinkStays
    <3> QED BY <1>2, <3>1 DEF Pair, User, Url
  <2> QED BY <2>1, <2>2, <2>3
<1> QED BY <1>1, <1>2

(* The row that a RemoveLink has looked up goes in one step with the pair. *)
LEMMA LinkGone ==
  ASSUME IInv, NEW s \in Slots, SlotStep(s), NEW t \in Slots,
         <<linkID[t], Url(t)>> \in links, <<linkID[t], Url(t)>> \notin links'
  PROVE  Pair(t) \notin Tracked'
<1> USE DEF IInv
<1>1. DeleteLink(s)
  BY Writes DEF Committed, Unsubscribed, RemoveLinkFails, tables
<1>2. links' \subseteq links /\ IDs' = IDs BY <1>1 DEF DeleteLink, IDs
<1> SUFFICES ASSUME Pair(t) \in Tracked' PROVE FALSE
  OBVIOUS
<1>3. PICK id \in IDs : <<id, Url(t)>> \in links' BY <1>2 DEF Tracked, Pair
<1>4. <<id, Url(t)>> = <<linkID[t], Url(t)>> BY <1>2, <1>3 DEF UniqueUrl
<1> QED BY <1>3, <1>4

LEMMA SeenStep ==
  ASSUME IInv, SeenInv, NEW s \in Slots, SlotStep(s), Watch
  PROVE  SeenInv'
<1>0. /\ SlotTypes /\ TableTypes /\ ShapeInv
      /\ \A t \in Slots \ {s} : Same(t)
  BY OthersStay DEF IInv
<1>2. seen' \in [Slots -> SUBSET BOOLEAN] BY WatchedType DEF SeenInv
<1>3. ASSUME NEW t \in Slots
      PROVE  /\ ~InProgress(t)' => seen'[t] = {}
             /\ InProgress(t)' => (Pair(t)' \in Tracked') \in seen'[t]
  BY WatchedSlot
<1>4. ASSUME NEW t \in Slots, FoundThere(t)'
      PROVE  TRUE \in seen'[t]
  <2>1. InProgress(t)' BY <1>4 DEF FoundThere, Writing, InProgress, AddSteps
  <2>2. /\ InProgress(t)
        /\ FoundThere(t) \/ (pc[t] \in AddSteps /\ t = s /\ <<User(t), linkID[t]>> \in linkUsers)
    <3>1. CASE t = s BY <1>0, <1>4, <3>1, FindsThere DEF InProgress
    <3>2. CASE t # s
      BY <1>0, <1>4, <3>2 DEF Same, FoundThere, Writing, InProgress, AddSteps
    <3> QED BY <3>1, <3>2
  <2>3. TRUE \in seen[t]
    <3>1. CASE FoundThere(t) BY <3>1 DEF SeenInv
    <3>2. CASE <<User(t), linkID[t]>> \in linkUsers
      <4>1. linkID[t] \in IDs BY <3>2 DEF IInv, TableTypes
      <4>2. Pair(t) \in Tracked BY <3>2, <4>1, SubTracked
      <4> QED BY <2>2, <4>2, SeenTrue
    <3> QED BY <2>2, <3>1, <3>2
  <2> QED BY <2>1, <2>2, <2>3, WatchedSlot
<1>5. ASSUME NEW t \in Slots, GoneMeanwhile(t)'
      PROVE  FALSE \in seen'[t]
  <2>1. InProgress(t)' BY <1>5 DEF GoneMeanwhile, InProgress, RemoveSteps
  <2>2. t # s
    <3>1. ASSUME t = s PROVE FALSE
      <4>1. pc'[s] = "DeleteUser" /\ <<linkID'[s], Url(s)'>> \notin links'
        BY <1>5, <3>1 DEF GoneMeanwhile
      <4>2. Within(s)
        <5>1. ~Committed(s) /\ ~DeleteLink(s) /\ ~Unsubscribed(s)
          <6>1. ~Committed(s) /\ ~DeleteLink(s)
            BY <1>0, <4>1, Returned DEF Committed, DeleteLink
          <6>2. ~Unsubscribed(s) BY <1>0, <4>1 DEF Unsubscribed, GoTo, SlotTypes
          <6> QED BY <6>1, <6>2
        <5> QED BY <1>0, <4>1, <5>1, Visible DEF Called, Answered, AddRefused, FoundNone,
                NothingToDelete, RemoveFailed, LinkStays
      <4>3. <<linkID'[s], Url(s)>> \in links BY <4>1, <4>2 DEF Within, AddSteps
      <4> QED BY <4>1, <4>2, <4>3 DEF Within, Url
    <3> QED BY <3>1
  <2>3. InProgress(t) /\ pc[t] = "DeleteUser" /\ Pair(t)' = Pair(t)
    BY <1>0, <1>5, <2>2 DEF Same, GoneMeanwhile, InProgress, RemoveSteps, Pair, User, Url
  <2>4. CASE GoneMeanwhile(t)
    BY <2>1, <2>3, <2>4, WatchedSlot DEF SeenInv
  <2>5. CASE ~GoneMeanwhile(t)
    <3>1. <<linkID[t], Url(t)>> \in links /\ <<linkID[t], Url(t)>> \notin links'
      BY <1>0, <1>5, <2>2, <2>3, <2>5 DEF Same, GoneMeanwhile, Url
    <3>2. Pair(t)' \notin Tracked' BY <2>3, <3>1, LinkGone
    <3>3. (Pair(t)' \in Tracked') = FALSE BY <3>2
    <3>4. (Pair(t)' \in Tracked') \in seen'[t] BY <1>3, <2>1
    <3> QED BY <3>3, <3>4
  <2> QED BY <2>4, <2>5
<1> QED BY <1>2, <1>3, <1>4, <1>5 DEF SeenInv

(* A step that is nothing to any request in progress. *)
LEMMA SeenStays ==
  ASSUME SeenInv, Watch, Tracked' = Tracked,
         \A s \in Slots : InProgress(s)' <=> InProgress(s),
         \A s \in Slots : InProgress(s) => Pair(s)' = Pair(s)
  PROVE  seen' = seen
<1>1. ASSUME NEW s \in Slots PROVE seen'[s] = seen[s]
  <2>1. CASE ~InProgress(s) BY <2>1, WatchedSlot DEF SeenInv
  <2>2. CASE InProgress(s)
    <3>1. Pair(s)' = Pair(s) /\ InProgress(s)' BY <2>2
    <3>2. seen'[s] = seen[s] \cup {Pair(s)' \in Tracked'} BY <2>2, <3>1, WatchedSlot
    <3>3. (Pair(s)' \in Tracked') = (Pair(s) \in Tracked) BY <3>1
    <3>4. (Pair(s) \in Tracked) \in seen[s] BY <2>2 DEF SeenInv
    <3> QED BY <3>2, <3>3, <3>4
  <2> QED BY <2>1, <2>2
<1>2. seen' = [s \in Slots |-> seen'[s]] /\ seen = [s \in Slots |-> seen[s]]
  BY WatchedType DEF SeenInv
<1> QED BY <1>1, <1>2

LEMMA SeenChats ==
  ASSUME SeenInv, Chats, Watch
  PROVE  SeenInv'
<1>1. UNCHANGED <<pc, req, linkID, tx, links>>
  BY DEF Chats, CreateChat, DeleteChat, DeleteTag, requests
<1>2. seen' \in [Slots -> SUBSET BOOLEAN] BY WatchedType DEF SeenInv
<1>3. ASSUME NEW s \in Slots
      PROVE  /\ InProgress(s)' <=> InProgress(s)
             /\ FoundThere(s)' <=> FoundThere(s)
             /\ GoneMeanwhile(s)' <=> GoneMeanwhile(s)
             /\ InProgress(s) => seen[s] \subseteq seen'[s]
  <2>1. InProgress(s)' <=> InProgress(s) BY <1>1 DEF InProgress
  <2>2. FoundThere(s)' <=> FoundThere(s) BY <1>1 DEF FoundThere
  <2>3. GoneMeanwhile(s)' <=> GoneMeanwhile(s) BY <1>1 DEF GoneMeanwhile, Url
  <2> QED BY <2>1, <2>2, <2>3, WatchedSlot
<1>4. ASSUME NEW s \in Slots
      PROVE  /\ FoundThere(s) => InProgress(s)
             /\ GoneMeanwhile(s) => InProgress(s)
  BY DEF FoundThere, GoneMeanwhile, InProgress, Writing, AddSteps, RemoveSteps
<1> QED BY <1>2, <1>3, <1>4, WatchedSlot DEF SeenInv

LEMMA HInvInit == HInit => HInv
<1> SUFFICES ASSUME HInit PROVE HInv
  OBVIOUS
<1>1. IInv BY IInvInit DEF HInit
<1>2. SeenInv
  BY DEF HInit, Init, SeenInv, InProgress, FoundThere, GoneMeanwhile, Writing, AddSteps,
     RemoveSteps
<1> QED BY <1>1, <1>2 DEF HInv

LEMMA HInvNext == HInv /\ [Next /\ Watch]_hvars => HInv'
<1> SUFFICES ASSUME HInv, [Next /\ Watch]_hvars PROVE HInv'
  OBVIOUS
<1>1. CASE Next /\ Watch
  <2>1. IInv' BY <1>1, IInvNext DEF HInv
  <2>2. SeenInv' BY <1>1, NextIs, SeenStep, SeenChats DEF HInv
  <2> QED BY <2>1, <2>2 DEF HInv
<1>2. CASE UNCHANGED hvars
  <2>1. UNCHANGED vars /\ UNCHANGED seen BY <1>2 DEF hvars
  <2>2. IInv' BY <2>1, IInvNext DEF HInv
  <2>3. UNCHANGED <<links, linkUsers, pc, req, linkID, tx, seen>>
    BY <2>1 DEF vars, tables, requests
  <2>4. SeenInv'
    BY <2>3 DEF HInv, SeenInv, InProgress, FoundThere, GoneMeanwhile, Pair, User, Url, Tracked,
       IDs
  <2> QED BY <2>2, <2>4 DEF HInv
<1> QED BY <1>1, <1>2

LEMMA HInvHolds == HSpec => []HInv
BY HInvInit, HInvNext, PTL DEF HSpec

-----------------------------------------------------------------------------
(* The refinement. *)

statusOf == [s \in Slots |-> Status(s)]
pairOf   == [s \in Slots |-> <<User(s), Url(s)>>]

LEMMA StatusValues ==
  ASSUME SlotTypes, NEW s \in Slots
  PROVE  /\ pc[s] \in AddSteps => Status(s) = "adding"
         /\ pc[s] \in {"FindID", "DeleteUser"} => Status(s) = "removing"
         /\ pc[s] \in {"CheckUsers", "DeleteLink"} => Status(s) = "removed"
         /\ pc[s] \in {"idle"} \cup Results => Status(s) = pc[s]
         /\ Status(s) \in {"adding", "removing", "removed"} <=> InProgress(s)
<1>1. pc[s] \in Steps BY DEF SlotTypes
<1> QED BY <1>1 DEF Status, InProgress, Steps, AddSteps, RemoveSteps, Results

LEMMA StatusNext ==
  ASSUME SlotTypes', NEW s \in Slots
  PROVE  /\ pc'[s] \in AddSteps => Status(s)' = "adding"
         /\ pc'[s] \in {"FindID", "DeleteUser"} => Status(s)' = "removing"
         /\ pc'[s] \in {"CheckUsers", "DeleteLink"} => Status(s)' = "removed"
         /\ pc'[s] \in {"idle"} \cup Results => Status(s)' = pc'[s]
         /\ Status(s)' \in {"adding", "removing", "removed"} <=> InProgress(s)'
<1>1. pc'[s] \in Steps BY DEF SlotTypes
<1> QED BY <1>1 DEF Status, InProgress, Steps, AddSteps, RemoveSteps, Results

LEMMA HistoryOwed ==
  ASSUME SlotTypes, SlotTypes', Watch
  PROVE  seen' = [s \in Slots |-> T!Watched(s)]
<1>1. ASSUME NEW s \in Slots
      PROVE  T!Watched(s) = IF ~InProgress(s)' THEN {}
                            ELSE (IF InProgress(s) THEN seen[s] ELSE {})
                                   \cup {Pair(s)' \in Tracked'}
  <2>1. Status(s) \in T!Running <=> InProgress(s) BY StatusValues DEF T!Running
  <2>2. Status(s)' \in T!Running <=> InProgress(s)' BY StatusNext DEF T!Running
  <2> QED BY <2>1, <2>2 DEF T!Watched, Pair
<1> QED BY <1>1 DEF Watch, Pair

LEMMA StatusMoves ==
  ASSUME SlotTypes, SlotTypes', NEW s \in Slots, \A t \in Slots \ {s} : Same(t)
  PROVE  /\ statusOf' = [statusOf EXCEPT ![s] = Status(s)']
         /\ Status(s)' = Status(s) => statusOf' = statusOf
         /\ Pair(s)' = Pair(s) => pairOf' = pairOf
<1>1. \A t \in Slots \ {s} : Status(t)' = Status(t) /\ Pair(t)' = Pair(t)
  BY DEF Same, Status, Pair, User, Url
<1> QED BY <1>1 DEF statusOf, pairOf, Pair

(* A step of the abstract specification, from what it does to status and tracked. *)
LEMMA AbstractStep ==
  ASSUME SlotTypes, SlotTypes', Watch,
         \A t \in Slots : InProgress(t) => Pair(t)' = Pair(t),
         (\E s \in Slots : T!Step(s)) \/ \E u \in Users : T!Leave(u)
  PROVE  T!Next
<1>1. pairOf' \in [Slots -> Users \X URLs]
  <2>1. ASSUME NEW t \in Slots PROVE User(t)' \in Users /\ Url(t)' \in URLs
    <3>1. req'[t].user \in Users /\ req'[t].url \in URLs BY RequestTypes DEF SlotTypes
    <3> QED BY <3>1 DEF User, Url
  <2> QED BY <2>1 DEF pairOf
<1>2. \A t \in Slots : Status(t) \in T!Running => Pair(t)' = Pair(t)
  BY StatusValues DEF T!Running
<1>3. T!SamePairs BY <1>1, <1>2 DEF T!SamePairs, T!Pairs, pairOf, Pair
<1>4. seen' = [t \in Slots |-> T!Watched(t)] BY HistoryOwed
<1> QED BY <1>3, <1>4 DEF T!Next

(* A step that nobody who asked can tell from none. *)
LEMMA AbstractStutter ==
  ASSUME HInv, SlotTypes', NEW s \in Slots, SlotStep(s), Watch,
         Tracked' = Tracked, Status(s)' = Status(s), Pair(s)' = Pair(s)
  PROVE  UNCHANGED T!vars
<1>0. SlotTypes /\ ShapeInv BY DEF HInv, IInv
<1>1. \A t \in Slots \ {s} : Same(t) BY <1>0, OthersStay
<1>2. statusOf' = statusOf /\ pairOf' = pairOf BY <1>0, <1>1, StatusMoves
<1>3. \A t \in Slots : InProgress(t)' <=> InProgress(t)
  <2>1. \A t \in Slots \ {s} : InProgress(t)' <=> InProgress(t) BY <1>1 DEF Same, InProgress
  <2>2. InProgress(s)' <=> InProgress(s) BY <1>0, StatusValues, StatusNext
  <2> QED BY <2>1, <2>2
<1>4. \A t \in Slots : InProgress(t) => Pair(t)' = Pair(t) BY <1>0, PairKept
<1>5. seen' = seen BY <1>3, <1>4, SeenStays DEF HInv
<1> QED BY <1>2, <1>5 DEF T!vars, statusOf, pairOf

LEMMA RefinementInit == HInit => T!Init
<1> SUFFICES ASSUME HInit PROVE T!Init
  OBVIOUS
<1>1. SlotTypes BY IInvInit DEF HInit, IInv
<1>2. Tracked = {} BY DEF HInit, Init, Tracked
<1>3. \A s \in Slots : Status(s) = "idle" BY <1>1, StatusValues DEF HInit, Init
<1>4. pairOf \in [Slots -> Users \X URLs] BY <1>1, PairTypes DEF pairOf
<1> QED BY <1>2, <1>3, <1>4 DEF T!Init, T!Pairs, HInit, pairOf

LEMMA RequestRefines ==
  ASSUME HInv, HInv', NEW s \in Slots, SlotStep(s), Watch
  PROVE  T!Next \/ UNCHANGED T!vars
<1> DEFINE Stutters == Tracked' = Tracked /\ Status(s)' = Status(s) /\ Pair(s)' = Pair(s)
<1>0. /\ IInv /\ SlotTypes /\ SlotTypes' /\ ShapeInv /\ SeenInv
      /\ \A t \in Slots \ {s} : Same(t)
      /\ \A t \in Slots : InProgress(t) => Pair(t)' = Pair(t)
  BY OthersStay, PairKept DEF HInv, IInv
<1>1. Stutters => UNCHANGED T!vars BY <1>0, AbstractStutter
<1>2. T!Step(s) => T!Next BY <1>0, AbstractStep
<1>3. T!GoTo(s, Status(s)') BY <1>0, StatusMoves DEF T!GoTo, statusOf
<1>4. UNCHANGED <<links, linkUsers>> => Tracked' = Tracked BY DEF Tracked, IDs
<1>5. InProgress(s) <=> pc[s] \in AddSteps \cup RemoveSteps BY DEF InProgress
<1>6. {"nil", "ErrLinkAlreadyExists", "ErrLinkNotFound", "error"} = Results BY DEF Results
<1>7. CASE Within(s)
  <2>1. InProgress(s) BY <1>5, <1>7 DEF Within, RemoveSteps
  <2>2. Status(s)' = Status(s) BY <1>0, <1>7, StatusValues, StatusNext DEF Within
  <2> QED BY <1>0, <1>1, <1>4, <1>7, <2>1, <2>2 DEF Within
<1>8. CASE Called(s)
  <2>1. Status(s) = "idle" BY <1>0, <1>8, StatusValues DEF Called
  <2>2. Status(s)' \in {"adding", "removing"}
    BY <1>0, <1>8, StatusNext DEF Called, AddSteps
  <2>3. Pair(s)' \in Users \X URLs
    <3>1. req'[s].user \in Users /\ req'[s].url \in URLs BY <1>0, RequestTypes DEF SlotTypes
    <3> QED BY <3>1 DEF Pair, User, Url
  <2>4. Tracked' = Tracked BY <1>4, <1>8 DEF Called
  <2>5. T!Call(s, Status(s)', Pair(s)') BY <1>3, <2>1, <2>4 DEF T!Call, T!GoTo, Pair
  <2> QED BY <1>2, <2>2, <2>3, <2>5 DEF T!Step, T!Pairs
<1>9. CASE Answered(s)
  <2>1. Status(s) \in Results BY <1>0, <1>9, StatusValues DEF Answered
  <2>2. Status(s)' = "idle" /\ Tracked' = Tracked
    BY <1>0, <1>4, <1>9, StatusNext DEF Answered
  <2>3. T!Answer(s) BY <1>3, <1>6, <2>1, <2>2 DEF T!Answer, T!Answers, T!GoTo
  <2> QED BY <1>2, <2>3 DEF T!Step
<1>10. CASE AddRefused(s)
  <2>1. /\ Status(s) = "adding" /\ Tracked' = Tracked
        /\ Status(s)' \in {"ErrLinkAlreadyExists", "error"}
    BY <1>0, <1>4, <1>6, <1>10, StatusValues, StatusNext DEF AddRefused
  <2>2. T!AddRefused(s) BY <1>3, <2>1 DEF T!AddRefused, T!GoTo
  <2> QED BY <1>2, <2>2 DEF T!Step
<1>11. CASE FoundNone(s) \/ NothingToDelete(s)
  <2>1. /\ InProgress(s) /\ Status(s) = "removing" /\ Status(s)' = "ErrLinkNotFound"
        /\ Tracked' = Tracked
    BY <1>0, <1>4, <1>5, <1>6, <1>11, StatusValues, StatusNext
    DEF FoundNone, NothingToDelete, RemoveSteps
  <2>2. FALSE \in seen[s]
    <3>1. CASE FoundNone(s)
      <4>1. Pair(s) \notin Tracked BY <3>1 DEF FoundNone, Tracked, Pair
      <4> QED BY <1>0, <2>1, <4>1, SeenTrue
    <3>2. CASE NothingToDelete(s) /\ <<linkID[s], Url(s)>> \in links
      <4>1. Pair(s) \notin Tracked
        <5> SUFFICES ASSUME Pair(s) \in Tracked PROVE FALSE
          OBVIOUS
        <5>1. PICK id \in IDs : <<id, Url(s)>> \in links /\ <<User(s), id>> \in linkUsers
          BY DEF Tracked, Pair
        <5>2. <<id, Url(s)>> = <<linkID[s], Url(s)>> BY <1>0, <3>2, <5>1 DEF IInv, UniqueUrl
        <5> QED BY <3>2, <5>1, <5>2 DEF NothingToDelete
      <4> QED BY <1>0, <2>1, <4>1, SeenTrue
    <3>3. CASE NothingToDelete(s) /\ <<linkID[s], Url(s)>> \notin links
      BY <1>0, <3>3 DEF NothingToDelete, SeenInv, GoneMeanwhile
    <3> QED BY <1>11, <3>1, <3>2, <3>3
  <2>3. T!RemoveNothing(s) BY <1>3, <2>1, <2>2 DEF T!RemoveNothing, T!GoTo
  <2> QED BY <1>2, <2>3 DEF T!Step
<1>12. CASE RemoveFailed(s)
  <2>1. Status(s) = "removing" /\ Status(s)' = "error" /\ Tracked' = Tracked
    BY <1>0, <1>4, <1>6, <1>12, StatusValues, StatusNext DEF RemoveFailed
  <2>2. T!RemoveRefused(s) BY <1>3, <2>1 DEF T!RemoveRefused, T!GoTo
  <2> QED BY <1>2, <2>2 DEF T!Step
<1>13. CASE LinkStays(s)
  <2>1. Status(s) = "removed" /\ Status(s)' \in {"nil", "error"} /\ Tracked' = Tracked
    BY <1>0, <1>4, <1>6, <1>13, StatusValues, StatusNext DEF LinkStays
  <2>2. T!RemoveDone(s) BY <1>3, <2>1 DEF T!RemoveDone, T!GoTo
  <2> QED BY <1>2, <2>2 DEF T!Step
<1>14. CASE Committed(s)
  <2>1. pc[s] = "Commit" /\ InProgress(s) /\ Status(s) = "adding"
    BY <1>0, <1>5, <1>14, StatusValues DEF Committed, AddSteps
  <2>2. pc'[s] \in {"nil", "error"} BY <1>0, <1>14, Returned DEF Committed
  <2>3. Status(s)' = pc'[s] BY <1>0, <1>6, <2>2, StatusNext
  <2>4. CASE tx[s].sub
    <3>1. Tracked' = Tracked \cup {Pair(s)} BY <1>0, <1>14, <2>4, CommitTracks
    <3>2. T!Add(s) BY <1>3, <2>1, <2>2, <2>3, <3>1 DEF T!Add, T!GoTo, Pair
    <3> QED BY <1>2, <3>2 DEF T!Step
  <2>5. CASE ~tx[s].sub
    <3>1. Tracked' = Tracked BY <1>0, <1>14, <2>5, CommitTracks
    <3>2. TRUE \in seen[s] BY <1>0, <1>14, <2>1, <2>5 DEF Committed, SeenInv, FoundThere, Writing
    <3>3. pc'[s] = "error" => T!AddRefused(s)
      BY <1>3, <2>1, <2>3, <3>1 DEF T!AddRefused, T!GoTo
    <3>4. pc'[s] = "nil" => T!AddNothing(s)
      BY <1>3, <2>1, <2>3, <3>1, <3>2 DEF T!AddNothing, T!GoTo
    <3> QED BY <1>2, <2>2, <3>3, <3>4 DEF T!Step
  <2> QED BY <2>4, <2>5
<1>15. CASE Unsubscribed(s)
  <2>1. pc[s] = "DeleteUser" /\ pc'[s] = "CheckUsers"
    BY <1>0, <1>15 DEF Unsubscribed, GoTo, SlotTypes
  <2>2. Status(s) = "removing" /\ Status(s)' = "removed" BY <1>0, <2>1, StatusValues, StatusNext
  <2>3. Pair(s) \in Tracked /\ Tracked' = Tracked \ {Pair(s)}
    BY <1>0, <1>15, UnsubscribeUntracks
  <2>4. T!Remove(s) BY <1>3, <2>2, <2>3 DEF T!Remove, T!GoTo, Pair
  <2> QED BY <1>2, <2>4 DEF T!Step
<1>16. CASE DeleteLink(s)
  <2>1. pc[s] = "DeleteLink" /\ pc'[s] = "nil" BY <1>0, <1>16, Returned DEF DeleteLink
  <2>2. Status(s) = "removed" /\ Status(s)' = "nil"
    BY <1>0, <1>6, <2>1, StatusValues, StatusNext
  <2>3. CASE Tracked' = Tracked
    <3>1. T!RemoveDone(s) BY <1>3, <2>2, <2>3 DEF T!RemoveDone, T!GoTo
    <3> QED BY <1>2, <3>1 DEF T!Step
  <2>4. CASE Tracked' = {p \in Tracked : p[2] # Pair(s)[2]}
    <3>1. T!Cascade(s) BY <1>3, <2>2, <2>4 DEF T!Cascade, T!GoTo, Pair
    <3> QED BY <1>2, <3>1 DEF T!Step
  <2> QED BY <1>0, <1>16, <2>3, <2>4, DeleteUntracks
<1> QED BY <1>0, <1>7, <1>8, <1>9, <1>10, <1>11, <1>12, <1>13, <1>14, <1>15, <1>16, Visible

LEMMA ChatsRefine ==
  ASSUME HInv, HInv', Chats, Watch
  PROVE  T!Next \/ UNCHANGED T!vars
<1>0. SlotTypes /\ SlotTypes' /\ SeenInv BY DEF HInv, IInv
<1>1. UNCHANGED <<pc, req>> BY ChatsUntrack DEF requests
<1>2. /\ \A t \in Slots : InProgress(t)' <=> InProgress(t)
      /\ \A t \in Slots : InProgress(t) => Pair(t)' = Pair(t)
  BY <1>1 DEF InProgress, Pair, User, Url
<1>3. statusOf' = statusOf /\ pairOf' = pairOf BY <1>1 DEF statusOf, pairOf, Status, User, Url
<1>4. CASE Tracked' = Tracked
  <2>1. seen' = seen BY <1>0, <1>2, <1>4, SeenStays
  <2> QED BY <1>3, <1>4, <2>1 DEF T!vars, statusOf, pairOf
<1>5. ASSUME NEW u \in Users, Tracked' = {p \in Tracked : p[1] # u} PROVE T!Next
  <2>1. T!Leave(u) BY <1>3, <1>5 DEF T!Leave, statusOf
  <2> QED BY <1>0, <1>2, <2>1, AbstractStep
<1> QED BY <1>4, <1>5, ChatsUntrack

(* The SQL storage implements Tracking with Cascades: for any numbers of chats, links,
   requests and connections, a chat's link becomes tracked at one instant of the AddLink
   that reports it, and what ends it is the chat's own RemoveLink, DeleteChat, or
   another chat's RemoveLink that goes on to delete the link. *)
THEOREM SqlImplementsTracking == HSpec => ImplementsTracking
<1>1. HInv /\ HInv' /\ [Next /\ Watch]_hvars => [T!Next]_(T!vars)
  <2> SUFFICES ASSUME HInv, HInv', [Next /\ Watch]_hvars PROVE T!Next \/ UNCHANGED T!vars
    OBVIOUS
  <2>1. CASE Next /\ Watch BY <2>1, NextIs, RequestRefines, ChatsRefine
  <2>2. CASE UNCHANGED hvars
    BY <2>2 DEF hvars, vars, tables, requests, T!vars, Tracked, Status, User, Url, IDs
  <2> QED BY <2>1, <2>2
<1> QED BY <1>1, RefinementInit, HInvHolds, PTL DEF HSpec, ImplementsTracking, T!Spec
=============================================================================
