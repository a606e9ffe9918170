------------------------------ MODULE OrmStore ------------------------------
(***************************************************************************)
(* The ORM storage of the scrapper (repository/sql_database/orm_service.go)*)
(* under concurrent requests.  AddLink works in up to three connections at *)
(* once: its transaction, the one of addTags or addFilters, and one for a  *)
(* statement outside of both; RemoveLink and DeleteChat are one DELETE.    *)
(*                                                                         *)
(* The database is the one of SqlStore: READ COMMITTED, unique keys that   *)
(* make an INSERT wait, KEY SHARE locks that make a DELETE wait.  Rows of  *)
(* links are never deleted here, so that a URL stands for its row's id.    *)
(* Tags and filters differ in what a refused row does (Refused): items are *)
(* both, and linkItems is link_tags and link_filters in one.  The names    *)
(* (tables tags and filters) are only ever added to, by statements that    *)
(* commit at once, and decide nothing.                                     *)
(***************************************************************************)
EXTENDS WaitGraph, Naturals, Sequences, FiniteSets

CONSTANTS
  Chats,      \* telegram ids, numbers
  RowIDs,     \* ids of rows of users, numbers
  URLs,
  Tags,
  Filters,
  Requests,   \* the AddLink requests that may come: [user, url, tags, filters]
  Slots,      \* requests in progress at once (a bound)
  MaxConns    \* size of the pool

AnyRequest == [user : Chats, url : URLs, tags : Seq(Tags), filters : Seq(Filters)]

ASSUME OrmStoreAssumption ==
  /\ Chats \subseteq Nat \ {0} /\ RowIDs \subseteq Nat \ {0}
  /\ Tags \cap Filters = {}
  /\ Requests # {}
  /\ Requests \subseteq AnyRequest
  /\ IsFiniteSet(Slots)
  /\ MaxConns \in Nat \ {0}

VARIABLES
  users,      \* table users: pairs <<id, telegram id>>
  links,      \* table links: the URLs
  linkUsers,  \* table link_users: pairs <<users.id, url>>
  linkItems,  \* tables link_tags and link_filters: <<users.id, url, item>>
  leaked,     \* connections held by transactions nobody will end
  stuck,      \* what those transactions have locked
  pc,         \* pc[s]: what request s does next, or what it returns
  req,        \* req[s]: its arguments
  tx,         \* tx[s]: the uncommitted effects of AddLink's transaction
  inner,      \* inner[s]: those of the transaction of addTags or addFilters
  part,       \* part[s]: which of the two it is in
  left,       \* left[s]: the items it has still to go through
  target      \* target[s]: the row of users a DELETE has found, 0 for none

tables   == <<users, links, linkUsers, linkItems>>
pool     == <<leaked, stuck>>
adding   == <<tx, inner, part, left>>
requests == <<pc, req, adding, target>>
vars     == <<tables, pool, requests>>

Items == Tags \cup Filters

AnyTx    == [row : BOOLEAN, sub : RowIDs \cup {0}, failed : BOOLEAN]
AnyInner == [tx : {"none", "open", "closed"}, rows : SUBSET Items]
AnyLocks == [urls : SUBSET URLs, subs : SUBSET (RowIDs \X URLs),
             items : SUBSET (RowIDs \X URLs \X Items)]

NoTx    == [row |-> FALSE, sub |-> 0, failed |-> FALSE]
NoInner == [tx |-> "none", rows |-> {}]
NoLocks == [urls |-> {}, subs |-> {}, items |-> {}]

NoRequest == CHOOSE r \in Requests : TRUE

AddSteps    == {"Begin", "InsertLink", "GetLinkID", "InsertUser", "BeginItems", "SaveItems",
                "SaveItem", "Commit"}
RemoveSteps == {"FindRow", "DeleteRow"}
ChatSteps   == {"FindChat", "DeleteUser"}
Results     == {"nil", "error", "panic"}
ChatResults == {"ok", "failed"}   \* nil and error of DeleteChat

Steps == {"idle"} \cup AddSteps \cup RemoveSteps \cup ChatSteps \cup Results \cup ChatResults

TypeOK ==
  /\ users \subseteq RowIDs \X Chats
  /\ links \subseteq URLs
  /\ linkUsers \subseteq RowIDs \X URLs
  /\ linkItems \subseteq RowIDs \X URLs \X Items
  /\ leaked \in 0..MaxConns
  /\ stuck \in AnyLocks
  /\ pc \in [Slots -> Steps]
  /\ req \in [Slots -> AnyRequest]
  /\ tx \in [Slots -> AnyTx]
  /\ inner \in [Slots -> AnyInner]
  /\ part \in [Slots -> {"tags", "filters"}]
  /\ left \in [Slots -> Seq(Items)]
  /\ target \in [Slots -> RowIDs \cup {0}]

Init ==
  /\ users = {} /\ links = {} /\ linkUsers = {} /\ linkItems = {}
  /\ leaked = 0 /\ stuck = NoLocks
  /\ pc = [s \in Slots |-> "idle"]
  /\ req = [s \in Slots |-> NoRequest]
  /\ tx = [s \in Slots |-> NoTx]
  /\ inner = [s \in Slots |-> NoInner]
  /\ part = [s \in Slots |-> "tags"]
  /\ left = [s \in Slots |-> <<>>]
  /\ target = [s \in Slots |-> 0]

-----------------------------------------------------------------------------
(* The pool and the locks. *)

User(s) == req[s].user
Url(s)  == req[s].url

HoldsConn(s)   == pc[s] \in (AddSteps \ {"Begin"}) \cup {"DeleteRow", "DeleteUser"}
HoldsSecond(s) == inner[s].tx = "open"

(* Mutant: a pool that does not miss what was never given back. *)
FreeConnBlind ==
  Cardinality({s \in Slots : HoldsConn(s)}) + Cardinality({s \in Slots : HoldsSecond(s)})
    < MaxConns

FreeConn ==
  leaked + Cardinality({s \in Slots : HoldsConn(s)})
         + Cardinality({s \in Slots : HoldsSecond(s)}) < MaxConns

(* What open transactions have inserted: the URL, a row of link_users, rows of
   linkItems, whose user_id is the telegram id. *)
UrlsOf(s)  == IF tx[s].row THEN {Url(s)} ELSE {}
SubsOf(s)  == IF tx[s].sub # 0 THEN {<<tx[s].sub, Url(s)>>} ELSE {}
ItemsOf(s) == {<<User(s), Url(s), item>> : item \in inner[s].rows}

(* Mutants: an INSERT INTO links that does not look at open transactions, one
   behind a lock that every transaction takes when it starts, and one that does
   not know its own transaction. *)
InsertBlind(s)    == FALSE
WaitsForAnyone(s) == \E t \in Slots \ {s} : pc[t] \in AddSteps \ {"Begin"} /\ Url(t) = Url(s)
WaitsForAll(s)    == \E t \in Slots : pc[t] \in AddSteps \ {"Begin"} /\ Url(t) = Url(s)

(* A row that others' open transactions, or abandoned ones, have inserted makes
   the INSERT of the same row wait. *)
WaitsForUrl(s) == Url(s) \in stuck.urls \cup UNION {UrlsOf(t) : t \in Slots \ {s}}

WaitsForSub(s) ==
  \E id \in RowIDs :
    /\ <<id, User(s)>> \in users
    /\ <<id, Url(s)>> \in stuck.subs \cup UNION {SubsOf(t) : t \in Slots \ {s}}

WaitsForItem(s, t) ==
  /\ pc[s] = "SaveItem" /\ t # s
  /\ <<User(s), Url(s), Head(left[s])>> \in ItemsOf(t)

WaitsForStuckItem(s) == <<User(s), Url(s), Head(left[s])>> \in stuck.items

(* The rows that refer to a row of link_users or of users lock it. *)
ItemLocks == stuck.items \cup UNION {ItemsOf(t) : t \in Slots}
SubLocks  == stuck.subs \cup UNION {SubsOf(t) : t \in Slots}

LockedSub(id, url) == \E row \in ItemLocks : row[1] = id /\ row[2] = url
LockedUser(id)     == \/ \E row \in ItemLocks : row[1] = id
                      \/ \E row \in SubLocks : row[1] = id

GoTo(s, step) == pc' = [pc EXCEPT ![s] = step]

(* The storage returns to the handler, its transactions being over. *)
Return(s, r) ==
  /\ GoTo(s, r)
  /\ tx' = [tx EXCEPT ![s] = NoTx]
  /\ inner' = [inner EXCEPT ![s] = NoInner]
  /\ part' = [part EXCEPT ![s] = "tags"]
  /\ left' = [left EXCEPT ![s] = <<>>]
  /\ target' = [target EXCEPT ![s] = 0]
  /\ UNCHANGED req

(* AddLink goes without ending its transaction, whose connection and locks are
   given back by nobody. *)
LeaveOpen(s, r) ==
  /\ Return(s, r)
  /\ leaked' = leaked + 1
  /\ stuck' = [stuck EXCEPT !.urls = @ \cup UrlsOf(s), !.subs = @ \cup SubsOf(s)]
  /\ UNCHANGED tables

(* A method of a nil transaction: net/http recovers the handler's panic. *)
Panic(s) == LeaveOpen(s, "panic")

Respond(s) ==
  /\ pc[s] \in Results \cup ChatResults
  /\ GoTo(s, "idle")
  /\ req' = [req EXCEPT ![s] = NoRequest]
  /\ UNCHANGED <<tables, pool, adding, target>>

-----------------------------------------------------------------------------
(* AddLink *)

CallAddLink(s, r) ==
  /\ pc[s] = "idle"
  /\ GoTo(s, "Begin")
  /\ req' = [req EXCEPT ![s] = r]
  /\ left' = [left EXCEPT ![s] = r.tags]
  /\ UNCHANGED <<tables, pool, tx, inner, part, target>>

Begin(s) ==
  /\ pc[s] = "Begin"
  /\ FreeConn
  /\ GoTo(s, "InsertLink")
  /\ UNCHANGED <<tables, pool, req, adding, target>>

(* INSERT INTO links ... ON CONFLICT DO NOTHING RETURNING id *)
InsertLink(s) ==
  /\ pc[s] = "InsertLink"
  /\ ~WaitsForUrl(s)
  /\ IF Url(s) \in links THEN GoTo(s, "GetLinkID") /\ UNCHANGED tx
     ELSE GoTo(s, "InsertUser") /\ tx' = [tx EXCEPT ![s].row = TRUE]
  /\ UNCHANGED <<tables, pool, req, inner, part, left, target>>

(* getLinkID takes a connection of its own.  When it finds the id (the row cannot
   be gone) it does not end its transaction; when its SELECT fails it does, but
   AddLink then leaves its own; without a connection it panics. *)
GetLinkID(s) ==
  /\ pc[s] = "GetLinkID"
  /\ FreeConn
  /\ leaked' = leaked + 1
  /\ GoTo(s, "InsertUser")
  /\ UNCHANGED <<tables, stuck, req, adding, target>>

GetLinkIDFails(s) ==
  /\ pc[s] = "GetLinkID"
  /\ (FreeConn /\ LeaveOpen(s, "error")) \/ Panic(s)

(* A failed statement undoes the transaction, which AddLink only logs. *)
Abort(s) == tx' = [tx EXCEPT ![s] = [NoTx EXCEPT !.failed = TRUE]]

(* INSERT INTO link_users ... ON CONFLICT DO NOTHING: an unknown chat is a null. *)
InsertUser(s) ==
  /\ pc[s] = "InsertUser"
  /\ ~WaitsForSub(s)
  /\ \/ \E id \in RowIDs :
          /\ <<id, User(s)>> \in users
          /\ tx' = [tx EXCEPT ![s].sub = IF <<id, Url(s)>> \in linkUsers THEN 0 ELSE id]
     \/ /\ \A id \in RowIDs : <<id, User(s)>> \notin users
        /\ Abort(s)
  /\ GoTo(s, "BeginItems")
  /\ UNCHANGED <<tables, pool, req, inner, part, left, target>>

-----------------------------------------------------------------------------
(* addTags, then addFilters *)

BeginItems(s) ==
  /\ pc[s] = "BeginItems"
  /\ FreeConn
  /\ GoTo(s, "SaveItems")
  /\ inner' = [inner EXCEPT ![s].tx = "open"]
  /\ UNCHANGED <<tables, pool, req, tx, part, left, target>>

(* It returns, whatever came of it: AddLink only logs its error. *)
EndItems(s) ==
  /\ inner' = [inner EXCEPT ![s] = NoInner]
  /\ IF part[s] = "tags"
     THEN /\ GoTo(s, "BeginItems")
          /\ part' = [part EXCEPT ![s] = "filters"]
          /\ left' = [left EXCEPT ![s] = req[s].filters]
     ELSE /\ GoTo(s, "Commit")
          /\ left' = [left EXCEPT ![s] = <<>>]
          /\ UNCHANGED part
  /\ UNCHANGED <<req, tx, target>>

(* The name is inserted by the pool, in a third connection; then the SELECT of its
   id needs the transaction. *)
SaveName(s) ==
  /\ pc[s] = "SaveItems" /\ left[s] # <<>>
  /\ FreeConn
  /\ CASE inner[s].tx = "open"   -> /\ GoTo(s, "SaveItem")
                                    /\ UNCHANGED <<pool, req, adding, target>>
       [] inner[s].tx = "closed" -> EndItems(s) /\ UNCHANGED pool
       [] inner[s].tx = "none"   -> Panic(s)
  /\ UNCHANGED tables

(* After a refused row addTags rolls back and returns, addFilters rolls back and
   goes on with the next filter. *)
Refused(s) ==
  IF part[s] = "tags" THEN EndItems(s)
  ELSE /\ inner' = [inner EXCEPT ![s] = [tx |-> "closed", rows |-> {}]]
       /\ left' = [left EXCEPT ![s] = Tail(@)]
       /\ GoTo(s, "SaveItems")
       /\ UNCHANGED <<req, tx, part, target>>

(* INSERT INTO link_tags: the foreign keys see committed rows only, and user_id is
   the telegram id. *)
SaveItem(s) ==
  /\ pc[s] = "SaveItem"
  /\ ~WaitsForStuckItem(s)
  /\ \A t \in Slots : ~WaitsForItem(s, t)
  /\ IF <<User(s), Url(s)>> \in linkUsers
     THEN LET row == <<User(s), Url(s), Head(left[s])>>
          IN  /\ inner' = [inner EXCEPT ![s].rows =
                             IF row \in linkItems THEN @ ELSE @ \cup {Head(left[s])}]
              /\ left' = [left EXCEPT ![s] = Tail(@)]
              /\ GoTo(s, "SaveItems")
              /\ UNCHANGED <<req, tx, part, target>>
     ELSE Refused(s)
  /\ UNCHANGED <<tables, pool>>

(* Only these INSERTs can be part of a circle: no other statement that waits is one
   of an AddLink that holds what such a statement waits for. *)
ItemWaits == {pair \in Slots \X Slots : WaitsForItem(pair[1], pair[2])}

Deadlocked(s) == OnCycle(ItemWaits, Slots, s)

(* They wait for each other's rows in a circle: PostgreSQL fails one. *)
DeadlockVictim(s) ==
  /\ Deadlocked(s)
  /\ Refused(s)
  /\ UNCHANGED <<tables, pool>>

SavedItems(s) ==
  /\ pc[s] = "SaveItems" /\ left[s] = <<>>
  /\ IF inner[s].tx = "none" THEN Panic(s)
     ELSE EndItems(s) /\ UNCHANGED pool
  /\ linkItems' = linkItems \cup ItemsOf(s)
  /\ UNCHANGED <<users, links, linkUsers>>

(* Begin, the INSERT of the name, that of the row, or the commit fails.  A name that
   fails leaves the transaction open. *)
ItemsFail(s) ==
  /\ \/ /\ pc[s] = "BeginItems"
        /\ GoTo(s, "SaveItems")
        /\ UNCHANGED <<pool, req, adding, target>>
     \/ /\ pc[s] = "SaveItems" /\ left[s] # <<>>
        /\ EndItems(s)
        /\ IF inner[s].tx = "open"
           THEN /\ leaked' = leaked + 1
                /\ stuck' = [stuck EXCEPT !.items = @ \cup ItemsOf(s)]
           ELSE UNCHANGED pool
     \/ /\ pc[s] = "SaveItems" /\ left[s] = <<>> /\ inner[s].tx = "open"
        /\ EndItems(s)
        /\ UNCHANGED pool
     \/ /\ pc[s] = "SaveItem"
        /\ Refused(s)
        /\ UNCHANGED pool
  /\ UNCHANGED tables

-----------------------------------------------------------------------------
(* Mutant: a commit that does not notice that the transaction had failed. *)
CommitBlind(s) ==
  /\ pc[s] = "Commit"
  /\ Return(s, "nil")
  /\ links' = links \cup UrlsOf(s)
  /\ linkUsers' = linkUsers \cup SubsOf(s)
  /\ UNCHANGED <<users, linkItems, pool>>

(* The commit of a failed transaction is a rollback and an error; the answer to one
   that took place may be lost. *)
Commit(s) ==
  /\ pc[s] = "Commit"
  /\ IF tx[s].failed THEN Return(s, "error") ELSE \E r \in {"nil", "error"} : Return(s, r)
  /\ links' = links \cup UrlsOf(s)
  /\ linkUsers' = linkUsers \cup SubsOf(s)
  /\ UNCHANGED <<users, linkItems, pool>>

(* The connection fails, or the client goes away and the context with it. *)
AddLinkFails(s) ==
  /\ \/ pc[s] \in {"Begin", "InsertLink", "Commit"} /\ Return(s, "error")
     \/ /\ pc[s] = "InsertUser" /\ Abort(s) /\ GoTo(s, "BeginItems")
        /\ UNCHANGED <<req, inner, part, left, target>>
  /\ UNCHANGED <<tables, pool>>

-----------------------------------------------------------------------------
(* RemoveLink and DeleteChat: a DELETE finds its row in its snapshot and waits for
   the locks on it.  Neither tells that it found none. *)

Ask(s, step, u, url) ==
  /\ pc[s] = "idle"
  /\ GoTo(s, step)
  /\ req' = [req EXCEPT ![s] = [user |-> u, url |-> url, tags |-> <<>>, filters |-> <<>>]]
  /\ UNCHANGED <<tables, pool, adding, target>>

CallRemoveLink(s, u, url) == Ask(s, "FindRow", u, url)
CallDeleteChat(s, u)      == Ask(s, "FindChat", u, NoRequest.url)

Find(s, step, rows, none) ==
  /\ FreeConn
  /\ \/ \E id \in rows :
          /\ GoTo(s, step)
          /\ target' = [target EXCEPT ![s] = id]
          /\ UNCHANGED <<req, adding>>
     \/ rows = {} /\ Return(s, none)
  /\ UNCHANGED <<tables, pool>>

RowsOf(s) == {id \in RowIDs : <<id, User(s)>> \in users}

FindRow(s) ==
  /\ pc[s] = "FindRow"
  /\ Find(s, "DeleteRow", {id \in RowsOf(s) : <<id, Url(s)>> \in linkUsers}, "nil")

FindChat(s) ==
  /\ pc[s] = "FindChat"
  /\ Find(s, "DeleteUser", RowsOf(s), "ok")

DeleteRow(s) ==
  /\ pc[s] = "DeleteRow"
  /\ ~LockedSub(target[s], Url(s))
  /\ linkUsers' = linkUsers \ {<<target[s], Url(s)>>}
  /\ linkItems' = {row \in linkItems : row[1] # target[s] \/ row[2] # Url(s)}
  /\ \E r \in {"nil", "error"} : Return(s, r)
  /\ UNCHANGED <<users, links, pool>>

DeleteUser(s) ==
  /\ pc[s] = "DeleteUser"
  /\ ~LockedUser(target[s])
  /\ users' = {row \in users : row[1] # target[s]}
  /\ linkUsers' = {row \in linkUsers : row[1] # target[s]}
  /\ linkItems' = {row \in linkItems : row[1] # target[s]}
  /\ \E r \in ChatResults : Return(s, r)
  /\ UNCHANGED <<links, pool>>

DeleteFails(s) ==
  /\ \/ pc[s] \in RemoveSteps /\ Return(s, "error")
     \/ pc[s] \in ChatSteps /\ Return(s, "failed")
  /\ UNCHANGED <<tables, pool>>

-----------------------------------------------------------------------------
(* The requests that need not wait for a lock. *)

(* A serial id, never one that a row or a request still mentions. *)
CreateChat(u) ==
  /\ FreeConn
  /\ \A id \in RowIDs : <<id, u>> \notin users
  /\ \E id \in RowIDs :
       /\ \A row \in users : row[1] # id
       /\ \A s \in Slots : target[s] # id
       /\ users' = users \cup {<<id, u>>}
  /\ UNCHANGED <<links, linkUsers, linkItems, pool, requests>>

(* By the chat's row, unlike addTags. *)
DeleteTag(u, tag) ==
  /\ FreeConn
  /\ linkItems' = {row \in linkItems : row[3] # tag \/ <<row[1], u>> \notin users}
  /\ UNCHANGED <<users, links, linkUsers, pool, requests>>

-----------------------------------------------------------------------------
AddLinkStep(s) ==
  \/ Begin(s) \/ InsertLink(s) \/ GetLinkID(s) \/ InsertUser(s)
  \/ BeginItems(s) \/ SaveName(s) \/ SaveItem(s) \/ DeadlockVictim(s) \/ SavedItems(s)
  \/ Commit(s)

Step(s) ==
  \/ AddLinkStep(s)
  \/ FindRow(s) \/ DeleteRow(s) \/ FindChat(s) \/ DeleteUser(s)
  \/ Respond(s)

Fail(s) == GetLinkIDFails(s) \/ ItemsFail(s) \/ AddLinkFails(s) \/ DeleteFails(s)

Next ==
  \/ \E s \in Slots :
       \/ \E r \in Requests :
            CallAddLink(s, r) \/ CallRemoveLink(s, r.user, r.url) \/ CallDeleteChat(s, r.user)
       \/ Step(s) \/ Fail(s)
  \/ \E u \in Chats : CreateChat(u) \/ \E tag \in Tags : DeleteTag(u, tag)

Spec == Init /\ [][Next]_vars

-----------------------------------------------------------------------------
(* One row per URL, those of open and abandoned transactions included. *)
UniqueUrl ==
  /\ \A s, t \in Slots : tx[s].row /\ tx[t].row /\ Url(s) = Url(t) => s = t
  /\ \A s \in Slots : tx[s].row => Url(s) \notin links \cup stuck.urls
  /\ links \cap stuck.urls = {}

NeedsConn(s) ==
  \/ pc[s] \in {"Begin", "GetLinkID", "BeginItems", "FindRow", "FindChat"}
  \/ pc[s] = "SaveItems" /\ left[s] # <<>>

(* Waits(s) for another request's lock or for one that nobody will give back; on a
   circle of them PostgreSQL lets one of the statements fail. *)
WaitsForLock(s) ==
  \/ pc[s] = "InsertLink" /\ WaitsForUrl(s)
  \/ pc[s] = "InsertUser" /\ WaitsForSub(s)
  \/ pc[s] = "SaveItem" /\ WaitsForStuckItem(s)
  \/ (\E t \in Slots : WaitsForItem(s, t)) /\ ~Deadlocked(s)
  \/ pc[s] = "DeleteRow" /\ LockedSub(target[s], Url(s))
  \/ pc[s] = "DeleteUser" /\ LockedUser(target[s])

Waits(s) == (NeedsConn(s) /\ ~FreeConn) \/ WaitsForLock(s)

(* A request that waits waits for another one, or for what an earlier one has left
   behind: the transactions of one AddLink never wait for each other, which
   PostgreSQL could not see, and the pool is large enough for one. *)
NoneWaitsForItself ==
  \A s \in Slots :
    Waits(s) => leaked > 0 \/ \E t \in Slots \ {s} : HoldsConn(t)

(* When all requests wait at once it is because connections were left behind or
   because the AddLinks in progress hold all of them and want more: locks alone
   never bring the storage to a stop, however many requests there are. *)
JamIsThePool ==
  (\E s \in Slots : Waits(s)) /\ (\A s \in Slots : pc[s] = "idle" \/ Waits(s))
    => leaked > 0 \/ ~FreeConn

Tracked == {pair \in Chats \X URLs :
              \E id \in RowIDs : <<id, pair[1]>> \in users /\ <<id, pair[2]>> \in linkUsers}

(* What TestAddLink expects of "ORM implementation": after an AddLink that returns
   nil, link_tags has every tag of the request for that link. *)
TagsAreStored ==
  [][\A s \in Slots :
       pc[s] = "Commit" /\ pc'[s] = "nil" =>
         \A i \in DOMAIN req[s].tags :
           \E id \in RowIDs : <<id, Url(s), req[s].tags[i]>> \in linkItems']_vars
=============================================================================
