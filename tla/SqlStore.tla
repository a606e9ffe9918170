------------------------------ MODULE SqlStore ------------------------------
(***************************************************************************)
(* The SQL storage of the scrapper (repository/sql_database/sql_service.go)*)
(* under concurrent requests: AddLink is one transaction of several        *)
(* statements, RemoveLink three statements of their own, all at PostgreSQL *)
(* 's READ COMMITTED over the tables of 0001_init_database.up.sql.         *)
(*                                                                         *)
(* Of the database the model keeps what decides between outcomes: what a   *)
(* statement sees (committed rows and its own), unique keys that make an   *)
(* INSERT wait for an open transaction, the KEY SHARE locks of foreign     *)
(* keys that make a DELETE wait, cascades, and that an error undoes the    *)
(* transaction at once.  saveFilters is saveTags over tables of the same   *)
(* shape: tags stand for both.                                             *)
(***************************************************************************)
EXTENDS WaitGraph, Naturals, Sequences, FiniteSets

CONSTANTS
  Users,      \* telegram ids
  URLs,
  Tags,
  Requests,   \* the AddLink requests that may come: [user, url, tags]
  Slots,      \* requests in progress at once (a bound)
  MaxConns    \* size of the pool

AnyRequest == [user : Users, url : URLs, tags : Seq(Tags)]

ASSUME SqlStoreAssumption ==
  /\ Requests # {} /\ Requests \subseteq AnyRequest
  /\ IsFiniteSet(Slots) /\ IsFiniteSet(URLs)
  /\ MaxConns \in Nat \ {0}

VARIABLES
  users,      \* table users
  links,      \* table links: pairs <<id, url>>
  linkUsers,  \* table link_users: pairs <<user, id>>
  linkTags,   \* table link_tags: triples <<user, id, tag>>
  tagNames,   \* table tags
  leaked,     \* connections held by transactions nobody will end
  pc,         \* pc[s]: the statement request s executes next, or what it returns
  req,        \* req[s]: its arguments
  linkID,     \* linkID[s]: its variable linkID, 0 when unset
  tx,         \* tx[s]: the uncommitted effects of its transaction
  left,       \* left[s]: the tags saveTags has still to go through
  excused     \* history: ids left without a user by DeleteChat or a failure

tables   == <<users, links, linkUsers, linkTags, tagNames>>
requests == <<pc, req, linkID, tx, left>>
vars     == <<tables, leaked, requests, excused>>

(* Identity values: never one that a row or a request still mentions. *)
IDs == 1..(Cardinality(URLs) + Cardinality(Slots))

NoTx == [row |-> FALSE, sub |-> FALSE, tags |-> {}, names |-> {}, failed |-> FALSE]

AnyTx == [row : BOOLEAN, sub : BOOLEAN, tags : SUBSET Tags, names : SUBSET Tags,
          failed : BOOLEAN]

NoRequest == CHOOSE r \in Requests : TRUE

AddSteps    == {"Begin", "FindLink", "InsertLink", "GetLinkID", "InsertUser", "SaveTags",
                "Commit"}
RemoveSteps == {"FindID", "DeleteUser", "CheckUsers", "DeleteLink"}
Results     == {"nil", "ErrLinkAlreadyExists", "ErrLinkNotFound", "error"}
Steps       == {"idle"} \cup AddSteps \cup RemoveSteps \cup Results

TypeOK ==
  /\ users \subseteq Users
  /\ links \subseteq IDs \X URLs
  /\ linkUsers \subseteq Users \X IDs
  /\ linkTags \subseteq Users \X IDs \X Tags
  /\ tagNames \subseteq Tags
  /\ leaked \in 0..MaxConns
  /\ pc \in [Slots -> Steps]
  /\ req \in [Slots -> AnyRequest]
  /\ linkID \in [Slots -> IDs \cup {0}]
  /\ tx \in [Slots -> AnyTx]
  /\ left \in [Slots -> Seq(Tags)]
  /\ excused \subseteq IDs

Init ==
  /\ users = {} /\ links = {} /\ linkUsers = {} /\ linkTags = {} /\ tagNames = {}
  /\ leaked = 0
  /\ pc = [s \in Slots |-> "idle"]
  /\ req = [s \in Slots |-> NoRequest]
  /\ linkID = [s \in Slots |-> 0]
  /\ tx = [s \in Slots |-> NoTx]
  /\ left = [s \in Slots |-> <<>>]
  /\ excused = {}

-----------------------------------------------------------------------------
(* The pool, the locks and what a statement sees. *)

(* A transaction has its connection to itself, and so has a DELETE that waits. *)
HoldsConn(s) == pc[s] \in (AddSteps \ {"Begin"}) \cup {"DeleteLink"}

(* Mutant: a pool that does not miss what was never given back. *)
FreeConnBlind == Cardinality({s \in Slots : HoldsConn(s)}) < MaxConns

FreeConn == leaked + Cardinality({s \in Slots : HoldsConn(s)}) < MaxConns

User(s) == req[s].user
Url(s)  == req[s].url

(* A row of the request's URL that s sees. *)
Sees(s, id) == <<id, Url(s)>> \in links \/ (tx[s].row /\ linkID[s] = id)

(* An open transaction holds a KEY SHARE lock on the row of a link that its
   rows refer to, and on the rows of users and link_users likewise. *)
LocksLink(s, id) == linkID[s] = id /\ (tx[s].sub \/ tx[s].tags # {})
LocksUser(s, u)  == User(s) = u /\ (tx[s].sub \/ tx[s].tags # {})
LocksSub(s, u, id) == User(s) = u /\ linkID[s] = id /\ tx[s].tags # {}

Orphans(rows) == {id \in IDs : /\ \E url \in URLs : <<id, url>> \in links
                               /\ \A u \in Users : <<u, id>> \notin rows}

GoTo(s, step) == pc' = [pc EXCEPT ![s] = step]

(* The storage returns to the handler; the transaction, if any, is over. *)
Return(s, r) ==
  /\ GoTo(s, r)
  /\ linkID' = [linkID EXCEPT ![s] = 0]
  /\ tx' = [tx EXCEPT ![s] = NoTx]
  /\ left' = [left EXCEPT ![s] = <<>>]
  /\ UNCHANGED req

(* The handler of server.go turns it into a status and answers the client. *)
Respond(s) ==
  /\ pc[s] \in Results
  /\ GoTo(s, "idle")
  /\ req' = [req EXCEPT ![s] = NoRequest]
  /\ UNCHANGED <<tables, leaked, linkID, tx, left, excused>>

-----------------------------------------------------------------------------
(* AddLink *)

CallAddLink(s, r) ==
  /\ pc[s] = "idle"
  /\ GoTo(s, "Begin")
  /\ req' = [req EXCEPT ![s] = r]
  /\ left' = [left EXCEPT ![s] = r.tags]
  /\ UNCHANGED <<tables, leaked, linkID, tx, excused>>

Begin(s) ==
  /\ pc[s] = "Begin"
  /\ FreeConn
  /\ GoTo(s, "FindLink")
  /\ UNCHANGED <<tables, leaked, req, linkID, tx, left, excused>>

(* SELECT id FROM links WHERE url = $1.  Any answer but "no rows", an error
   included, returns ErrLinkAlreadyExists and leaves the transaction open: its
   connection does not come back to the pool. *)
FindLink(s) ==
  /\ pc[s] = "FindLink"
  /\ \/ /\ \A id \in IDs : <<id, Url(s)>> \notin links
        /\ GoTo(s, "InsertLink")
        /\ UNCHANGED <<leaked, req, linkID, tx, left>>
     \/ /\ Return(s, "ErrLinkAlreadyExists")
        /\ leaked' = leaked + 1
  /\ UNCHANGED <<tables, excused>>

(* Mutants: an INSERT that does not look at open transactions, one behind a lock
   that every transaction takes when it starts, and one that does not know its own
   transaction. *)
InsertBlind(s) == FALSE
WaitsForAll(s) == \E t \in Slots : pc[t] \in AddSteps \ {"Begin"} /\ Url(t) = Url(s)
WaitsForAnyone(s) == \E t \in Slots \ {s} : pc[t] \in AddSteps \ {"Begin"} /\ Url(t) = Url(s)

(* INSERT INTO links waits for a transaction that has inserted the URL. *)
WaitsForUrl(s) == \E t \in Slots \ {s} : tx[t].row /\ Url(t) = Url(s)

(* ... ON CONFLICT (url) DO NOTHING. *)
InsertLink(s) ==
  /\ pc[s] = "InsertLink"
  /\ ~WaitsForUrl(s)
  /\ IF \E id \in IDs : <<id, Url(s)>> \in links THEN UNCHANGED <<linkID, tx>>
     ELSE LET used == {row[1] : row \in links} \cup {linkID[t] : t \in Slots}
          IN  /\ linkID' = [linkID EXCEPT ![s] = CHOOSE id \in IDs : id \notin used]
              /\ tx' = [tx EXCEPT ![s].row = TRUE]
  /\ GoTo(s, "GetLinkID")
  /\ UNCHANGED <<tables, leaked, req, left, excused>>

(* getLinkIDByURL: a row that was there a statement ago may be gone. *)
GetLinkID(s) ==
  /\ pc[s] = "GetLinkID"
  /\ \/ \E id \in IDs :
          /\ Sees(s, id)
          /\ linkID' = [linkID EXCEPT ![s] = id]
          /\ GoTo(s, "InsertUser")
          /\ UNCHANGED <<req, tx, left>>
     \/ /\ \A id \in IDs : ~Sees(s, id)
        /\ Return(s, "error")
  /\ UNCHANGED <<tables, leaked, excused>>

(* An error of a statement undoes the transaction and makes the rest of it
   fail; AddLink only logs it. *)
Abort(s) == tx' = [tx EXCEPT ![s] = [NoTx EXCEPT !.failed = TRUE]]

(* INSERT INTO link_users waits for a transaction that has inserted the row ... *)
WaitsForSub(s) == \E t \in Slots : tx[t].sub /\ User(t) = User(s) /\ linkID[t] = linkID[s]

(* ... ON CONFLICT DO NOTHING.  An unknown chat is a null, a link that was deleted
   meanwhile a foreign key violation. *)
InsertUser(s) ==
  /\ pc[s] = "InsertUser"
  /\ ~WaitsForSub(s)
  /\ IF User(s) \notin users \/ ~Sees(s, linkID[s]) THEN Abort(s)
     ELSE tx' = [tx EXCEPT ![s].sub = <<User(s), linkID[s]>> \notin linkUsers]
  /\ GoTo(s, "SaveTags")
  /\ UNCHANGED <<tables, leaked, req, linkID, left, excused>>

(* INSERT INTO tags waits for a transaction that has inserted the name, INSERT
   INTO link_tags for one that has inserted the row. *)
WaitsForTag(s, t) ==
  /\ pc[s] = "SaveTags" /\ left[s] # <<>> /\ ~tx[s].failed
  /\ t # s
  /\ \/ Head(left[s]) \in tx[t].names
     \/ User(t) = User(s) /\ linkID[t] = linkID[s] /\ Head(left[s]) \in tx[t].tags

(* One round of saveTags; errors are logged. *)
SaveTag(s) ==
  /\ pc[s] = "SaveTags"
  /\ left[s] # <<>>
  /\ \A t \in Slots : ~WaitsForTag(s, t)
  /\ LET tag == Head(left[s])
     IN  IF tx[s].failed THEN UNCHANGED tx
         ELSE IF ~tx[s].sub /\ <<User(s), linkID[s]>> \notin linkUsers THEN Abort(s)
         ELSE tx' = [tx EXCEPT ![s].tags = IF <<User(s), linkID[s], tag>> \in linkTags
                                           THEN @ ELSE @ \cup {tag},
                               ![s].names = IF tag \in tagNames THEN @ ELSE @ \cup {tag}]
  /\ left' = [left EXCEPT ![s] = Tail(@)]
  /\ UNCHANGED <<tables, leaked, pc, req, linkID, excused>>

SavedTags(s) ==
  /\ pc[s] = "SaveTags"
  /\ left[s] = <<>>
  /\ GoTo(s, "Commit")
  /\ UNCHANGED <<tables, leaked, req, linkID, tx, left, excused>>

(* Only saveTags can be part of a circle: no other statement that waits is one of a
   transaction that holds what such a statement waits for. *)
TagWaits == {pair \in Slots \X Slots : WaitsForTag(pair[1], pair[2])}

Deadlocked(s) == OnCycle(TagWaits, Slots, s)

(* Transactions wait for each other's tags in a circle: PostgreSQL fails one. *)
DeadlockVictim(s) ==
  /\ Deadlocked(s)
  /\ Abort(s)
  /\ left' = [left EXCEPT ![s] = Tail(@)]
  /\ UNCHANGED <<tables, leaked, pc, req, linkID, excused>>

(* Mutant: a commit that does not notice that the transaction had failed. *)
CommitBlind(s) ==
  /\ pc[s] = "Commit"
  /\ Return(s, "nil")
  /\ links' = IF tx[s].row THEN links \cup {<<linkID[s], Url(s)>>} ELSE links
  /\ linkUsers' = IF tx[s].sub THEN linkUsers \cup {<<User(s), linkID[s]>>} ELSE linkUsers
  /\ linkTags' = linkTags \cup {<<User(s), linkID[s], tag>> : tag \in tx[s].tags}
  /\ tagNames' = tagNames \cup tx[s].names
  /\ excused' = excused \ {linkID[s]}
  /\ UNCHANGED <<users, leaked>>

(* The transaction put the subscription there, or a row that refers to it: an ON
   CONFLICT DO NOTHING alone takes no lock. *)
Holds(s) == tx[s].sub \/ tx[s].tags # {}

(* The commit of a failed transaction is a rollback and an error; the answer to
   one that took place may be lost. *)
Commit(s) ==
  /\ pc[s] = "Commit"
  /\ IF tx[s].failed
     THEN /\ Return(s, "error")
          /\ UNCHANGED <<tables, excused>>
     ELSE /\ \E r \in {"nil", "error"} : Return(s, r)
          /\ links' = IF tx[s].row THEN links \cup {<<linkID[s], Url(s)>>} ELSE links
          /\ linkUsers' = IF tx[s].sub THEN linkUsers \cup {<<User(s), linkID[s]>>}
                                       ELSE linkUsers
          /\ linkTags' = linkTags \cup {<<User(s), linkID[s], tag>> : tag \in tx[s].tags}
          /\ tagNames' = tagNames \cup tx[s].names
          /\ excused' = IF Holds(s) THEN excused \ {linkID[s]} ELSE excused
          /\ UNCHANGED users
  /\ UNCHANGED leaked

(* The connection fails, or the client goes away and the context with it. *)
AddLinkFails(s) ==
  /\ \/ pc[s] \in {"Begin", "InsertLink", "GetLinkID", "Commit"} /\ Return(s, "error")
     \/ /\ pc[s] = "InsertUser" /\ Abort(s) /\ GoTo(s, "SaveTags")
        /\ UNCHANGED <<req, linkID, left>>
     \/ /\ pc[s] = "SaveTags" /\ left[s] # <<>> /\ Abort(s)
        /\ left' = [left EXCEPT ![s] = Tail(@)]
        /\ UNCHANGED <<pc, req, linkID>>
  /\ UNCHANGED <<tables, leaked, excused>>

-----------------------------------------------------------------------------
(* RemoveLink: three statements, each with a connection for itself. *)

CallRemoveLink(s, u, url) ==
  /\ pc[s] = "idle"
  /\ GoTo(s, "FindID")
  /\ req' = [req EXCEPT ![s] = [user |-> u, url |-> url, tags |-> <<>>]]
  /\ UNCHANGED <<tables, leaked, linkID, tx, left, excused>>

FindID(s) ==
  /\ pc[s] = "FindID"
  /\ FreeConn
  /\ \/ \E id \in IDs :
          /\ <<id, Url(s)>> \in links
          /\ linkID' = [linkID EXCEPT ![s] = id]
          /\ GoTo(s, "DeleteUser")
          /\ UNCHANGED <<req, tx, left>>
     \/ /\ \A id \in IDs : <<id, Url(s)>> \notin links
        /\ Return(s, "ErrLinkNotFound")
  /\ UNCHANGED <<tables, leaked, excused>>

(* DELETE FROM link_users: no row affected is ErrLinkNotFound. *)
DeleteUser(s) ==
  /\ pc[s] = "DeleteUser"
  /\ FreeConn
  /\ \A t \in Slots : ~LocksSub(t, User(s), linkID[s])
  /\ IF <<User(s), linkID[s]>> \in linkUsers
     THEN /\ linkUsers' = linkUsers \ {<<User(s), linkID[s]>>}
          /\ linkTags' = {row \in linkTags : row[1] # User(s) \/ row[2] # linkID[s]}
          /\ GoTo(s, "CheckUsers")
          /\ UNCHANGED <<req, linkID, tx, left>>
     ELSE /\ Return(s, "ErrLinkNotFound")
          /\ UNCHANGED <<linkUsers, linkTags>>
  /\ UNCHANGED <<users, links, tagNames, leaked, excused>>

(* Mutant: the DELETE with EXISTS in the place of NOT EXISTS. *)
StillUsed(id) == \E u \in Users : <<u, id>> \in linkUsers

Unused(id) == \A u \in Users : <<u, id>> \notin linkUsers

(* DELETE FROM links WHERE NOT EXISTS ...: the condition is evaluated on the
   statement's snapshot ... *)
CheckUsers(s) ==
  /\ pc[s] = "CheckUsers"
  /\ FreeConn
  /\ IF Unused(linkID[s])
     THEN GoTo(s, "DeleteLink") /\ UNCHANGED <<req, linkID, tx, left>>
     ELSE Return(s, "nil")
  /\ UNCHANGED <<tables, leaked, excused>>

(* ... and the row is deleted once no open transaction refers to it any more.
   It is not evaluated again, a lock not being an update; the cascades take
   what refers to the row by then. *)
DeleteLink(s) ==
  /\ pc[s] = "DeleteLink"
  /\ \A t \in Slots : ~LocksLink(t, linkID[s]) \/ t = s
  /\ links' = {row \in links : row[1] # linkID[s]}
  /\ linkUsers' = {row \in linkUsers : row[2] # linkID[s]}
  /\ linkTags' = {row \in linkTags : row[2] # linkID[s]}
  /\ excused' = excused \ {linkID[s]}
  /\ Return(s, "nil")
  /\ UNCHANGED <<users, tagNames, leaked>>

(* A statement fails: what the earlier ones did stays done. *)
RemoveLinkFails(s) ==
  /\ pc[s] \in RemoveSteps
  /\ Return(s, "error")
  /\ excused' = IF pc[s] \in {"CheckUsers", "DeleteLink"}
                THEN excused \cup ({linkID[s]} \cap Orphans(linkUsers)) ELSE excused
  /\ UNCHANGED <<tables, leaked>>

-----------------------------------------------------------------------------
(* The requests of one statement. *)

CreateChat(u) ==
  /\ FreeConn
  /\ users' = users \cup {u}
  /\ UNCHANGED <<links, linkUsers, linkTags, tagNames, leaked, requests, excused>>

(* The cascade ends at link_users: rows of links nobody tracks remain. *)
DeleteChat(u) ==
  /\ FreeConn
  /\ \A s \in Slots : ~LocksUser(s, u)
  /\ users' = users \ {u}
  /\ linkUsers' = {row \in linkUsers : row[1] # u}
  /\ linkTags' = {row \in linkTags : row[1] # u}
  /\ excused' = excused \cup (Orphans(linkUsers') \ Orphans(linkUsers))
  /\ UNCHANGED <<links, tagNames, leaked, requests>>

DeleteTag(u, tag) ==
  /\ FreeConn
  /\ linkTags' = {row \in linkTags : row[1] # u \/ row[3] # tag}
  /\ UNCHANGED <<users, links, linkUsers, tagNames, leaked, requests, excused>>

-----------------------------------------------------------------------------
AddLinkStep(s) ==
  \/ Begin(s) \/ FindLink(s) \/ InsertLink(s) \/ GetLinkID(s) \/ InsertUser(s)
  \/ SaveTag(s) \/ SavedTags(s) \/ DeadlockVictim(s) \/ Commit(s)

RemoveLinkStep(s) == FindID(s) \/ DeleteUser(s) \/ CheckUsers(s) \/ DeleteLink(s)

Step(s) == AddLinkStep(s) \/ RemoveLinkStep(s) \/ Respond(s)

Next ==
  \/ \E s \in Slots :
       \/ \E r \in Requests : CallAddLink(s, r) \/ CallRemoveLink(s, r.user, r.url)
       \/ Step(s) \/ AddLinkFails(s) \/ RemoveLinkFails(s)
  \/ \E u \in Users : CreateChat(u) \/ DeleteChat(u) \/ \E tag \in Tags : DeleteTag(u, tag)

Spec == Init /\ [][Next]_vars

(* A request's goroutine runs.  It may have to wait for a connection or a lock
   again and again while others come and go: the pool and PostgreSQL queue
   their waiters, so it gets its turn. *)
FairSpec == Spec /\ \A s \in Slots : SF_vars(Step(s))

-----------------------------------------------------------------------------
(* One row per URL, those of open transactions included (ON CONFLICT (url)). *)
UniqueUrl ==
  /\ \A r, q \in links : r[2] = q[2] => r = q
  /\ \A s, t \in Slots : tx[s].row /\ tx[t].row /\ Url(s) = Url(t) => s = t
  /\ \A s \in Slots : tx[s].row => \A id \in IDs : <<id, Url(s)>> \notin links

(* A link that no chat tracks, which nobody could ever add again, is one that a
   RemoveLink is about to delete, or was left by DeleteChat or a failed DELETE. *)
OrphansExplained ==
  \A id \in Orphans(linkUsers) :
    \/ id \in excused
    \/ \E s \in Slots : pc[s] \in {"CheckUsers", "DeleteLink"} /\ linkID[s] = id

(* An AddLink that returns nil and wrote anything leaves the link with the chat's
   subscription, and one that wrote the subscription leaves every tag of the
   request: the errors it only logs do not get lost.  (When an earlier AddLink
   of the chat had put all of it there, it may be given up again before this one
   commits.) *)
SavedMeansStored ==
  [][\A s \in Slots :
       pc[s] = "Commit" /\ pc'[s] = "nil" /\ (Holds(s) \/ tx[s].failed) =>
         \E id \in IDs :
           /\ <<id, Url(s)>> \in links' /\ <<User(s), id>> \in linkUsers'
           /\ tx[s].sub => \A i \in DOMAIN req[s].tags :
                              <<User(s), id, req[s].tags[i]>> \in linkTags']_vars

NeedsConn(s) == pc[s] \in {"Begin", "FindID", "DeleteUser", "CheckUsers"}

(* Waits(s) for another request's lock; on a circle of them PostgreSQL lets one of
   the statements fail. *)
WaitsForLock(s) ==
  \/ pc[s] = "InsertLink" /\ WaitsForUrl(s)
  \/ pc[s] = "InsertUser" /\ WaitsForSub(s)
  \/ (\E t \in Slots : WaitsForTag(s, t)) /\ ~Deadlocked(s)
  \/ pc[s] = "DeleteUser" /\ \E t \in Slots : LocksSub(t, User(s), linkID[s])
  \/ pc[s] = "DeleteLink" /\ \E t \in Slots \ {s} : LocksLink(t, linkID[s])

Waits(s) == (NeedsConn(s) /\ ~FreeConn) \/ WaitsForLock(s)

(* Requests never bring each other to a stop, neither over the pool nor over locks,
   however many there are: when all that are in progress wait, the AddLinks of known
   links have used up the pool (FindLink's returns without Rollback). *)
JamIsExhaustion ==
  (\E s \in Slots : Waits(s)) /\ (\A s \in Slots : pc[s] = "idle" \/ Waits(s))
    => leaked = MaxConns

(* Every request is answered, unless the pool has lost all its connections. *)
AnsweredUnlessExhausted ==
  \A s \in Slots : pc[s] # "idle" ~> (pc[s] = "idle" \/ leaked = MaxConns)

Tracked == {pair \in Users \X URLs :
              \E id \in IDs : <<id, pair[2]>> \in links /\ <<pair[1], id>> \in linkUsers}

(* What the help text says of /untrack: a chat's link stays tracked until that
   chat gives it up. *)
OnlyOwnerUntracks ==
  [][\A pair \in Tracked \ Tracked' :
       \/ pair[1] \notin users'
       \/ \E s \in Slots : pc[s] = "DeleteUser" /\ User(s) = pair[1] /\ Url(s) = pair[2]]_vars
=============================================================================
