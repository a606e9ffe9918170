---------------------------- MODULE OrmTracking -----------------------------
(***************************************************************************)
(* The ORM storage implements Tracking without the SQL storage's deviation:*)
(* RemoveLink never takes another chat's subscription along.               *)
(***************************************************************************)
EXTENDS OrmStore

VARIABLE seen   \* history: the values of "the pair is tracked" since the call

hvars == <<vars, seen>>

InProgress(s) == pc[s] \in AddSteps \cup RemoveSteps

Status(s) ==
  CASE pc[s] \in AddSteps    -> "adding"
    [] pc[s] \in RemoveSteps -> "removing"
    [] pc[s] \in Results     -> IF pc[s] = "panic" THEN "error" ELSE pc[s]
    [] OTHER                 -> "idle"

(* DeleteChat is no request of Tracking: to its slot, idle, no pair belongs. *)
Pair(s) == IF pc[s] \in ChatSteps \cup ChatResults THEN <<NoRequest.user, NoRequest.url>>
           ELSE <<User(s), Url(s)>>

T == INSTANCE Tracking WITH
       Users    <- Chats,
       Cascades <- FALSE,
       tracked  <- Tracked,
       status   <- [s \in Slots |-> Status(s)],
       pair     <- [s \in Slots |-> Pair(s)]

HInit == Init /\ seen = [s \in Slots |-> {}]

Watch == seen' = [s \in Slots |->
  IF ~InProgress(s)' THEN {}
  ELSE (IF InProgress(s) THEN seen[s] ELSE {}) \cup {Pair(s)' \in Tracked'}]

HSpec == HInit /\ [][Next /\ Watch]_hvars

(* Whatever interleaving of statements, waits, panics and failures: a chat's link
   becomes tracked at one instant of the AddLink that reports it, a nil without a
   write was true at some instant of the call, and only the chat's own RemoveLink
   and DeleteChat end it. *)
ImplementsTracking == T!Spec
=============================================================================
