---------------------------- MODULE SqlTracking -----------------------------
(***************************************************************************)
(* The SQL storage implements Tracking, with the deviation that a          *)
(* RemoveLink may take other chats' subscriptions along (Cascades).        *)
(***************************************************************************)
EXTENDS SqlStore

VARIABLE seen   \* history: the values of "the pair is tracked" since the call

hvars == <<vars, seen>>

InProgress(s) == pc[s] \in AddSteps \cup RemoveSteps

Status(s) ==
  CASE pc[s] \in AddSteps                      -> "adding"
    [] pc[s] \in {"FindID", "DeleteUser"}      -> "removing"
    [] pc[s] \in {"CheckUsers", "DeleteLink"}  -> "removed"
    [] OTHER                                   -> pc[s]

T == INSTANCE Tracking WITH
       Cascades <- TRUE,
       tracked  <- Tracked,
       status   <- [s \in Slots |-> Status(s)],
       pair     <- [s \in Slots |-> <<User(s), Url(s)>>]

HInit == Init /\ seen = [s \in Slots |-> {}]

Watch == seen' = [s \in Slots |->
  IF ~InProgress(s)' THEN {}
  ELSE (IF InProgress(s) THEN seen[s] ELSE {}) \cup {<<User(s), Url(s)>>' \in Tracked'}]

HSpec == HInit /\ [][Next /\ Watch]_hvars

HFairSpec == HSpec /\ \A s \in Slots : SF_vars(Step(s))

(* Whatever interleaving of statements, waits and failures: a chat's link becomes
   tracked at one instant of the AddLink that reports it, ErrLinkNotFound and nil
   without a write were true during the call, and only RemoveLink's cascade and
   DeleteChat change what another request relies on. *)
ImplementsTracking == T!Spec
=============================================================================
