------------------------------ MODULE Tracking ------------------------------
(***************************************************************************)
(* What a LinkService promises to the scrapper's handlers, and through them*)
(* to the chats, whatever tables it keeps: which chat tracks which link,   *)
(* and what AddLink and RemoveLink may answer.                             *)
(*                                                                         *)
(* A request that writes does so at one instant between its call and its   *)
(* answer.  One that answers without having written anything says what was *)
(* true at some instant in between.  After an error nothing is known.      *)
(***************************************************************************)
CONSTANTS
  Users,
  URLs,
  Slots,     \* requests in progress at once
  Cascades   \* whether RemoveLink may take other chats' subscriptions along

VARIABLES
  tracked,   \* the pairs <<chat, url>> that GetLinks would show
  status,    \* status[s]: how far request s is, or its answer
  pair,      \* pair[s]: the chat and the link it is about
  seen       \* seen[s]: whether the pair was tracked, at each instant of the call

vars == <<tracked, status, pair, seen>>

Pairs   == Users \X URLs
Running == {"adding", "removing", "removed"}
Answers == {"nil", "ErrLinkAlreadyExists", "ErrLinkNotFound", "error"}

TypeOK ==
  /\ tracked \subseteq Pairs
  /\ status \in [Slots -> {"idle"} \cup Running \cup Answers]
  /\ pair \in [Slots -> Pairs]
  /\ seen \in [Slots -> SUBSET BOOLEAN]

Init ==
  /\ tracked = {}
  /\ status = [s \in Slots |-> "idle"]
  /\ pair \in [Slots -> Pairs]
  /\ seen = [s \in Slots |-> {}]

-----------------------------------------------------------------------------
GoTo(s, st) == status' = [status EXCEPT ![s] = st]

Call(s, op, p) ==
  /\ status[s] = "idle"
  /\ GoTo(s, op)
  /\ pair'[s] = p
  /\ UNCHANGED tracked

(* AddLink has written the subscription. *)
Add(s) ==
  /\ status[s] = "adding"
  /\ \E r \in {"nil", "error"} : GoTo(s, r)
  /\ tracked' = tracked \cup {pair[s]}

(* It found the subscription there. *)
AddNothing(s) ==
  /\ status[s] = "adding"
  /\ TRUE \in seen[s]
  /\ GoTo(s, "nil")
  /\ UNCHANGED tracked

(* ErrLinkAlreadyExists is about the link, not about the chat. *)
AddRefused(s) ==
  /\ status[s] = "adding"
  /\ \E r \in {"ErrLinkAlreadyExists", "error"} : GoTo(s, r)
  /\ UNCHANGED tracked

(* RemoveLink has deleted the subscription, with or without more to do. *)
Remove(s) ==
  /\ status[s] = "removing"
  /\ pair[s] \in tracked
  /\ \E st \in {"removed", "nil", "error"} : GoTo(s, st)
  /\ tracked' = tracked \ {pair[s]}

RemoveNothing(s) ==
  /\ status[s] = "removing"
  /\ FALSE \in seen[s]
  /\ \E r \in {"nil", "ErrLinkNotFound"} : GoTo(s, r)
  /\ UNCHANGED tracked

RemoveRefused(s) ==
  /\ status[s] = "removing"
  /\ GoTo(s, "error")
  /\ UNCHANGED tracked

RemoveDone(s) ==
  /\ status[s] = "removed"
  /\ \E r \in {"nil", "error"} : GoTo(s, r)
  /\ UNCHANGED tracked

(* A RemoveLink that goes on to delete the link itself. *)
Cascade(s) ==
  /\ Cascades
  /\ status[s] = "removed"
  /\ GoTo(s, "nil")
  /\ tracked' = {p \in tracked : p[2] # pair[s][2]}

Answer(s) ==
  /\ status[s] \in Answers
  /\ GoTo(s, "idle")
  /\ UNCHANGED tracked

(* DeleteChat: the chat's subscriptions go, at once. *)
Leave(u) ==
  /\ tracked' = {p \in tracked : p[1] # u}
  /\ UNCHANGED status

-----------------------------------------------------------------------------
(* What has been true of s's pair since s was called. *)
Watched(s) ==
  IF status'[s] \notin Running THEN {}
  ELSE (IF status[s] \in Running THEN seen[s] ELSE {}) \cup {pair'[s] \in tracked'}

(* A slot's pair means nothing while no request runs in it. *)
SamePairs ==
  /\ pair' \in [Slots -> Pairs]
  /\ \A s \in Slots : status[s] \in Running => pair'[s] = pair[s]

Step(s) ==
  \/ \E p \in Pairs : Call(s, "adding", p) \/ Call(s, "removing", p)
  \/ Add(s) \/ AddNothing(s) \/ AddRefused(s)
  \/ Remove(s) \/ RemoveNothing(s) \/ RemoveRefused(s) \/ RemoveDone(s) \/ Cascade(s)
  \/ Answer(s)

Next ==
  /\ (\E s \in Slots : Step(s)) \/ (\E u \in Users : Leave(u))
  /\ SamePairs
  /\ seen' = [s \in Slots |-> Watched(s)]

Spec == Init /\ [][Next]_vars
=============================================================================
