-------------------------------- MODULE Bot ---------------------------------
(***************************************************************************)
(* The Telegram bot's dialogue loop (bot/processing/manager.go): one       *)
(* goroutine polls Telegram for one update at a time, dispatches it on the *)
(* state of its chat, calls the scrapper through bot/clients and answers.  *)
(* Calls and sends fail or lose their answer, and a call whose answer was  *)
(* lost may take effect much later; the process dies and is started again  *)
(* by hand with an empty memory, and Telegram delivers again what was not  *)
(* confirmed.                                                              *)
(*                                                                         *)
(* A text is the sequence of its words (strings.Fields).  Telegram's queue *)
(* and the scrapper behind its HTTP interface are the environment.         *)
(***************************************************************************)
EXTENDS Naturals, Sequences

CONSTANTS
  Chats,       \* chat ids
  Groups,      \* the chats with a negative id, which the scrapper refuses
  Links,       \* words that isValidURL accepts
  Inputs,      \* the updates users may cause: [chat, text] or NoMessage
  NoMessage,   \* an update without a message, such as an edited message
  MaxPending,  \* bound on the updates waiting at Telegram
  MaxLate      \* bound on equal calls that go on without the bot

ASSUME BotAssumption ==
  /\ Groups \subseteq Chats
  /\ "none" \notin Links   \* it stands for the empty slot of addRequests
  /\ \A u \in Inputs \ {NoMessage} : u.chat \in Chats /\ u.text \in Seq(STRING \cup Links)
  /\ MaxPending \in Nat
  /\ MaxLate \in Nat

VARIABLES
  queue,       \* Telegram's updates that are not confirmed, oldest first
  offset,      \* the loop's offset, counted from the first of them: 0 or 1
  pc,          \* where the loop is
  reply,       \* the message SendMessage is about to send
  States,      \* Manager.States
  addRequests, \* Manager.addRequests
  registered,  \* the chats the scrapper knows
  tracked,     \* its pairs <<chat, link>>
  late,        \* how many of each call it still executes while the bot has gone on
  asked,       \* history: per chat, the link the user was last asked the tags
               \* for and the last two texts taken in since
  effects,     \* history: changing scrapper calls made for the first update, 2
               \* standing for more
  finished,    \* history: the first update was handled to its end
  said         \* history: per pair, what the last answer to its chat said of it

memory == <<States, addRequests>>
scrapper == <<registered, tracked, late>>
history == <<asked, effects, finished, said>>
vars == <<queue, offset, pc, reply, memory, scrapper, history>>

NoRequest == [link |-> "none", tags |-> <<>>, filters |-> <<>>]
NotAsked  == [link |-> "none", texts |-> <<>>]
Texts == {u.text : u \in Inputs \ {NoMessage}}
Calls == {"RegisterChat", "AddLink", "RemoveLink", "DeleteTag", "GetLinks", "GetLinksByTag"}
Replies == {"Hello", "Help", "UnknownCommand", "GotNoLink", "WrongFormatLink", "AddTags",
            "AddFilters", "Saved", "LinkAlreadyExists", "ErrAddLink", "Deleted",
            "LinkNotFound", "ErrDeleteLink", "NoTag", "TooManyTags", "TagNotFound",
            "TagDeleteFailed", "NoTags", "NoSavedPages", "LinkList"}

LateCalls == [name : {"AddLink", "RemoveLink"}, chat : Chats \ Groups, link : Links]

Chat == queue[1].chat
Text == queue[1].text

TypeOK ==
  /\ queue \in Seq(Inputs) /\ Len(queue) <= MaxPending
  /\ offset \in {0, 1} /\ offset <= Len(queue)
  /\ pc \in {"down", "poll", "handle", "send"} \cup Calls
  /\ reply \in Replies \cup {"none"}
  /\ States \in [Chats -> {"AwaitingStart", "Start", "AwaitingTags", "AwaitingFilters"}]
  /\ addRequests \in [Chats -> [link : Links \cup {"none"}, tags : Texts \cup {<<>>},
                                filters : Texts \cup {<<>>}]]
  /\ registered \subseteq Chats
  /\ tracked \subseteq Chats \X Links
  /\ late \in [LateCalls -> 0..MaxLate]
  /\ asked \in [Chats -> [link : Links \cup {"none"}, texts : Seq(Texts)]]
  /\ effects \in 0..2
  /\ finished \in BOOLEAN
  /\ said \in [Chats \X Links -> {"nothing", "tracked", "untracked"}]

Init ==
  /\ queue = <<>>
  /\ offset = 0
  /\ pc = "poll"
  /\ reply = "none"
  /\ States = [c \in Chats |-> "AwaitingStart"]
  /\ addRequests = [c \in Chats |-> NoRequest]
  /\ registered = {}
  /\ tracked = {}
  /\ late = [call \in LateCalls |-> 0]
  /\ asked = [c \in Chats |-> NotAsked]
  /\ effects = 0
  /\ finished = FALSE
  /\ said = [p \in Chats \X Links |-> "nothing"]

-----------------------------------------------------------------------------
(* Users, and the life of the process. *)

UserSends(u) ==
  /\ Len(queue) < MaxPending
  /\ queue' = Append(queue, u)
  /\ UNCHANGED <<offset, pc, reply, memory, scrapper, history>>

(* Mutant: the states outlive the process, the requests do not. *)
StopKeepsStates ==
  /\ pc' = "down"
  /\ offset' = 0
  /\ reply' = "none"
  /\ addRequests' = [c \in Chats |-> NoRequest]
  /\ asked' = [c \in Chats |-> NotAsked]
  /\ UNCHANGED States

(* The process ends: the maps and the offset are its memory. *)
Stop ==
  /\ pc' = "down"
  /\ offset' = 0
  /\ reply' = "none"
  /\ States' = [c \in Chats |-> "AwaitingStart"]
  /\ addRequests' = [c \in Chats |-> NoRequest]
  /\ asked' = [c \in Chats |-> NotAsked]

Crash ==
  /\ pc # "down"
  /\ Stop
  /\ UNCHANGED <<queue, scrapper, effects, finished, said>>

(* Nothing in docker-compose.yml restarts the bot: somebody may. *)
Restart ==
  /\ pc = "down"
  /\ pc' = "poll"
  /\ UNCHANGED <<queue, offset, reply, memory, scrapper, history>>

-----------------------------------------------------------------------------
(* The loop of Start. *)

(* Mutant: offset = res.ID + 2. *)
ConfirmPast(n) ==
  /\ queue' = SubSeq(queue, IF n = 0 THEN 1 ELSE n + 2, Len(queue))
  /\ effects' = IF n = 0 THEN effects ELSE 0
  /\ finished' = (n = 0 /\ finished)

(* getUpdates(offset) confirms the updates before offset. *)
ConfirmUpTo(n) ==
  /\ queue' = SubSeq(queue, n + 1, Len(queue))
  /\ effects' = IF n = 0 THEN effects ELSE 0
  /\ finished' = (n = 0 /\ finished)

TakenIn(record, text) ==
  IF record.link = "none" THEN record
  ELSE LET all == Append(record.texts, text)
       IN  [record EXCEPT !.texts = IF Len(all) > 2 THEN Tail(all) ELSE all]

(* Updates(offset, 1) answers.  The loop goes to the handler of the chat only
   when the update has a message; otherwise it asks again, the offset being as
   it was. *)
Poll ==
  /\ pc = "poll"
  /\ ConfirmUpTo(offset)
  /\ offset' = 0
  /\ IF queue' # <<>> /\ Head(queue') # NoMessage
     THEN /\ pc' = "handle"
          /\ asked' = [asked EXCEPT ![Head(queue').chat] = TakenIn(@, Head(queue').text)]
     ELSE UNCHANGED <<pc, asked>>
  /\ UNCHANGED <<reply, memory, scrapper, said>>

(* The request fails, before or after it reached Telegram: no data, which does
   not unmarshal, and Start returns.  (An error that Telegram reports in JSON is
   an answer without updates, after which the loop asks again.) *)
PollFails ==
  /\ pc = "poll"
  /\ \E n \in {0, offset} : ConfirmUpTo(n)
  /\ Stop
  /\ UNCHANGED <<scrapper, said>>

(* The handler has returned: offset = res.ID + 1. *)
Finish(states) ==
  /\ States' = states
  /\ offset' = 1
  /\ pc' = "poll"
  /\ reply' = "none"
  /\ finished' = TRUE

Dialogue(states) == {c \in Chats : states[c] \in {"AwaitingTags", "AwaitingFilters"}}

(* What the user sees of a message, when it arrives: the question for tags. *)
Asked(states, delivered) ==
  [c \in Chats |->
     IF c = Chat /\ delivered /\ reply = "AddTags"
     THEN [link |-> addRequests[c].link, texts |-> <<>>]
     ELSE IF c = Chat /\ c \notin Dialogue(states) THEN NotAsked ELSE asked[c]]

(* The state a question puts the chat in, once its message was sent. *)
After(message, state) ==
  CASE message = "AddTags"    -> "AwaitingTags"
    [] message = "AddFilters" -> "AwaitingFilters"
    [] OTHER                  -> state

(* SendMessage returns without an error, and the handler with it.  It does not
   look at the status: a message that Telegram refused counts as sent, here too. *)
SendOK ==
  LET states == [States EXCEPT ![Chat] = After(reply, @)]
  IN  /\ pc = "send"
      /\ Finish(states)
      /\ asked' = Asked(states, TRUE)
      /\ UNCHANGED <<queue, addRequests, scrapper, effects, said>>

(* Mutant: the state moves on before the question is sent. *)
MovesOnUnsent ==
  /\ pc = "send"
  /\ \E delivered \in BOOLEAN :
       asked' = Asked([States EXCEPT ![Chat] = After(reply, @)], delivered)
  /\ Finish([States EXCEPT ![Chat] = After(reply, @)])
  /\ UNCHANGED <<queue, addRequests, scrapper, effects, said>>

(* Mutant: a handler whose message failed leaves the offset alone. *)
TriesAgain ==
  /\ pc = "send"
  /\ pc' = "poll" /\ reply' = "none"
  /\ UNCHANGED <<queue, offset, memory, scrapper, history>>

(* SendMessage returns an error: the user may have got the message all the
   same.  The handlers log it or not and return. *)
SendFails ==
  /\ pc = "send"
  /\ \E delivered \in BOOLEAN : asked' = Asked(States, delivered)
  /\ Finish(States)
  /\ UNCHANGED <<queue, addRequests, scrapper, effects, said>>

Reply(message) == pc' = "send" /\ reply' = message

-----------------------------------------------------------------------------
(* The handlers, up to the first call that leaves the process. *)

Handling(state) == pc = "handle" /\ States[Chat] = state
Given == Tail(Text)

(* parts[0] of an empty text, a sticker's for instance: the process panics. *)
EmptyText ==
  /\ Handling("AwaitingStart") \/ Handling("Start")
  /\ Text = <<>>
  /\ Stop
  /\ UNCHANGED <<queue, scrapper, effects, finished, said>>

HandleAwaitingStart ==
  /\ Handling("AwaitingStart")
  /\ Text # <<>>
  /\ IF Text[1] = "/start"
     THEN /\ States' = [States EXCEPT ![Chat] = "Start"]
          /\ pc' = "RegisterChat"
          /\ UNCHANGED reply
     ELSE /\ Reply(IF Text[1] = "/help" THEN "Help" ELSE "UnknownCommand")
          /\ UNCHANGED States
  /\ UNCHANGED <<queue, offset, addRequests, scrapper, history>>

Command(word) == Handling("Start") /\ Text # <<>> /\ Text[1] = word

(* Mutant: a link is not checked. *)
AnyWord(given) == TRUE

isValidURL(given) == given \in Links

processTrackCommand ==
  /\ Command("/track")
  /\ IF Given = <<>> THEN Reply("GotNoLink") /\ UNCHANGED addRequests
     ELSE IF ~isValidURL(Given[1]) THEN Reply("WrongFormatLink") /\ UNCHANGED addRequests
     ELSE /\ addRequests' = [addRequests EXCEPT ![Chat] = [NoRequest EXCEPT !.link = Given[1]]]
          /\ Reply("AddTags")
  /\ UNCHANGED <<queue, offset, States, scrapper, history>>

processUntrackCommand ==
  /\ Command("/untrack")
  /\ IF Given = <<>> THEN Reply("GotNoLink") ELSE pc' = "RemoveLink" /\ UNCHANGED reply
  /\ UNCHANGED <<queue, offset, memory, scrapper, history>>

processListCommand ==
  /\ Command("/list")
  /\ pc' = "GetLinks"
  /\ UNCHANGED <<queue, offset, reply, memory, scrapper, history>>

processListByTagCommand ==
  /\ Command("/listbytags")
  /\ IF Given = <<>> THEN Reply("NoTags") ELSE pc' = "GetLinksByTag" /\ UNCHANGED reply
  /\ UNCHANGED <<queue, offset, memory, scrapper, history>>

processDeleteTag ==
  /\ Command("/deletetag")
  /\ IF Given = <<>> THEN Reply("NoTag")
     ELSE IF Len(Given) > 1 THEN Reply("TooManyTags")
     ELSE pc' = "DeleteTag" /\ UNCHANGED reply
  /\ UNCHANGED <<queue, offset, memory, scrapper, history>>

processUnknownCommand ==
  /\ Handling("Start") /\ Text # <<>>
  /\ Text[1] \notin {"/track", "/untrack", "/list", "/listbytags", "/deletetag"}
  /\ Reply(IF Text[1] = "/help" THEN "Help" ELSE "UnknownCommand")
  /\ UNCHANGED <<queue, offset, memory, scrapper, history>>

handleAwaitingTagsForTrack ==
  /\ Handling("AwaitingTags")
  /\ addRequests' = [addRequests EXCEPT ![Chat].tags = Text]
  /\ Reply("AddFilters")
  /\ UNCHANGED <<queue, offset, States, scrapper, history>>

handleAwaitingFiltersForTrack ==
  /\ Handling("AwaitingFilters")
  /\ addRequests' = [addRequests EXCEPT ![Chat].filters = Text]
  /\ States' = [States EXCEPT ![Chat] = "Start"]
  /\ pc' = "AddLink"
  /\ UNCHANGED <<queue, offset, reply, scrapper, history>>

-----------------------------------------------------------------------------
(* The calls to the scrapper.  Status 0 is a failed request or a lost answer;
   an outcome is a status with what the scrapper's data is then. *)

Outcomes(statuses, data) == {[status |-> s, data |-> d] : s \in statuses, d \in data}

(* Server.AddLink over the SQL storage, which refuses a link that anybody tracks
   and cannot store one for a chat it does not know.  409 also answers a SELECT
   that failed; a commit that took place may look like a failure. *)
AddLinkOutcomes(c, l) ==
  IF c \in Groups THEN Outcomes({0, 400}, {tracked})
  ELSE Outcomes({0, 409, 500}, {tracked}) \cup
       (IF c \in registered /\ \A d \in Chats : <<d, l>> \notin tracked
        THEN Outcomes({200, 500}, {tracked \cup {<<c, l>>}}) ELSE {})

(* Server.RemoveLink: its last statement may fail after the pair is gone. *)
RemoveLinkOutcomes(c, l) ==
  IF c \in Groups THEN Outcomes({0, 400}, {tracked})
  ELSE Outcomes({0, 500}, {tracked}) \cup
       (IF <<c, l>> \in tracked THEN Outcomes({200, 500}, {tracked \ {<<c, l>>}})
        ELSE Outcomes({404}, {tracked}))

(* A call without an answer did not reach the scrapper or had no effect, or it
   goes on there, and its effect, if any, is still to come: at once, or after any
   number of other commands.  (A process that dies within a call is one that dies
   after the answer was lost.) *)
MayGoOn(status, call) ==
  \/ UNCHANGED late
  \/ /\ status = 0 /\ call \in LateCalls /\ late[call] < MaxLate
     /\ late' = [late EXCEPT ![call] = @ + 1]

(* What such a call may leave.  An AddLink may have passed its SELECT before
   another chat's; a RemoveLink may take along what others committed meanwhile. *)
LateResults(call) ==
  LET pair == <<call.chat, call.link>>
  IN  {tracked} \cup
      IF call.name = "AddLink"
      THEN IF call.chat \in registered THEN {tracked \cup {pair}} ELSE {}
      ELSE IF pair \in tracked
           THEN {tracked \ gone : gone \in {g \in SUBSET (Chats \X {call.link}) : pair \in g}}
           ELSE {}

(* It ends, and nobody hears of it: what was said of a pair it changes counts no
   longer. *)
EndsLate(call) ==
  /\ late[call] > 0
  /\ late' = [late EXCEPT ![call] = @ - 1]
  /\ tracked' \in LateResults(call)
  /\ said' = [p \in Chats \X Links |->
                IF p \in tracked <=> p \in tracked' THEN said[p] ELSE "nothing"]
  /\ UNCHANGED <<queue, offset, pc, reply, memory, registered, asked, effects, finished>>

(* Mutant: 500 is not told from 200 in RemoveLink's client. *)
RemoveLinkReplyBy404(status) ==
  CASE status = 0   -> "ErrDeleteLink"
    [] status = 404 -> "LinkNotFound"
    [] OTHER        -> "Deleted"

(* The errors of the client functions and what the handlers make of them. *)
AddLinkReply(status) ==
  CASE status = 200 -> "Saved"
    [] status = 409 -> "LinkAlreadyExists"
    [] OTHER        -> "ErrAddLink"

RemoveLinkReply(status) ==
  CASE status \in {0, 500} -> "ErrDeleteLink"
    [] status = 404        -> "LinkNotFound"
    [] OTHER               -> "Deleted"

DeleteTagReply(status) ==
  CASE status \in {0, 500} -> "TagDeleteFailed"
    [] status = 404        -> "TagNotFound"
    [] OTHER               -> "Deleted"

(* What a message says of the link its command was about. *)
Says(message) ==
  CASE message = "Saved"                       -> "tracked"
    [] message \in {"Deleted", "LinkNotFound"} -> "untracked"
    [] OTHER                                   -> "nothing"

(* doWithChat reports nothing, and HandleAwaitingStart goes on regardless.  (That
   a lost one registers later shows nowhere: an AddLink may fail in any case.) *)
RegisterChat ==
  /\ pc = "RegisterChat"
  /\ registered' \in {registered, registered \cup {Chat}}
  /\ Reply("Hello")
  /\ UNCHANGED <<queue, offset, memory, tracked, late, history>>

Change(data, message) ==
  /\ tracked' = data
  /\ Reply(message)
  /\ effects' = IF effects = 2 THEN 2 ELSE effects + 1
  /\ UNCHANGED <<queue, offset, memory, registered, asked, finished>>

(* A call about a link: its end, its going on without the bot, and what the user
   is told. *)
ChangeLink(name, l, outcome, message) ==
  /\ Change(outcome.data, message)
  /\ MayGoOn(outcome.status, [name |-> name, chat |-> Chat, link |-> l])
  /\ said' = [p \in Chats \X Links |-> IF p = <<Chat, l>> THEN Says(message) ELSE said[p]]

AddLink ==
  /\ pc = "AddLink"
  /\ LET l == addRequests[Chat].link
     IN  \E o \in AddLinkOutcomes(Chat, l) :
           ChangeLink("AddLink", l, o, AddLinkReply(o.status))

RemoveLink ==
  /\ pc = "RemoveLink"
  /\ \E o \in RemoveLinkOutcomes(Chat, Given[1]) :
       ChangeLink("RemoveLink", Given[1], o, RemoveLinkReply(o.status))

(* Which tags a chat has is not kept here: any answer may come. *)
DeleteTag ==
  /\ pc = "DeleteTag"
  /\ \E status \in IF Chat \in Groups THEN {0, 400} ELSE {0, 200, 404, 500} :
       Change(tracked, DeleteTagReply(status))
  /\ UNCHANGED <<late, said>>

(* GetLinks and GetLinksByTag answer, or fail: then the user hears nothing.  An
   answer that breaks off among its rows is shorter, and passes for the whole. *)
ReadLinks(found) ==
  /\ \/ /\ Chat \notin Groups
        /\ Reply(IF found THEN "LinkList" ELSE "NoSavedPages")
        /\ UNCHANGED <<offset, States, asked, finished>>
     \/ Finish(States) /\ asked' = Asked(States, FALSE)
  /\ UNCHANGED <<queue, addRequests, scrapper, effects, said>>

AnyOfItsLinks ==
  \E found \in BOOLEAN :
    /\ found => \E l \in Links : <<Chat, l>> \in tracked
    /\ ReadLinks(found)

GetLinks == pc = "GetLinks" /\ AnyOfItsLinks

GetLinksByTag == pc = "GetLinksByTag" /\ AnyOfItsLinks

-----------------------------------------------------------------------------
Handle ==
  \/ EmptyText \/ HandleAwaitingStart
  \/ processTrackCommand \/ processUntrackCommand \/ processListCommand
  \/ processListByTagCommand \/ processDeleteTag \/ processUnknownCommand
  \/ handleAwaitingTagsForTrack \/ handleAwaitingFiltersForTrack

Call == RegisterChat \/ AddLink \/ RemoveLink \/ DeleteTag \/ GetLinks \/ GetLinksByTag

Loop == Poll \/ Handle \/ Call \/ SendOK \/ SendFails

Next ==
  \/ \E u \in Inputs : UserSends(u)
  \/ Crash \/ Restart \/ PollFails
  \/ \E call \in LateCalls : EndsLate(call)
  \/ Loop

Spec == Init /\ [][Next]_vars

(* The goroutine runs, and every call it makes returns or fails. *)
FairSpec == Spec /\ WF_vars(Loop)

-----------------------------------------------------------------------------
(* The handlers of the dialogue never find an empty slot in addRequests, which
   they would dereference (handleAwaitingTagsForTrack, ...FiltersForTrack). *)
DialogueHasRequest == \A c \in Dialogue(States) : addRequests[c].link \in Links

(* What AddLink is called with is what this chat dictated: the link it was last
   asked the tags for, its answer to that, and its answer to the question for
   filters, whatever sends failed and whatever came from other chats or came
   again.  (A question Telegram refused counts as asked.) *)
SavesWhatWasDictated ==
  pc = "AddLink" =>
    LET request == addRequests[Chat]
        answers == asked[Chat].texts
    IN  /\ request.link = asked[Chat].link
        /\ Len(answers) = 2
        /\ request.tags = answers[1] /\ request.filters = answers[2]

(* An update that Telegram delivers again after a crash has no second effect:
   one AddLink, RemoveLink or DeleteTag call at most. *)
OneEffectPerUpdate == effects <= 1

(* Telegram is told to forget an update only when its handler has returned, and
   no later one with it. *)
ConfirmsOnlyFinished ==
  [][Len(queue') < Len(queue) => finished /\ queue' = Tail(queue)]_vars

(* What a chat was last told of a link by the answer to AddLink or RemoveLink
   ("Saved", "Deleted", "LinkNotFound") is so, and stays so through failures,
   crashes and the commands of others until its next command about that link, or
   until a call given up before takes effect after all.  Nothing is said here of
   what "LinkAlreadyExists" and the lists tell the user: that may be wrong. *)
SaidIsSo ==
  \A p \in Chats \X Links :
    /\ said[p] = "tracked" => p \in tracked
    /\ said[p] = "untracked" => p \notin tracked

(* A message lies in the queue that the loop has not taken in yet. *)
Waiting ==
  \E i \in DOMAIN queue :
    /\ i > IF pc = "poll" THEN offset ELSE 1
    /\ queue[i] # NoMessage

(* While messages wait and the process lives, the loop works them off one after
   the other: a command that a user sends is taken in (the help text's "send
   /list", messages.go). *)
MessagesTakenIn ==
  <>[](Waiting /\ pc # "down") => []<><<Len(queue') < Len(queue)>>_vars
=============================================================================
