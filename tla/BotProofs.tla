------------------------------ MODULE BotProofs ------------------------------
(***************************************************************************)
(* The safety of the bot's dialogue loop, for any chats, links, updates and *)
(* any number of updates waiting.  None of it is inductive: what a call may *)
(* find depends on the handler that led to it (HandlerInv), a second effect *)
(* of an update on the states a crash leaves (EffectInv), and what AddLink  *)
(* gets on two questions asked and answered before (DictationInv).          *)
(***************************************************************************)
EXTENDS Bot, SequenceTheorems, TLAPS

Busy  == pc \in {"handle", "send"} \cup Calls
Fresh == \A c \in Chats : States[c] = "AwaitingStart"

(* An update is being handled from its poll to Finish or Stop. *)
LoopInv ==
  /\ offset = 1 => pc = "poll" /\ finished
  /\ Busy => queue # <<>> /\ queue[1] # NoMessage
  /\ pc = "down" => Fresh

(* The state of the chat under way, and what its handler has left for the call
   and the message to come; the scrapper never had links of a group. *)
HandlerInv ==
  /\ pc \in Calls => States[Chat] = "Start"
  /\ pc = "AddLink" => addRequests[Chat].link \in Links
  /\ pc = "DeleteTag" => Text[1] = "/deletetag"
  /\ pc = "send" =>
       \/ /\ reply = "AddTags"
          /\ States[Chat] = "Start"
          /\ addRequests[Chat].link \in Links
       \/ reply = "AddFilters" /\ States[Chat] = "AwaitingTags"
       \/ reply \notin {"AddTags", "AddFilters"} /\ States[Chat] \in {"AwaitingStart", "Start"}
  /\ tracked \cap (Groups \X Links) = {}

(* After its call an update is sent, confirmed, or handled again by a process
   whose chats all are where no command calls the scrapper. *)
EffectInv ==
  effects # 0 =>
    /\ effects = 1
    /\ \/ pc \in {"send", "RegisterChat"}
       \/ offset = 1
       \/ Fresh /\ pc \in {"down", "poll", "handle"}

LastIs(texts, text) == Len(texts) # 0 /\ texts[Len(texts)] = text

(* What addRequests has of a dialogue is what the user was asked and answered
   last; the update under way is its latest answer. *)
DictationInv ==
  /\ \A c \in Chats : Len(asked[c].texts) <= 2
  /\ \A c \in Dialogue(States) : asked[c].link = addRequests[c].link
  /\ \A c \in Chats :
       States[c] = "AwaitingFilters" /\ ~(pc = "handle" /\ c = Chat)
         => LastIs(asked[c].texts, addRequests[c].tags)
  /\ pc = "handle" /\ States[Chat] = "AwaitingTags" => LastIs(asked[Chat].texts, Text)
  /\ pc = "handle" /\ States[Chat] = "AwaitingFilters" =>
       /\ Len(asked[Chat].texts) = 2
       /\ asked[Chat].texts[1] = addRequests[Chat].tags
       /\ asked[Chat].texts[2] = Text
  /\ pc = "send" /\ reply = "AddFilters" =>
       LastIs(asked[Chat].texts, addRequests[Chat].tags)

IInv ==
  /\ TypeOK
  /\ LoopInv
  /\ HandlerInv
  /\ EffectInv
  /\ DialogueHasRequest
  /\ DictationInv
  /\ SavesWhatWasDictated
  /\ SaidIsSo

-----------------------------------------------------------------------------
(* The update under way is a message of a chat. *)
LEMMA UnderWay ==
  ASSUME TypeOK, LoopInv, Busy
  PROVE  /\ queue # <<>> /\ queue[1] \in Inputs \ {NoMessage}
         /\ Chat \in Chats
         /\ Text \in Texts
         /\ Text \in Seq(STRING \cup Links)
<1>1. queue # <<>> /\ queue[1] \in Inputs /\ queue[1] # NoMessage BY DEF TypeOK, LoopInv
<1> QED BY <1>1, BotAssumption DEF Chat, Text, Texts

LEMMA SameUpdate ==
  ASSUME queue' = queue
  PROVE  Chat' = Chat /\ Text' = Text
BY DEF Chat, Text

LEMMA InitIInv == Init => IInv
<1> SUFFICES ASSUME Init PROVE IInv OBVIOUS
<1> USE BotAssumption DEF Init, Calls, NoRequest, NotAsked
<1>1. TypeOK
  <2>1. queue \in Seq(Inputs) /\ Len(queue) <= MaxPending OBVIOUS
  <2>2. asked \in [Chats -> [link : Links \cup {"none"}, texts : Seq(Texts)]] OBVIOUS
  <2>3. addRequests \in [Chats -> [link : Links \cup {"none"}, tags : Texts \cup {<<>>},
                                   filters : Texts \cup {<<>>}]]
    OBVIOUS
  <2>4. States \in [Chats -> {"AwaitingStart", "Start", "AwaitingTags", "AwaitingFilters"}]
    OBVIOUS
  <2>5. offset \in {0, 1} /\ offset <= Len(queue) OBVIOUS
  <2>6. pc \in {"down", "poll", "handle", "send"} \cup Calls OBVIOUS
  <2>7. reply \in Replies \cup {"none"} OBVIOUS
  <2>8. registered \subseteq Chats /\ tracked \subseteq Chats \X Links OBVIOUS
  <2>9. effects \in 0..2 OBVIOUS
  <2>10. finished \in BOOLEAN BY Zenon
  <2>11. late \in [LateCalls -> 0..MaxLate] OBVIOUS
  <2>12. said \in [Chats \X Links -> {"nothing", "tracked", "untracked"}] OBVIOUS
  <2> QED
    BY ONLY <2>1, <2>2, <2>3, <2>4, <2>5, <2>6, <2>7, <2>8, <2>9, <2>10, <2>11, <2>12
       DEF TypeOK
<1>2. LoopInv /\ HandlerInv /\ EffectInv BY DEF LoopInv, HandlerInv, EffectInv, Busy
<1>3. Dialogue(States) = {} BY DEF Dialogue
<1>4. DialogueHasRequest BY <1>3 DEF DialogueHasRequest
<1>5. DictationInv BY <1>3 DEF DictationInv
<1>6. SavesWhatWasDictated /\ SaidIsSo BY DEF SavesWhatWasDictated, SaidIsSo
<1> QED BY <1>1, <1>2, <1>4, <1>5, <1>6 DEF IInv

-----------------------------------------------------------------------------
(* Users. *)

LEMMA UserSendsIInv == ASSUME IInv, NEW u \in Inputs, UserSends(u) PROVE IInv'
<1> USE BotAssumption
<1>1. queue' \in Seq(Inputs) /\ Len(queue') <= MaxPending /\ Len(queue') = Len(queue) + 1
  BY DEF IInv, TypeOK, UserSends
<1>2. queue # <<>> => queue' # <<>> /\ queue'[1] = queue[1]
  BY DEF IInv, TypeOK, UserSends
<1>3. UNCHANGED <<offset, pc, reply, memory, scrapper, history>> BY DEF UserSends
<1> USE <1>3 DEF memory, scrapper, history
<1>4. TypeOK' BY <1>1 DEF IInv, TypeOK
<1>5. LoopInv' BY <1>2 DEF IInv, LoopInv, Busy, Fresh, Calls
<1>6. Busy => Chat' = Chat /\ Text' = Text
  BY <1>2 DEF IInv, LoopInv, Chat, Text
<1>7. HandlerInv' BY <1>6 DEF IInv, HandlerInv, Busy, Calls
<1>8. EffectInv' BY DEF IInv, EffectInv, Fresh
<1>9. DialogueHasRequest' BY DEF IInv, DialogueHasRequest, Dialogue
<1>10. DictationInv' BY <1>6 DEF IInv, DictationInv, Busy, LastIs, Dialogue
<1>11. SavesWhatWasDictated' BY <1>6 DEF IInv, SavesWhatWasDictated, Busy, Calls
<1>12. SaidIsSo' BY DEF IInv, SaidIsSo
<1> QED BY <1>4, <1>5, <1>7, <1>8, <1>9, <1>10, <1>11, <1>12 DEF IInv

-----------------------------------------------------------------------------
(* The end of the process. *)

LEMMA StopIInv ==
  ASSUME IInv, Stop, queue' \in Seq(Inputs), Len(queue') <= MaxPending,
         UNCHANGED <<scrapper, said>>, effects' \in {0, effects}, finished' \in BOOLEAN
  PROVE  IInv'
<1> USE BotAssumption DEF Stop, scrapper, NoRequest, NotAsked
<1>1. TypeOK'
  <2>1. asked' \in [Chats -> [link : Links \cup {"none"}, texts : Seq(Texts)]] OBVIOUS
  <2>2. addRequests' \in [Chats -> [link : Links \cup {"none"}, tags : Texts \cup {<<>>},
                                    filters : Texts \cup {<<>>}]]
    OBVIOUS
  <2>3. offset' \in {0, 1} /\ offset' <= Len(queue') BY LenProperties
  <2> QED BY <2>1, <2>2, <2>3 DEF IInv, TypeOK
<1>2. Fresh' BY DEF Fresh
<1>3. LoopInv' BY <1>2 DEF LoopInv, Busy, Calls
<1>4. HandlerInv' BY DEF IInv, HandlerInv, Calls
<1>5. EffectInv' BY <1>2 DEF IInv, EffectInv
<1>6. Dialogue(States)' = {} BY DEF Dialogue
<1>7. DialogueHasRequest' BY <1>6 DEF DialogueHasRequest
<1>8. DictationInv' BY <1>6 DEF DictationInv, Dialogue
<1>9. SavesWhatWasDictated' /\ SaidIsSo' BY DEF IInv, SavesWhatWasDictated, SaidIsSo
<1> QED BY <1>1, <1>3, <1>4, <1>5, <1>7, <1>8, <1>9 DEF IInv

LEMMA CrashIInv == ASSUME IInv, Crash PROVE IInv'
BY StopIInv DEF Crash, IInv, TypeOK, scrapper

LEMMA EmptyTextIInv == ASSUME IInv, EmptyText PROVE IInv'
BY StopIInv DEF EmptyText, IInv, TypeOK, scrapper

LEMMA RestartIInv == ASSUME IInv, Restart PROVE IInv'
<1> USE DEF Restart, memory, scrapper, history
<1>1. Fresh BY DEF IInv, LoopInv
<1>2. offset = 0 BY DEF IInv, LoopInv, TypeOK
<1>3. TypeOK' BY DEF IInv, TypeOK
<1>4. LoopInv' BY <1>2 DEF LoopInv, Busy, Calls
<1>5. HandlerInv' BY DEF IInv, HandlerInv, Calls
<1>6. EffectInv' BY <1>1 DEF IInv, EffectInv, Fresh
<1>7. DialogueHasRequest' BY DEF IInv, DialogueHasRequest, Dialogue
<1>8. DictationInv' BY <1>1 DEF IInv, DictationInv, Fresh, Dialogue
<1>9. SavesWhatWasDictated' /\ SaidIsSo' BY DEF IInv, SavesWhatWasDictated, SaidIsSo
<1> QED BY <1>3, <1>4, <1>5, <1>6, <1>7, <1>8, <1>9 DEF IInv

-----------------------------------------------------------------------------
(* The polls. *)

LEMMA ConfirmDoes ==
  ASSUME TypeOK, NEW n \in {0, offset}, ConfirmUpTo(n)
  PROVE  /\ queue' \in Seq(Inputs) /\ Len(queue') <= MaxPending
         /\ effects' \in {0, effects} /\ (n = 0 => effects' = effects)
         /\ (n # 0 => effects' = 0)
         /\ finished' \in BOOLEAN
         /\ n = 0 => queue' = queue
         /\ n = 1 => queue' = Tail(queue) /\ Len(queue') < Len(queue)
<1> USE BotAssumption
<1>1. n \in {0, 1} /\ n <= Len(queue) /\ queue \in Seq(Inputs) /\ Len(queue) \in Nat
  BY LenProperties DEF TypeOK
<1>2. CASE n = 0
  <2>1. queue' = SubSeq(queue, 1, Len(queue)) BY <1>2 DEF ConfirmUpTo
  <2>2. queue' = queue BY <1>1, <2>1
  <2> QED BY <1>2, <2>2 DEF TypeOK, ConfirmUpTo
<1>3. CASE n = 1
  <2>1. queue' = SubSeq(queue, 2, Len(queue)) BY <1>3 DEF ConfirmUpTo
  <2>2. queue' = Tail(queue) BY <1>1, <1>3, <2>1
  <2>3. queue # <<>> BY <1>1, <1>3
  <2>4. queue' \in Seq(Inputs) /\ Len(queue') = Len(queue) - 1
    BY <1>1, <2>2, <2>3, HeadTailProperties
  <2>5. Len(queue') <= MaxPending /\ Len(queue') < Len(queue)
    BY <1>1, <2>4, LenProperties DEF TypeOK
  <2>6. effects' = 0 BY <1>3 DEF ConfirmUpTo
  <2>7. finished' \in BOOLEAN BY Zenon DEF ConfirmUpTo
  <2> QED BY <1>3, <2>2, <2>4, <2>5, <2>6, <2>7
<1> QED BY <1>1, <1>2, <1>3

LEMMA PollFailsIInv == ASSUME IInv, PollFails PROVE IInv'
<1>1. PICK n \in {0, offset} : ConfirmUpTo(n) BY DEF PollFails
<1>2. TypeOK BY DEF IInv
<1> QED BY <1>1, <1>2, ConfirmDoes, StopIInv DEF PollFails

LEMMA TakenInDoes ==
  ASSUME NEW record \in [link : Links \cup {"none"}, texts : Seq(Texts)],
         Len(record.texts) <= 2, NEW text \in Texts
  PROVE  /\ TakenIn(record, text) \in [link : Links \cup {"none"}, texts : Seq(Texts)]
         /\ Len(TakenIn(record, text).texts) <= 2
         /\ TakenIn(record, text).link = record.link
         /\ record.link \in Links =>
              /\ LastIs(TakenIn(record, text).texts, text)
              /\ \A before : LastIs(record.texts, before) =>
                   /\ Len(TakenIn(record, text).texts) = 2
                   /\ TakenIn(record, text).texts[1] = before
                   /\ TakenIn(record, text).texts[2] = text
<1> DEFINE all == Append(record.texts, text)
           texts == IF Len(all) > 2 THEN Tail(all) ELSE all
<1>1. CASE record.link = "none" BY <1>1, BotAssumption DEF TakenIn
<1>2. CASE record.link # "none"
  <2>1. TakenIn(record, text) = [record EXCEPT !.texts = texts] BY <1>2 DEF TakenIn
  <2>2. /\ all \in Seq(Texts) /\ Len(all) = Len(record.texts) + 1
        /\ Len(all) \in 1..3 /\ all[Len(all)] = text
        /\ \A i \in 1..Len(record.texts) : all[i] = record.texts[i]
    BY LenProperties, AppendProperties
  <2>3. Len(all) > 2 => /\ Tail(all) \in Seq(Texts) /\ Len(Tail(all)) = 2
                        /\ Tail(all)[1] = all[2] /\ Tail(all)[2] = all[3]
    <3> HIDE DEF all
    <3> QED BY <2>2
  <2>4. texts \in Seq(Texts) /\ Len(texts) \in 1..2 /\ texts[Len(texts)] = text
    <3> HIDE DEF all
    <3> QED BY <2>2, <2>3
  <2>5. ASSUME NEW before, LastIs(record.texts, before)
        PROVE  Len(texts) = 2 /\ texts[1] = before /\ texts[2] = text
    <3>0. Len(record.texts) \in Nat
      <4>1. record.texts \in Seq(Texts) OBVIOUS
      <4> QED BY <4>1, LenProperties
    <3>1. Len(record.texts) \in 1..2
      <4>1. Len(record.texts) # 0 BY Zenon, <2>5 DEF LastIs
      <4>2. \A n \in Nat : n # 0 /\ n <= 2 => n \in 1..2 OBVIOUS
      <4> QED BY Zenon, <3>0, <4>1, <4>2
    <3>2. record.texts[Len(record.texts)] = before BY Zenon, <2>5 DEF LastIs
    <3>3. all[Len(all) - 1] = before
      <4> HIDE DEF all
      <4> QED BY <2>2, <3>1, <3>2
    <3> HIDE DEF all
    <3> QED BY <2>2, <2>3, <3>1, <3>3
  <2>6. TakenIn(record, text).texts = texts /\ TakenIn(record, text).link = record.link
    <3> HIDE DEF texts
    <3> QED BY <2>1
  <2>7. TakenIn(record, text) \in [link : Links \cup {"none"}, texts : Seq(Texts)]
    <3> HIDE DEF texts
    <3> QED BY <2>1, <2>4
  <2> HIDE DEF texts
  <2>8. Len(texts) <= 2 /\ Len(texts) # 0
    <3>1. \A n \in 1..2 : n <= 2 /\ n # 0 OBVIOUS
    <3> QED BY ONLY <2>4, <3>1, Zenon
  <2>9. LastIs(TakenIn(record, text).texts, text)
    <3>1. LastIs(texts, text) BY ONLY <2>4, <2>8, Zenon DEF LastIs
    <3> QED BY ONLY <2>6, <3>1, Zenon
  <2>10. \A before : LastIs(record.texts, before) =>
           /\ Len(TakenIn(record, text).texts) = 2
           /\ TakenIn(record, text).texts[1] = before
           /\ TakenIn(record, text).texts[2] = text
    BY ONLY <2>5, <2>6, Zenon
  <2> QED BY ONLY <2>6, <2>7, <2>8, <2>9, <2>10, Zenon
<1> QED BY ONLY <1>1, <1>2, Zenon

LEMMA PollIInv == ASSUME IInv, Poll PROVE IInv'
<1> USE BotAssumption
<1> DEFINE taken == queue' # <<>> /\ Head(queue') # NoMessage
<1>1. /\ pc = "poll" /\ ConfirmUpTo(offset) /\ offset' = 0
      /\ UNCHANGED <<reply, States, addRequests, registered, tracked, late, said>>
  BY DEF Poll, memory, scrapper
<1>2. /\ queue' \in Seq(Inputs) /\ Len(queue') <= MaxPending
      /\ offset # 0 => effects' = 0
      /\ effects' \in {0, effects} /\ finished' \in BOOLEAN
  BY <1>1, ConfirmDoes DEF IInv
<1>3. taken => /\ Chat' = Head(queue').chat /\ Text' = Head(queue').text
               /\ Chat' \in Chats /\ Text' \in Texts
               /\ queue'[1] # NoMessage
  <2> SUFFICES ASSUME taken PROVE /\ Head(queue') = queue'[1]
                                  /\ queue'[1] \in Inputs \ {NoMessage}
    BY DEF Chat, Text, Texts
  <2> QED BY <1>2, HeadTailProperties
<1>4. \/ /\ taken /\ pc' = "handle"
         /\ asked' = [asked EXCEPT ![Chat'] = TakenIn(@, Text')]
      \/ ~taken /\ pc' = pc /\ asked' = asked
  BY <1>3 DEF Poll
<1>5. \A c \in Chats : /\ asked[c] \in [link : Links \cup {"none"}, texts : Seq(Texts)]
                       /\ Len(asked[c].texts) <= 2
  BY DEF IInv, TypeOK, DictationInv
<1>6. asked' \in [Chats -> [link : Links \cup {"none"}, texts : Seq(Texts)]]
  <2>1. asked \in [Chats -> [link : Links \cup {"none"}, texts : Seq(Texts)]]
    BY DEF IInv, TypeOK
  <2>2. taken => TakenIn(asked[Chat'], Text')
                   \in [link : Links \cup {"none"}, texts : Seq(Texts)]
    BY <1>3, <1>5, TakenInDoes
  <2> HIDE DEF taken
  <2> QED BY <1>3, <1>4, <2>1, <2>2
<1>7. TypeOK'
  <2>1. offset' <= Len(queue') BY <1>1, <1>2, LenProperties
  <2>2. pc' \in {"poll", "handle"} BY <1>1, <1>4
  <2> QED BY <1>1, <1>2, <1>6, <2>1, <2>2 DEF IInv, TypeOK
<1>8. LoopInv' BY <1>1, <1>3, <1>4 DEF LoopInv, Busy, Calls
<1>9. HandlerInv' BY <1>1, <1>4 DEF IInv, HandlerInv, Calls
<1>10. EffectInv'
  <2> SUFFICES ASSUME effects' # 0 PROVE effects' = 1 /\ Fresh' /\ pc' \in {"poll", "handle"}
    BY DEF EffectInv
  <2>1. offset = 0 /\ effects # 0 /\ effects' = effects BY <1>2
  <2> QED BY <1>1, <1>4, <2>1 DEF IInv, EffectInv, Fresh
<1>11. DialogueHasRequest' BY <1>1 DEF IInv, DialogueHasRequest, Dialogue
<1>12. DictationInv'
  <2>1. CASE ~taken BY <2>1, <1>1, <1>4 DEF IInv, DictationInv, Dialogue
  <2>2. CASE taken
    <3>1. pc' = "handle" /\ Chat' \in Chats /\ Text' \in Texts
          /\ asked'[Chat'] = TakenIn(asked[Chat'], Text')
          /\ \A c \in Chats \ {Chat'} : asked'[c] = asked[c]
      BY <1>3, <1>4, <2>2 DEF IInv, TypeOK
    <3> DEFINE record == asked[Chat']
    <3>10. record \in [link : Links \cup {"none"}, texts : Seq(Texts)] /\ Len(record.texts) <= 2
      BY <1>5, <3>1
    <3> HIDE DEF record
    <3>11. /\ Len(TakenIn(record, Text').texts) <= 2
           /\ TakenIn(record, Text').link = record.link
           /\ record.link \in Links => LastIs(TakenIn(record, Text').texts, Text')
      BY ONLY <3>1, <3>10, TakenInDoes
    <3> USE DEF record
    <3>2. \A c \in Chats : Len(asked'[c].texts) <= 2 /\ asked'[c].link = asked[c].link
      <4> SUFFICES ASSUME NEW c \in Chats
                   PROVE  Len(asked'[c].texts) <= 2 /\ asked'[c].link = asked[c].link
        OBVIOUS
      <4>1. CASE c = Chat' BY ONLY <3>1, <3>11, <4>1
      <4>2. CASE c # Chat' BY ONLY <1>5, <3>1, <4>2, c \in Chats
      <4> QED BY <4>1, <4>2
    <3>3. \A c \in Dialogue(States) :
            asked[c].link = addRequests[c].link /\ asked[c].link \in Links
      BY DEF IInv, DictationInv, DialogueHasRequest
    <3>4. \A c \in Chats : States[c] = "AwaitingFilters"
                             => LastIs(asked[c].texts, addRequests[c].tags)
      BY <1>1 DEF IInv, DictationInv
    <3>5. States[Chat'] \in {"AwaitingTags", "AwaitingFilters"}
            => LastIs(asked'[Chat'].texts, Text')
      BY <1>5, <3>1, <3>3, TakenInDoes DEF Dialogue
    <3>6. States[Chat'] = "AwaitingFilters" =>
            /\ Len(asked'[Chat'].texts) = 2
            /\ asked'[Chat'].texts[1] = addRequests[Chat'].tags
            /\ asked'[Chat'].texts[2] = Text'
      <4> SUFFICES ASSUME States[Chat'] = "AwaitingFilters"
                   PROVE  /\ Len(asked'[Chat'].texts) = 2
                          /\ asked'[Chat'].texts[1] = addRequests[Chat'].tags
                          /\ asked'[Chat'].texts[2] = Text'
        OBVIOUS
      <4>1. asked[Chat'].link \in Links BY <3>1, <3>3 DEF Dialogue
      <4>2. LastIs(asked[Chat'].texts, addRequests[Chat'].tags) BY <3>1, <3>4
      <4>3. \A before : LastIs(asked[Chat'].texts, before) =>
              /\ Len(TakenIn(asked[Chat'], Text').texts) = 2
              /\ TakenIn(asked[Chat'], Text').texts[1] = before
              /\ TakenIn(asked[Chat'], Text').texts[2] = Text'
        BY <1>5, <3>1, <4>1, TakenInDoes
      <4> QED BY <3>1, <4>2, <4>3
    <3>7. Dialogue(States)' = Dialogue(States) BY <1>1 DEF Dialogue
    <3>8. \A c \in Dialogue(States)' : asked'[c].link = addRequests'[c].link
      BY <1>1, <3>2, <3>3, <3>7 DEF Dialogue
    <3>9. ASSUME NEW c \in Chats, States'[c] = "AwaitingFilters", c # Chat'
          PROVE  LastIs(asked'[c].texts, addRequests'[c].tags)
      BY <1>1, <3>1, <3>4, <3>9
    <3> QED BY <1>1, <3>1, <3>2, <3>5, <3>6, <3>8, <3>9 DEF DictationInv
  <2> QED BY <2>1, <2>2
<1>13. SavesWhatWasDictated' /\ SaidIsSo'
  BY <1>1, <1>4 DEF IInv, SavesWhatWasDictated, SaidIsSo
<1> QED BY <1>7, <1>8, <1>9, <1>10, <1>11, <1>12, <1>13 DEF IInv

-----------------------------------------------------------------------------
(* The end of a handler: what is left to show of it is what the states it leaves
   promise of the chats in dialogues. *)

StateNames == {"AwaitingStart", "Start", "AwaitingTags", "AwaitingFilters"}

LEMMA FinishIInv ==
  ASSUME IInv, Busy, NEW states \in [Chats -> StateNames], Finish(states),
         UNCHANGED <<queue, addRequests, scrapper, effects, said>>, effects \in {0, 1},
         asked' \in [Chats -> [link : Links \cup {"none"}, texts : Seq(Texts)]],
         \A c \in Chats : Len(asked'[c].texts) <= 2,
         \A c \in Dialogue(states) :
           /\ addRequests[c].link \in Links
           /\ asked'[c].link = addRequests[c].link,
         \A c \in Chats : states[c] = "AwaitingFilters"
                            => LastIs(asked'[c].texts, addRequests[c].tags)
  PROVE  IInv'
<1> USE DEF Finish, scrapper, StateNames
<1>1. TypeOK'
  <2>1. Len(queue) # 0 /\ Len(queue) \in Nat
    BY UnderWay, EmptySeq, LenProperties DEF IInv, TypeOK
  <2> QED BY <2>1 DEF IInv, TypeOK
<1>2. LoopInv' BY DEF LoopInv, Busy, Calls
<1>3. HandlerInv' BY DEF IInv, HandlerInv, Calls
<1>4. EffectInv' BY DEF EffectInv
<1>5. Dialogue(States)' = Dialogue(states) BY DEF Dialogue
<1>6. DialogueHasRequest' BY <1>5 DEF DialogueHasRequest
<1>7. DictationInv' BY <1>5 DEF DictationInv
<1>8. SavesWhatWasDictated' /\ SaidIsSo' BY DEF IInv, SavesWhatWasDictated, SaidIsSo
<1> QED BY <1>1, <1>2, <1>3, <1>4, <1>6, <1>7, <1>8 DEF IInv

(* What the user was asked, as a handler leaves it. *)
LEMMA AskedDoes ==
  ASSUME IInv, Busy, NEW states, NEW delivered \in BOOLEAN, asked' = Asked(states, delivered)
  PROVE  /\ asked' \in [Chats -> [link : Links \cup {"none"}, texts : Seq(Texts)]]
         /\ \A c \in Chats : Len(asked'[c].texts) <= 2
         /\ \A c \in Dialogue(states) \ {Chat} : asked'[c] = asked[c]
         /\ Chat \in Dialogue(states) =>
              asked'[Chat] = IF delivered /\ reply = "AddTags"
                             THEN [link |-> addRequests[Chat].link, texts |-> <<>>]
                             ELSE asked[Chat]
<1>1. Chat \in Chats BY UnderWay DEF IInv
<1>2. \A c \in Chats :
        /\ asked[c] \in [link : Links \cup {"none"}, texts : Seq(Texts)]
        /\ Len(asked[c].texts) <= 2
        /\ addRequests[c].link \in Links \cup {"none"}
  BY DEF IInv, TypeOK, DictationInv
<1>3. <<>> \in Seq(Texts) /\ Len(<<>>) = 0 BY EmptySeq
<1>4. \A c \in Chats :
        asked'[c] \in {[link |-> addRequests[c].link, texts |-> <<>>], NotAsked, asked[c]}
  BY DEF Asked
<1>5. \A c \in Chats : /\ asked'[c] \in [link : Links \cup {"none"}, texts : Seq(Texts)]
                       /\ Len(asked'[c].texts) <= 2
  <2> SUFFICES ASSUME NEW c \in Chats
               PROVE  /\ asked'[c] \in [link : Links \cup {"none"}, texts : Seq(Texts)]
                      /\ Len(asked'[c].texts) <= 2
    OBVIOUS
  <2>1. CASE asked'[c] = asked[c] BY <1>2, <2>1
  <2>2. CASE asked'[c] = NotAsked
    <3>1. asked'[c].texts = <<>> BY <2>2 DEF NotAsked
    <3> QED BY <1>3, <2>2, <3>1 DEF NotAsked
  <2>3. CASE asked'[c] = [link |-> addRequests[c].link, texts |-> <<>>]
    <3>1. asked'[c].texts = <<>> BY <2>3
    <3> QED BY <1>2, <1>3, <2>3, <3>1
  <2> QED BY <1>4, <2>1, <2>2, <2>3
<1>6. \A c \in Dialogue(states) :
        asked'[c] = IF c = Chat /\ delivered /\ reply = "AddTags"
                    THEN [link |-> addRequests[c].link, texts |-> <<>>]
                    ELSE asked[c]
  BY DEF Asked, Dialogue
<1>7. asked' = [c \in Chats |-> asked'[c]] BY DEF Asked
<1> QED BY <1>1, <1>5, <1>6, <1>7

LEMMA SendOKIInv == ASSUME IInv, SendOK PROVE IInv'
<1> DEFINE states == [States EXCEPT ![Chat] = After(reply, @)]
<1>1. /\ pc = "send" /\ Finish(states) /\ asked' = Asked(states, TRUE)
      /\ UNCHANGED <<queue, addRequests, scrapper, effects, said>>
  BY DEF SendOK
<1>2. Busy /\ Chat \in Chats BY <1>1, UnderWay DEF IInv, Busy
<1>3. States \in [Chats -> StateNames] BY DEF IInv, TypeOK, StateNames
<1>4. states \in [Chats -> StateNames] BY <1>2, <1>3 DEF After, StateNames
<1>5. /\ states[Chat] = After(reply, States[Chat])
      /\ \A c \in Chats \ {Chat} : states[c] = States[c]
  BY <1>2, <1>3
<1>6. effects \in {0, 1} BY DEF IInv, EffectInv
<1> HIDE DEF states
<1>7. /\ asked' \in [Chats -> [link : Links \cup {"none"}, texts : Seq(Texts)]]
      /\ \A c \in Chats : Len(asked'[c].texts) <= 2
      /\ \A c \in Dialogue(states) \ {Chat} : asked'[c] = asked[c]
      /\ Chat \in Dialogue(states) =>
           asked'[Chat] = IF TRUE /\ reply = "AddTags"
                          THEN [link |-> addRequests[Chat].link, texts |-> <<>>]
                          ELSE asked[Chat]
  BY <1>1, <1>2, AskedDoes
<1>8. \/ reply = "AddTags" /\ states[Chat] = "AwaitingTags" /\ addRequests[Chat].link \in Links
      \/ /\ reply = "AddFilters" /\ states[Chat] = "AwaitingFilters"
         /\ Chat \in Dialogue(States)
         /\ LastIs(asked[Chat].texts, addRequests[Chat].tags)
      \/ reply # "AddTags" /\ Chat \notin Dialogue(states)
  BY <1>1, <1>2, <1>5 DEF IInv, HandlerInv, DictationInv, After, Dialogue
<1>9. \A c \in Dialogue(States) :
        addRequests[c].link \in Links /\ asked[c].link = addRequests[c].link
  BY DEF IInv, DialogueHasRequest, DictationInv
<1>10. ASSUME NEW c \in Dialogue(states)
       PROVE  addRequests[c].link \in Links /\ asked'[c].link = addRequests[c].link
  <2>1. CASE c = Chat BY <1>7, <1>8, <1>9, <1>10, <2>1
  <2>2. CASE c # Chat
    <3>1. c \in Dialogue(States) BY <1>5, <1>10, <2>2 DEF Dialogue
    <3> QED BY <1>7, <1>9, <1>10, <2>2, <3>1
  <2> QED BY <2>1, <2>2
<1>11. ASSUME NEW c \in Chats, states[c] = "AwaitingFilters"
       PROVE  LastIs(asked'[c].texts, addRequests[c].tags)
  <2>1. c \in Dialogue(states) BY <1>11 DEF Dialogue
  <2>2. CASE c = Chat BY <1>7, <1>8, <1>11, <2>1, <2>2
  <2>3. CASE c # Chat
    <3>1. States[c] = "AwaitingFilters" BY <1>5, <1>11, <2>3
    <3>2. LastIs(asked[c].texts, addRequests[c].tags)
      BY <1>1, <3>1 DEF IInv, DictationInv
    <3> QED BY <1>7, <2>1, <2>3, <3>2
  <2> QED BY <2>2, <2>3
<1> QED BY <1>1, <1>2, <1>4, <1>6, <1>7, <1>10, <1>11, FinishIInv

(* A handler that returns with the states as they were. *)
LEMMA ReturnIInv ==
  ASSUME IInv, Busy, pc # "handle", Finish(States),
         UNCHANGED <<queue, addRequests, scrapper, effects, said>>,
         NEW delivered \in BOOLEAN, asked' = Asked(States, delivered)
  PROVE  IInv'
<1>1. States \in [Chats -> StateNames] BY DEF IInv, TypeOK, StateNames
<1>2. Chat \in Chats /\ effects \in {0, 1} BY UnderWay DEF IInv, EffectInv
<1>3. /\ asked' \in [Chats -> [link : Links \cup {"none"}, texts : Seq(Texts)]]
      /\ \A c \in Chats : Len(asked'[c].texts) <= 2
      /\ \A c \in Dialogue(States) \ {Chat} : asked'[c] = asked[c]
      /\ Chat \in Dialogue(States) =>
           asked'[Chat] = IF delivered /\ reply = "AddTags"
                          THEN [link |-> addRequests[Chat].link, texts |-> <<>>]
                          ELSE asked[Chat]
  BY AskedDoes
<1>4. \/ reply # "AddTags"
      \/ Chat \notin Dialogue(States)
  <2>1. CASE pc = "send" BY <2>1 DEF IInv, HandlerInv, Dialogue
  <2>2. CASE pc \in Calls BY <2>2 DEF IInv, HandlerInv, Dialogue
  <2> QED BY <2>1, <2>2 DEF Busy
<1>5. \A c \in Dialogue(States) : asked'[c] = asked[c] BY <1>3, <1>4
<1>6. \A c \in Dialogue(States) :
        addRequests[c].link \in Links /\ asked'[c].link = addRequests[c].link
  BY <1>5 DEF IInv, DialogueHasRequest, DictationInv
<1>7. \A c \in Chats : States[c] = "AwaitingFilters"
                         => LastIs(asked'[c].texts, addRequests[c].tags)
  BY <1>5 DEF IInv, DictationInv, Dialogue
<1> QED BY <1>1, <1>2, <1>3, <1>6, <1>7, FinishIInv

LEMMA SendFailsIInv == ASSUME IInv, SendFails PROVE IInv'
<1>1. PICK delivered \in BOOLEAN : asked' = Asked(States, delivered) BY DEF SendFails
<1> QED BY <1>1, ReturnIInv DEF SendFails, Busy

-----------------------------------------------------------------------------
(* The handlers, up to their call or message. *)

RequestTypes == [link : Links \cup {"none"}, tags : Texts \cup {<<>>},
                 filters : Texts \cup {<<>>}]

LEMMA HandlerIInv ==
  ASSUME IInv, pc = "handle", pc' \in {"send"} \cup Calls,
         UNCHANGED <<queue, offset, scrapper, history>>,
         reply' \in (Replies \cup {"none"}),
         States' \in [Chats -> StateNames],
         \A c \in Chats \ {Chat} : States'[c] = States[c],
         addRequests' \in [Chats -> RequestTypes],
         \A c \in Chats \ {Chat} : addRequests'[c] = addRequests[c],
         HandlerInv',
         States[Chat] = "AwaitingStart" => pc' \in {"send", "RegisterChat"},
         Chat \in Dialogue(States') =>
           Chat \in Dialogue(States) /\ addRequests'[Chat].link = addRequests[Chat].link,
         States'[Chat] # "AwaitingFilters",
         pc' = "send" /\ reply' = "AddFilters" =>
           LastIs(asked[Chat].texts, addRequests'[Chat].tags),
         SavesWhatWasDictated'
  PROVE  IInv'
<1> USE DEF scrapper, history
<1>1. Chat \in Chats /\ Chat' = Chat /\ Text' = Text
  BY UnderWay, SameUpdate DEF IInv, Busy
<1>2. TypeOK' BY DEF IInv, TypeOK, StateNames, RequestTypes
<1>3. LoopInv' BY DEF IInv, LoopInv, Busy, Calls
<1>4. EffectInv'
  <2> SUFFICES ASSUME effects # 0 PROVE effects = 1 /\ pc' \in {"send", "RegisterChat"}
    BY DEF EffectInv
  <2>1. effects = 1 /\ Fresh BY DEF IInv, EffectInv, LoopInv
  <2> QED BY <1>1, <2>1 DEF Fresh
<1>5. \A c \in Dialogue(States') :
        c \in Dialogue(States) /\ addRequests'[c].link = addRequests[c].link
  BY DEF Dialogue
<1>6. DialogueHasRequest' BY <1>5 DEF IInv, DialogueHasRequest
<1>7. DictationInv'
  <2>1. \A c \in Dialogue(States') : asked'[c].link = addRequests'[c].link
    BY <1>5 DEF IInv, DictationInv
  <2>2. \A c \in Chats : States'[c] = "AwaitingFilters"
                           => LastIs(asked'[c].texts, addRequests'[c].tags)
    BY DEF IInv, DictationInv
  <2>3. pc' # "handle" BY DEF Calls
  <2> QED BY <1>1, <2>1, <2>2, <2>3 DEF IInv, DictationInv
<1>8. SaidIsSo' BY DEF IInv, SaidIsSo
<1> QED BY <1>2, <1>3, <1>4, <1>6, <1>7, <1>8 DEF IInv

LEMMA AwaitingStartIInv == ASSUME IInv, HandleAwaitingStart PROVE IInv'
<1> USE DEF HandleAwaitingStart, Handling, Reply
<1>1. Chat \in Chats /\ Chat' = Chat /\ Text' = Text
  BY UnderWay, SameUpdate DEF IInv, Busy
<1>2. /\ States \in [Chats -> StateNames] /\ addRequests \in [Chats -> RequestTypes]
      /\ reply \in (Replies \cup {"none"})
  BY DEF IInv, TypeOK, StateNames, RequestTypes
<1>3. UNCHANGED <<queue, offset, addRequests, scrapper, history>> OBVIOUS
<1>4. \/ pc' = "RegisterChat" /\ States' = [States EXCEPT ![Chat] = "Start"] /\ reply' = reply
      \/ pc' = "send" /\ States' = States /\ reply' \in {"Help", "UnknownCommand"}
  OBVIOUS
<1>5. /\ States' \in [Chats -> StateNames]
      /\ \A c \in Chats \ {Chat} : States'[c] = States[c]
      /\ States'[Chat] \in {"AwaitingStart", "Start"}
  BY <1>1, <1>2, <1>4 DEF StateNames
<1>6. HandlerInv' BY <1>1, <1>2, <1>3, <1>4 DEF IInv, HandlerInv, Calls, scrapper
<1>7. SavesWhatWasDictated' BY <1>4 DEF SavesWhatWasDictated
<1>8. reply' \in (Replies \cup {"none"}) BY <1>2, <1>4 DEF Replies
<1>9. pc = "handle" /\ pc' \in {"send", "RegisterChat"} BY <1>4
<1> QED BY <1>1, <1>2, <1>3, <1>4, <1>5, <1>6, <1>7, <1>8, <1>9, HandlerIInv
        DEF Calls, Dialogue

(* A command: it may change the chat's request, and never the states. *)
LEMMA CommandIInv ==
  ASSUME IInv, Handling("Start"), UNCHANGED <<queue, offset, States, scrapper, history>>,
         pc' \in {"send", "RemoveLink", "DeleteTag", "GetLinks", "GetLinksByTag"},
         reply' \in (Replies \cup {"none"}),
         addRequests' \in [Chats -> RequestTypes],
         \A c \in Chats \ {Chat} : addRequests'[c] = addRequests[c],
         pc' = "DeleteTag" => Text[1] = "/deletetag",
         pc' = "send" /\ reply' = "AddTags" => addRequests'[Chat].link \in Links,
         pc' = "send" => reply' # "AddFilters"
  PROVE  IInv'
<1> USE DEF Handling
<1>1. Chat \in Chats /\ Chat' = Chat /\ Text' = Text
  BY UnderWay, SameUpdate DEF IInv, Busy
<1>2. States \in [Chats -> StateNames] BY DEF IInv, TypeOK, StateNames
<1>3. HandlerInv' BY <1>1 DEF IInv, HandlerInv, scrapper
<1>4. SavesWhatWasDictated' BY DEF SavesWhatWasDictated
<1>5. Chat \notin Dialogue(States') BY DEF Dialogue
<1> QED BY <1>1, <1>2, <1>3, <1>4, <1>5, HandlerIInv DEF Calls

LEMMA TrackIInv == ASSUME IInv, processTrackCommand PROVE IInv'
<1> USE DEF processTrackCommand, Command, Reply
<1>1. Chat \in Chats BY UnderWay DEF IInv, Busy, Handling
<1>2. addRequests \in [Chats -> RequestTypes] BY DEF IInv, TypeOK, RequestTypes
<1>3. \/ UNCHANGED addRequests /\ reply' \in {"GotNoLink", "WrongFormatLink"}
      \/ /\ addRequests' = [addRequests EXCEPT ![Chat] = [NoRequest EXCEPT !.link = Given[1]]]
         /\ Given[1] \in Links
         /\ reply' = "AddTags"
  BY DEF isValidURL
<1>4. /\ addRequests' \in [Chats -> RequestTypes]
      /\ \A c \in Chats \ {Chat} : addRequests'[c] = addRequests[c]
      /\ reply' = "AddTags" => addRequests'[Chat].link \in Links
  BY <1>1, <1>2, <1>3 DEF RequestTypes, NoRequest
<1>5. pc' = "send" OBVIOUS
<1>6. reply' \in (Replies \cup {"none"}) /\ reply' # "AddFilters" BY <1>3 DEF Replies
<1> QED BY <1>4, <1>5, <1>6, CommandIInv

(* The commands that leave the requests alone. *)
LEMMA OtherCommandIInv ==
  ASSUME IInv, Handling("Start"), UNCHANGED <<queue, offset, memory, scrapper, history>>,
         \/ /\ pc' = "send"
            /\ reply' \in {"GotNoLink", "NoTags", "NoTag", "TooManyTags", "Help",
                           "UnknownCommand"}
         \/ /\ pc' \in {"RemoveLink", "DeleteTag", "GetLinks", "GetLinksByTag"}
            /\ reply' = reply,
         pc' = "DeleteTag" => Text[1] = "/deletetag"
  PROVE  IInv'
<1>1. addRequests \in [Chats -> RequestTypes] /\ reply \in (Replies \cup {"none"})
  BY DEF IInv, TypeOK, RequestTypes
<1>2. reply' \in (Replies \cup {"none"}) BY <1>1 DEF Replies
<1> QED BY <1>1, <1>2, CommandIInv DEF memory

LEMMA UntrackIInv == ASSUME IInv, processUntrackCommand PROVE IInv'
BY OtherCommandIInv DEF processUntrackCommand, Command, Reply

LEMMA ListIInv == ASSUME IInv, processListCommand PROVE IInv'
BY OtherCommandIInv DEF processListCommand, Command, memory

LEMMA ListByTagIInv == ASSUME IInv, processListByTagCommand PROVE IInv'
BY OtherCommandIInv DEF processListByTagCommand, Command, Reply

LEMMA DeleteTagCommandIInv == ASSUME IInv, processDeleteTag PROVE IInv'
BY OtherCommandIInv DEF processDeleteTag, Command, Reply

LEMMA UnknownIInv == ASSUME IInv, processUnknownCommand PROVE IInv'
BY OtherCommandIInv DEF processUnknownCommand, Reply

LEMMA TagsIInv == ASSUME IInv, handleAwaitingTagsForTrack PROVE IInv'
<1> USE DEF handleAwaitingTagsForTrack, Handling, Reply
<1>1. Chat \in Chats /\ Text \in Texts /\ Chat' = Chat /\ Text' = Text
  BY UnderWay, SameUpdate DEF IInv, Busy
<1>2. addRequests \in [Chats -> RequestTypes] /\ States \in [Chats -> StateNames]
  BY DEF IInv, TypeOK, RequestTypes, StateNames
<1>3. /\ addRequests' \in [Chats -> RequestTypes]
      /\ \A c \in Chats \ {Chat} : addRequests'[c] = addRequests[c]
      /\ addRequests'[Chat].link = addRequests[Chat].link
      /\ addRequests'[Chat].tags = Text
  BY <1>1, <1>2 DEF RequestTypes
<1>4. LastIs(asked[Chat].texts, addRequests'[Chat].tags)
  BY <1>3 DEF IInv, DictationInv
<1>5. HandlerInv' BY <1>1 DEF IInv, HandlerInv, Calls, scrapper
<1>6. SavesWhatWasDictated' BY DEF SavesWhatWasDictated
<1>7. Chat \in Dialogue(States) BY <1>1 DEF Dialogue
<1>8. pc = "handle" /\ pc' = "send" /\ reply' = "AddFilters" OBVIOUS
<1>9. /\ UNCHANGED <<queue, offset, scrapper, history>>
      /\ States' = States /\ States[Chat] = "AwaitingTags"
  OBVIOUS
<1>10. reply' \in (Replies \cup {"none"}) BY <1>8 DEF Replies
<1> QED BY ONLY IInv, <1>1, <1>2, <1>3, <1>4, <1>5, <1>6, <1>7, <1>8, <1>9, <1>10, HandlerIInv
        DEF Calls

LEMMA FiltersIInv == ASSUME IInv, handleAwaitingFiltersForTrack PROVE IInv'
<1> USE DEF handleAwaitingFiltersForTrack, Handling
<1>1. Chat \in Chats /\ Text \in Texts /\ Chat' = Chat /\ Text' = Text
  BY UnderWay, SameUpdate DEF IInv, Busy
<1>2. /\ addRequests \in [Chats -> RequestTypes] /\ States \in [Chats -> StateNames]
      /\ reply \in (Replies \cup {"none"})
  BY DEF IInv, TypeOK, RequestTypes, StateNames
<1>3. /\ addRequests' \in [Chats -> RequestTypes]
      /\ \A c \in Chats \ {Chat} : addRequests'[c] = addRequests[c]
      /\ addRequests'[Chat].link = addRequests[Chat].link
      /\ addRequests'[Chat].tags = addRequests[Chat].tags
      /\ addRequests'[Chat].filters = Text
  BY <1>1, <1>2 DEF RequestTypes
<1>4. /\ States' \in [Chats -> StateNames]
      /\ \A c \in Chats \ {Chat} : States'[c] = States[c]
      /\ States'[Chat] = "Start"
  BY <1>1, <1>2 DEF StateNames
<1>5. Chat \in Dialogue(States) BY <1>1 DEF Dialogue
<1>6. addRequests[Chat].link \in Links /\ asked[Chat].link = addRequests[Chat].link
  BY <1>5 DEF IInv, DialogueHasRequest, DictationInv
<1>7. HandlerInv'
  BY <1>1, <1>3, <1>4, <1>6 DEF IInv, HandlerInv, Calls, scrapper
<1>8. SavesWhatWasDictated'
  BY <1>1, <1>3, <1>6 DEF IInv, DictationInv, SavesWhatWasDictated, history
<1>9. pc = "handle" /\ pc' = "AddLink" /\ reply' = reply OBVIOUS
<1>10. /\ UNCHANGED <<queue, offset, scrapper, history>>
       /\ States[Chat] = "AwaitingFilters"
  OBVIOUS
<1> QED BY ONLY IInv, <1>1, <1>2, <1>3, <1>4, <1>5, <1>7, <1>8, <1>9, <1>10, HandlerIInv
        DEF Calls, Dialogue

LEMMA HandleIInv == ASSUME IInv, Handle PROVE IInv'
BY EmptyTextIInv, AwaitingStartIInv, TrackIInv, UntrackIInv, ListIInv, ListByTagIInv,
   DeleteTagCommandIInv, UnknownIInv, TagsIInv, FiltersIInv DEF Handle

-----------------------------------------------------------------------------
(* The calls: each ends in a message; that what is said of a pair is so is the
   caller's to show. *)

LEMMA CallIInv ==
  ASSUME IInv, pc \in Calls, pc' = "send", reply' \in Replies \ {"AddTags", "AddFilters"},
         UNCHANGED <<queue, offset, memory, asked, finished>>,
         registered' \subseteq Chats, tracked' \subseteq Chats \X Links,
         tracked' \cap (Groups \X Links) = {},
         late' \in [LateCalls -> 0..MaxLate],
         said' \in [Chats \X Links -> {"nothing", "tracked", "untracked"}],
         effects' \in {0, 1},
         SaidIsSo'
  PROVE  IInv'
<1> USE DEF memory
<1>1. Chat' = Chat /\ Text' = Text BY SameUpdate
<1>2. TypeOK' BY DEF IInv, TypeOK
<1>3. LoopInv' BY DEF IInv, LoopInv, Busy, Calls
<1>4. HandlerInv' BY <1>1 DEF IInv, HandlerInv, Calls
<1>5. EffectInv' BY DEF EffectInv
<1>6. DialogueHasRequest' BY DEF IInv, DialogueHasRequest, Dialogue
<1>7. pc # "handle" /\ States[Chat] = "Start" BY DEF IInv, HandlerInv, Calls
<1>8. DictationInv' BY <1>7 DEF IInv, DictationInv, Dialogue
<1>9. SavesWhatWasDictated' BY DEF SavesWhatWasDictated
<1> QED BY <1>2, <1>3, <1>4, <1>5, <1>6, <1>8, <1>9 DEF IInv

(* A call that leaves the pairs alone, and what was said of them. *)
LEMMA OtherCallIInv ==
  ASSUME IInv, pc \in Calls, pc' = "send", reply' \in Replies \ {"AddTags", "AddFilters"},
         UNCHANGED <<queue, offset, memory, asked, finished, tracked, late, said>>,
         registered' \subseteq Chats, effects' \in {0, 1}
  PROVE  IInv'
<1>1. /\ tracked' \subseteq Chats \X Links /\ tracked' \cap (Groups \X Links) = {}
      /\ late' \in [LateCalls -> 0..MaxLate]
      /\ said' \in [Chats \X Links -> {"nothing", "tracked", "untracked"}]
  BY DEF IInv, TypeOK, HandlerInv
<1>2. SaidIsSo' BY DEF IInv, SaidIsSo
<1> QED BY <1>1, <1>2, CallIInv

(* An update that calls the scrapper has not done so before. *)
LEMMA FirstEffect ==
  ASSUME IInv, pc \in Calls \ {"RegisterChat"}
  PROVE  effects = 0
BY DEF IInv, EffectInv, LoopInv, Calls

LEMMA RegisterChatIInv == ASSUME IInv, RegisterChat PROVE IInv'
<1> USE DEF RegisterChat, Reply, history
<1>1. Chat \in Chats BY UnderWay DEF IInv, Busy, Calls
<1>2. registered' \subseteq Chats BY <1>1 DEF IInv, TypeOK
<1>3. effects' \in {0, 1} BY DEF IInv, EffectInv
<1> QED BY <1>2, <1>3, OtherCallIInv DEF Calls, Replies

(* A call about a link: what its message says has to be so where its outcome
   leaves the data, and it touches no other pair. *)
LEMMA ChangeLinkIInv ==
  ASSUME IInv, pc \in {"AddLink", "RemoveLink"}, NEW name, NEW l, NEW o, NEW message,
         ChangeLink(name, l, o, message),
         message \in Replies \ {"AddTags", "AddFilters"},
         o.data \in {tracked, tracked \cup {<<Chat, l>>}, tracked \ {<<Chat, l>>}},
         o.data \subseteq Chats \X Links, o.data \cap (Groups \X Links) = {},
         Says(message) = "tracked" => <<Chat, l>> \in o.data,
         Says(message) = "untracked" => <<Chat, l>> \notin o.data
  PROVE  IInv'
<1> DEFINE call == [name |-> name, chat |-> Chat, link |-> l]
<1>1. /\ pc' = "send" /\ reply' = message /\ tracked' = o.data
      /\ UNCHANGED <<queue, offset, memory, registered, asked, finished>>
      /\ MayGoOn(o.status, call)
      /\ said' = [p \in Chats \X Links |->
                    IF p = <<Chat, l>> THEN Says(message) ELSE said[p]]
  BY DEF ChangeLink, Change, Reply
<1>2. effects' \in {0, 1} BY FirstEffect DEF ChangeLink, Change, Calls
<1>3. registered' \subseteq Chats BY <1>1 DEF IInv, TypeOK
<1>4. late' \in [LateCalls -> 0..MaxLate]
  <2>1. late \in [LateCalls -> 0..MaxLate] BY DEF IInv, TypeOK
  <2> HIDE DEF call
  <2> QED BY <1>1, <2>1, BotAssumption DEF MayGoOn
<1>5. said \in [Chats \X Links -> {"nothing", "tracked", "untracked"}] BY DEF IInv, TypeOK
<1>6. Says(message) \in {"nothing", "tracked", "untracked"} BY DEF Says
<1>7. said' \in [Chats \X Links -> {"nothing", "tracked", "untracked"}]
  BY <1>1, <1>5, <1>6
<1>8. SaidIsSo'
  <2> SUFFICES ASSUME NEW p \in Chats \X Links
               PROVE  /\ said'[p] = "tracked" => p \in tracked'
                      /\ said'[p] = "untracked" => p \notin tracked'
    BY DEF SaidIsSo
  <2>1. CASE p = <<Chat, l>>
    <3>1. said'[p] = Says(message) BY <1>1, <2>1
    <3> QED BY <1>1, <2>1, <3>1
  <2>2. CASE p # <<Chat, l>>
    <3>1. said'[p] = said[p] BY <1>1, <2>2
    <3>2. p \in tracked' <=> p \in tracked BY <1>1, <2>2
    <3> QED BY <3>1, <3>2 DEF IInv, SaidIsSo
  <2> QED BY <2>1, <2>2
<1> QED BY <1>1, <1>2, <1>3, <1>4, <1>7, <1>8, CallIInv DEF Calls

LEMMA AddLinkIInv == ASSUME IInv, AddLink PROVE IInv'
<1> DEFINE link == addRequests[Chat].link
<1>1. PICK o \in AddLinkOutcomes(Chat, link) :
        ChangeLink("AddLink", link, o, AddLinkReply(o.status))
  BY DEF AddLink
<1>2. pc = "AddLink" BY DEF AddLink
<1>3. Chat \in Chats /\ link \in Links BY <1>2, UnderWay DEF IInv, HandlerInv, Busy, Calls
<1>4. tracked \subseteq Chats \X Links /\ tracked \cap (Groups \X Links) = {}
  BY DEF IInv, TypeOK, HandlerInv
<1> HIDE DEF link
<1>5. /\ o.data \in {tracked, tracked \cup {<<Chat, link>>}}
      /\ o.data \subseteq Chats \X Links /\ o.data \cap (Groups \X Links) = {}
      /\ o.status = 200 => <<Chat, link>> \in o.data
  BY <1>3, <1>4 DEF AddLinkOutcomes, Outcomes
<1>6. /\ AddLinkReply(o.status) \in {"Saved", "LinkAlreadyExists", "ErrAddLink"}
      /\ AddLinkReply(o.status) = "Saved" => o.status = 200
  BY DEF AddLinkReply
<1>7. /\ Says(AddLinkReply(o.status)) = "tracked" => o.status = 200
      /\ Says(AddLinkReply(o.status)) # "untracked"
  BY <1>6 DEF Says
<1>8. AddLinkReply(o.status) \in Replies \ {"AddTags", "AddFilters"} BY <1>6 DEF Replies
<1> QED BY <1>1, <1>2, <1>5, <1>7, <1>8, ChangeLinkIInv

LEMMA RemoveLinkIInv == ASSUME IInv, RemoveLink PROVE IInv'
<1>1. PICK o \in RemoveLinkOutcomes(Chat, Given[1]) :
        ChangeLink("RemoveLink", Given[1], o, RemoveLinkReply(o.status))
  BY DEF RemoveLink
<1>2. pc = "RemoveLink" BY DEF RemoveLink
<1>3. tracked \subseteq Chats \X Links /\ tracked \cap (Groups \X Links) = {}
  BY DEF IInv, TypeOK, HandlerInv
<1>4. Chat \in Chats BY <1>2, UnderWay DEF IInv, Busy, Calls
<1>5. /\ o.data \in {tracked, tracked \ {<<Chat, Given[1]>>}}
      /\ o.data \subseteq Chats \X Links /\ o.data \cap (Groups \X Links) = {}
      /\ o.status \notin {0, 500} => <<Chat, Given[1]>> \notin o.data
  BY <1>3, <1>4 DEF RemoveLinkOutcomes, Outcomes
<1>6. /\ RemoveLinkReply(o.status) \in {"ErrDeleteLink", "LinkNotFound", "Deleted"}
      /\ RemoveLinkReply(o.status) # "ErrDeleteLink" => o.status \notin {0, 500}
  BY DEF RemoveLinkReply
<1>7. /\ Says(RemoveLinkReply(o.status)) # "tracked"
      /\ Says(RemoveLinkReply(o.status)) = "untracked" => o.status \notin {0, 500}
  BY <1>6 DEF Says
<1>8. RemoveLinkReply(o.status) \in Replies \ {"AddTags", "AddFilters"} BY <1>6 DEF Replies
<1> QED BY <1>1, <1>2, <1>5, <1>7, <1>8, ChangeLinkIInv

LEMMA DeleteTagIInv == ASSUME IInv, DeleteTag PROVE IInv'
<1>1. PICK status : Change(tracked, DeleteTagReply(status)) BY DEF DeleteTag
<1>2. pc = "DeleteTag" /\ UNCHANGED <<late, said>> BY DEF DeleteTag
<1>3. DeleteTagReply(status) \in Replies \ {"AddTags", "AddFilters"}
  BY DEF DeleteTagReply, Replies
<1>4. effects' \in {0, 1} BY <1>1, <1>2, FirstEffect DEF Change, Calls
<1>5. /\ pc' = "send" /\ reply' = DeleteTagReply(status) /\ tracked' = tracked
      /\ UNCHANGED <<queue, offset, memory, registered, asked, finished>>
      /\ registered' \subseteq Chats
  BY <1>1 DEF Change, Reply, IInv, TypeOK
<1> QED BY <1>2, <1>3, <1>4, <1>5, OtherCallIInv DEF Calls

LEMMA ReadLinksIInv ==
  ASSUME IInv, pc \in {"GetLinks", "GetLinksByTag"}, NEW found, ReadLinks(found)
  PROVE  IInv'
<1> USE DEF ReadLinks
<1>1. UNCHANGED <<queue, addRequests, scrapper, effects, said>> OBVIOUS
<1>2. CASE Finish(States) /\ asked' = Asked(States, FALSE)
  BY <1>1, <1>2, ReturnIInv DEF Busy, Calls
<1>3. CASE /\ Reply(IF found THEN "LinkList" ELSE "NoSavedPages")
           /\ UNCHANGED <<offset, States, asked, finished>>
  <2>1. pc' = "send" /\ reply' \in {"LinkList", "NoSavedPages"} BY <1>3 DEF Reply
  <2>2. registered' \subseteq Chats /\ effects' \in {0, 1}
    BY <1>1 DEF IInv, TypeOK, EffectInv, scrapper
  <2> QED BY <1>1, <1>3, <2>1, <2>2, OtherCallIInv DEF Calls, Replies, memory, scrapper
<1> QED BY <1>2, <1>3

LEMMA CallsIInv == ASSUME IInv, Call PROVE IInv'
<1>1. CASE GetLinks BY <1>1, ReadLinksIInv DEF GetLinks, AnyOfItsLinks
<1>2. CASE GetLinksByTag BY <1>2, ReadLinksIInv DEF GetLinksByTag, AnyOfItsLinks
<1> QED BY <1>1, <1>2, RegisterChatIInv, AddLinkIInv, RemoveLinkIInv, DeleteTagIInv DEF Call

-----------------------------------------------------------------------------
(* A call given up before ends: it is no group's, and what it changes is no
   longer said. *)
LEMMA EndsLateIInv == ASSUME IInv, NEW call \in LateCalls, EndsLate(call) PROVE IInv'
<1> USE DEF EndsLate, memory
<1>1. /\ UNCHANGED <<queue, offset, pc, reply, memory, registered, asked, effects, finished>>
      /\ tracked' \in LateResults(call)
  OBVIOUS
<1>2. call.chat \in Chats \ Groups /\ call.link \in Links BY DEF LateCalls
<1>3. tracked \subseteq Chats \X Links /\ tracked \cap (Groups \X Links) = {}
  BY DEF IInv, TypeOK, HandlerInv
<1>4. tracked' \subseteq Chats \X Links /\ tracked' \cap (Groups \X Links) = {}
  <2>1. \/ tracked' \subseteq tracked
        \/ tracked' = tracked \cup {<<call.chat, call.link>>}
    BY <1>1 DEF LateResults
  <2> QED BY <1>2, <1>3, <2>1
<1>5. late' \in [LateCalls -> 0..MaxLate]
  <2>1. late \in [LateCalls -> 0..MaxLate] /\ MaxLate \in Nat
    BY BotAssumption DEF IInv, TypeOK
  <2>2. late[call] - 1 \in 0..MaxLate BY <2>1
  <2> QED BY <2>1, <2>2
<1>6. /\ said' \in [Chats \X Links -> {"nothing", "tracked", "untracked"}]
      /\ \A p \in Chats \X Links :
           said'[p] = IF p \in tracked <=> p \in tracked' THEN said[p] ELSE "nothing"
  BY DEF IInv, TypeOK
<1>7. TypeOK' BY <1>1, <1>4, <1>5, <1>6 DEF IInv, TypeOK
<1>8. Chat' = Chat /\ Text' = Text BY <1>1, SameUpdate
<1>9. LoopInv' /\ EffectInv' BY <1>1 DEF IInv, LoopInv, Busy, Fresh, EffectInv
<1>10. HandlerInv' BY <1>1, <1>4, <1>8 DEF IInv, HandlerInv
<1>11. DialogueHasRequest' BY <1>1 DEF IInv, DialogueHasRequest, Dialogue
<1>12. DictationInv' BY <1>1, <1>8 DEF IInv, DictationInv, Dialogue
<1>13. SavesWhatWasDictated' BY <1>1, <1>8 DEF IInv, SavesWhatWasDictated
<1>14. SaidIsSo' BY <1>6 DEF IInv, SaidIsSo
<1> QED BY <1>7, <1>9, <1>10, <1>11, <1>12, <1>13, <1>14 DEF IInv

-----------------------------------------------------------------------------
LEMMA StepIInv == IInv /\ [Next]_vars => IInv'
<1> SUFFICES ASSUME IInv, [Next]_vars PROVE IInv' OBVIOUS
<1>1. CASE \E u \in Inputs : UserSends(u) BY <1>1, UserSendsIInv
<1>2. CASE Crash BY <1>2, CrashIInv
<1>3. CASE Restart BY <1>3, RestartIInv
<1>4. CASE PollFails BY <1>4, PollFailsIInv
<1>5. CASE Loop BY <1>5, PollIInv, HandleIInv, CallsIInv, SendOKIInv, SendFailsIInv DEF Loop
<1>6. CASE UNCHANGED vars
  <2> USE <1>6 DEF vars, memory, scrapper, history
  <2>1. Chat' = Chat /\ Text' = Text BY SameUpdate
  <2>2. TypeOK' /\ LoopInv' BY DEF IInv, TypeOK, LoopInv, Busy, Fresh
  <2>3. HandlerInv' /\ EffectInv' BY <2>1 DEF IInv, HandlerInv, EffectInv, Fresh
  <2>4. DialogueHasRequest' BY DEF IInv, DialogueHasRequest, Dialogue
  <2>5. DictationInv' BY <2>1 DEF IInv, DictationInv, Dialogue
  <2>6. SavesWhatWasDictated' /\ SaidIsSo'
    BY <2>1 DEF IInv, SavesWhatWasDictated, SaidIsSo
  <2> QED BY <2>2, <2>3, <2>4, <2>5, <2>6 DEF IInv
<1>7. CASE \E call \in LateCalls : EndsLate(call) BY <1>7, EndsLateIInv
<1> QED BY <1>1, <1>2, <1>3, <1>4, <1>5, <1>6, <1>7 DEF Next

THEOREM BotInvariance == Spec => []IInv
BY InitIInv, StepIInv, PTL DEF Spec

(* Type correctness: among others that the offset never passes the first update
   of the queue, and that every call and message is about a chat. *)
THEOREM BotTypeOK == Spec => []TypeOK
<1>1. IInv => TypeOK BY DEF IInv
<1> QED BY <1>1, BotInvariance, PTL

(* The manager never dereferences a missing request, whatever interleaving of
   chats, failures, crashes and updates that come again. *)
THEOREM BotDialogueHasRequest == Spec => []DialogueHasRequest
<1>1. IInv => DialogueHasRequest BY DEF IInv
<1> QED BY <1>1, BotInvariance, PTL

(* AddLink is called with what this chat dictated. *)
THEOREM BotSavesWhatWasDictated == Spec => []SavesWhatWasDictated
<1>1. IInv => SavesWhatWasDictated BY DEF IInv
<1> QED BY <1>1, BotInvariance, PTL

(* An update that comes again after a crash has no second effect. *)
THEOREM BotOneEffectPerUpdate == Spec => []OneEffectPerUpdate
<1>1. IInv => OneEffectPerUpdate BY DEF IInv, TypeOK, EffectInv, OneEffectPerUpdate
<1> QED BY <1>1, BotInvariance, PTL

(* What "Saved", "Deleted" and "LinkNotFound" told a chat of its link is so, and
   stays so until its next command about that link or until a call given up before
   takes effect after all; nothing else, no crash and no other chat, undoes it. *)
THEOREM BotSaidIsSo == Spec => []SaidIsSo
<1>1. IInv => SaidIsSo BY DEF IInv
<1> QED BY <1>1, BotInvariance, PTL

(* Telegram is told to forget an update only when its handler has returned, and
   no later one with it. *)
THEOREM BotConfirmsOnlyFinished == Spec => ConfirmsOnlyFinished
<1> DEFINE Confirms == Len(queue') < Len(queue) => finished /\ queue' = Tail(queue)
<1>1. ASSUME IInv, [Next]_vars PROVE [Confirms]_vars
  <2>1. Len(queue) \in Nat /\ queue \in Seq(Inputs)
    BY <1>1, LenProperties DEF IInv, TypeOK
  <2>2. CASE queue' = queue BY <2>1, <2>2
  <2>3. CASE \E u \in Inputs : UserSends(u)
    <3>1. Len(queue') = Len(queue) + 1 BY <2>1, <2>3 DEF UserSends
    <3> QED BY <2>1, <3>1
  <2>4. ASSUME NEW n \in {0, offset}, ConfirmUpTo(n) PROVE Confirms
    <3>1. CASE n = 0 BY <1>1, <2>1, <2>4, <3>1, ConfirmDoes DEF IInv
    <3>2. CASE n # 0
      <4>1. n = 1 /\ offset = 1 BY <1>1, <2>4, <3>2 DEF IInv, TypeOK
      <4>2. finished BY <1>1, <4>1 DEF IInv, LoopInv
      <4>3. queue' = Tail(queue) BY <1>1, <2>4, <4>1, ConfirmDoes DEF IInv
      <4> QED BY <4>2, <4>3
    <3> QED BY <3>1, <3>2
  <2>5. CASE Poll BY <2>4, <2>5 DEF Poll
  <2>6. CASE PollFails BY <2>4, <2>6 DEF PollFails
  <2>7. CASE Crash \/ Restart \/ \E call \in LateCalls : EndsLate(call)
    BY <2>2, <2>7 DEF Crash, Restart, EndsLate
  <2>8. CASE Handle
    BY <2>2, <2>8 DEF Handle, EmptyText, HandleAwaitingStart, processTrackCommand,
       processUntrackCommand, processListCommand, processListByTagCommand, processDeleteTag,
       processUnknownCommand, handleAwaitingTagsForTrack, handleAwaitingFiltersForTrack
  <2>9. CASE Call
    BY <2>2, <2>9 DEF Call, RegisterChat, AddLink, RemoveLink, DeleteTag, ChangeLink,
       Change, GetLinks, GetLinksByTag, AnyOfItsLinks, ReadLinks
  <2>10. CASE SendOK \/ SendFails BY <2>2, <2>10 DEF SendOK, SendFails
  <2>11. CASE UNCHANGED vars BY <2>2, <2>11 DEF vars
  <2> QED BY <1>1, <2>3, <2>5, <2>6, <2>7, <2>8, <2>9, <2>10, <2>11 DEF Next, Loop
<1> QED BY <1>1, BotInvariance, PTL DEF Spec, ConfirmsOnlyFinished
=============================================================================
